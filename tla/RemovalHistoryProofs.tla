------------------------ MODULE RemovalHistoryProofs ------------------------
(***************************************************************************)
(* The shared journal, for any number of instances, paths and objects: the *)
(* program implements RemovalLedger, and what it writes can be read again. *)
(* And the disk: no restore destroys an object or publishes another one.   *)
(***************************************************************************)
EXTENDS RemovalHistory, SequenceTheorems, WellFoundedInduction, TLAPS

-----------------------------------------------------------------------------
(* The types as sets, which the provers handle better than predicates *)

Items      == UNION {[S -> ItemType] : S \in SUBSET Paths}
Statuses   == {"completed", "partial", "failed", "restored"}
Operations == [id : Nat, status : Statuses, items : Items]
Calls == [pc     : {"idle"} \cup Removing \cup Restoring,
          todo   : SUBSET Paths,
          rest   : SUBSET Paths,
          built  : Items,
          seen   : [Paths -> Objects \cup {Nothing}],
          store  : Seq(Operations),
          opId   : Nat,
          path   : Paths \cup {Nothing},
          from   : Spots \cup {Nothing},
          to     : Spots \cup {Nothing},
          expect : Identity \cup {Nothing},
          back   : BOOLEAN]

DiskTyped ==
  /\ entry \in [Spots -> Objects \cup {Nothing, Stub}]
  /\ dirAt \in [{"home", "trash"} -> Dirs]
  /\ stamp \in [Objects -> Nat] /\ content \in [Objects -> Nat]
  /\ rename \in Renames

Typed ==
  /\ DiskTyped
  /\ journal \in Seq(Operations)
  /\ lock \in Actors \cup {Nobody}
  /\ lastId \in Nat
  /\ call \in [Actors -> Calls]
  /\ requests \in 0..MaxRequests
  /\ meddles \in 0..MaxMeddles

-----------------------------------------------------------------------------
(* The bound of the journal *)

\* A set of naturals that is not empty has a least member.
LEMMA LeastMember ==
  ASSUME NEW S \in SUBSET Nat, S # {}
  PROVE  Min(S) \in S
<1> DEFINE Less == {pair \in Nat \X Nat : pair[1] < pair[2]}
<1>1. IsWellFoundedOn(Less, Nat)
  BY NatLessThanWellFounded DEF OpToRel
<1>2. \A m, n \in Nat : m < n => <<m, n>> \in Less
  OBVIOUS
<1> HIDE DEF Less
<1>3. PICK n \in S : \A m \in S : ~ (<<m, n>> \in Less)
  BY <1>1, WFMin
<1>4. \A m \in S : n <= m
  <2> SUFFICES ASSUME NEW m \in S PROVE n <= m
    OBVIOUS
  <2>1. m \in Nat /\ n \in Nat
    OBVIOUS
  <2>2. ~ (m < n)
    BY <1>2, <1>3, <2>1, Zenon
  <2> QED
    BY <2>1, <2>2
<1> QED
  BY <1>4 DEF Min

\* Bound keeps a last part of the journal, which fits.
LEMMA BoundIsSuffix ==
  ASSUME NEW S, NEW ops \in Seq(S), ops # <<>>, Storable(ops)
  PROVE  \E k \in 1..Len(ops) : /\ Bound(ops) = SubSeq(ops, k, Len(ops))
                                /\ Fits(SubSeq(ops, k, Len(ops)))
<1> DEFINE Fitting == {k \in DOMAIN ops : Fits(Since(ops, k))}
<1>1. Len(ops) \in DOMAIN ops
  OBVIOUS
<1>2. Len(Since(ops, Len(ops))) = 1
  BY DEF Since
<1>3. Fits(Since(ops, Len(ops)))
  BY <1>2, JournalAssumption DEF Fits, Storable
<1>4. Fitting # {} /\ Fitting \in SUBSET Nat
  BY <1>1, <1>3
<1>5. Min(Fitting) \in Fitting
  BY <1>4, LeastMember
<1>6. Bound(ops) = Since(ops, Min(Fitting))
  BY DEF Bound
<1>7. Min(Fitting) \in 1..Len(ops) /\ Fits(Since(ops, Min(Fitting)))
  BY <1>5
<1> HIDE DEF Fitting
<1> QED
  BY <1>6, <1>7 DEF Since

\* What a last part of a sequence holds.
LEMMA SuffixHolds ==
  ASSUME NEW S, NEW ops \in Seq(S), NEW k \in 1..Len(ops)
  PROVE  LET part == SubSeq(ops, k, Len(ops)) IN
         /\ part \in Seq(S) /\ part # <<>>
         /\ \A j \in DOMAIN part : /\ j + k - 1 \in DOMAIN ops
                                   /\ part[j] = ops[j + k - 1]
         /\ part[Len(part)] = ops[Len(ops)]
<1> DEFINE part == SubSeq(ops, k, Len(ops))
<1>1. Len(ops) \in Nat /\ k \in Nat /\ k <= Len(ops)
  OBVIOUS
<1>2. \A i \in k..Len(ops) : ops[i] \in S
  OBVIOUS
<1>3. /\ part \in Seq(S)
      /\ Len(part) = Len(ops) - k + 1
      /\ \A i \in 1..(Len(ops) - k + 1) : part[i] = ops[k + i - 1]
  BY <1>1, <1>2, SubSeqProperties
<1> HIDE DEF part
<1>4. part # <<>>
  <2>1. Len(part) # 0
    BY <1>1, <1>3
  <2> QED
    BY <2>1, EmptySeq
<1>5. ASSUME NEW j \in DOMAIN part
      PROVE  j + k - 1 \in DOMAIN ops /\ part[j] = ops[j + k - 1]
  <2>1. j \in 1..(Len(ops) - k + 1)
    BY <1>3
  <2>2. k + j - 1 = j + k - 1
    BY <1>1, <2>1
  <2> QED
    BY SMTT(30), <1>1, <1>3, <2>1, <2>2
<1>6. part[Len(part)] = ops[Len(ops)]
  <2>1. Len(part) \in 1..(Len(ops) - k + 1) /\ k + Len(part) - 1 = Len(ops)
    BY <1>1, <1>3
  <2> QED
    BY <1>3, <2>1
<1> QED
  BY <1>3, <1>4, <1>5, <1>6 DEF part

-----------------------------------------------------------------------------
(* The abstract specification speaks of the same journal *)

\* The weight is that of the ledger: both modules define it by RemovalJournal.
LEMMA LedgerWeight == \A ops : Ledger!WeightOf(ops) = WeightOf(ops)
  BY DEF Ledger!WeightOf, WeightOf, Ledger!Weight, Weight,
         Ledger!MapThenSumSet, MapThenSumSet,
         Ledger!MapThenFoldSet, MapThenFoldSet

\* So are the bound and what it depends on.
LEMMA LedgerBound == \A ops : /\ Ledger!Bound(ops) = Bound(ops)
                              /\ Ledger!Storable(ops) = Storable(ops)
                              /\ Ledger!ValidStore(ops) = ValidStore(ops)
<1>1. \A ops : Ledger!Fits(ops) = Fits(ops)
  BY LedgerWeight DEF Ledger!Fits, Fits
<1>2. \A ops : Ledger!Bound(ops) = Bound(ops)
  BY LedgerWeight DEF Ledger!Bound, Bound, Ledger!Fits, Fits,
                      Ledger!Since, Since, Ledger!Min, Min
<1>3. \A ops : Ledger!Storable(ops) = Storable(ops)
  BY LedgerWeight DEF Ledger!Storable, Storable, Ledger!Since, Since
<1>4. \A ops : Ledger!ValidStore(ops) = ValidStore(ops)
  BY <1>1 DEF Ledger!ValidStore, ValidStore
<1> QED
  BY <1>2, <1>3, <1>4

\* So is what is said of a single operation or item.
LEMMA LedgerItem ==
  /\ \A ops, id : Ledger!Known(ops, id) = Known(ops, id)
  /\ \A ops, id, p : /\ Ledger!Listed(ops, id, p) = Listed(ops, id, p)
                     /\ Ledger!MarkRestored(ops, id, p) = MarkRestored(ops, id, p)
  /\ \A item : Ledger!HasProof(item) = HasProof(item)
  /\ \A ops : Ledger!Last(ops) = ops[Len(ops)]
<1>1. \A ops, id : Ledger!Known(ops, id) = Known(ops, id)
  BY DEF Ledger!Known, Known
<1>2. \A ops, id, p : Ledger!Listed(ops, id, p) = Listed(ops, id, p)
  BY <1>1 DEF Ledger!Listed, Listed, Ledger!Place, Place
<1>3. \A ops, id, p : Ledger!MarkRestored(ops, id, p) = MarkRestored(ops, id, p)
  BY DEF Ledger!MarkRestored, MarkRestored, Ledger!Place, Place
<1>4. \A item : Ledger!HasProof(item) = HasProof(item)
  BY DEF Ledger!HasProof, HasProof
<1> QED
  BY <1>1, <1>2, <1>3, <1>4 DEF Ledger!Last

-----------------------------------------------------------------------------
(* The two updates of the journal *)

\* What a valid journal promises beside its size.
Sound(ops) ==
  /\ \A j, k \in DOMAIN ops : ops[j].id = ops[k].id => j = k
  /\ \A k \in DOMAIN ops :
       ops[k].status = "restored" =>
         \A p \in DOMAIN ops[k].items : ops[k].items[p].status = "restored"

\* What is bounded stays typed and sound, and ends as it did.
LEMMA BoundKeeps ==
  ASSUME NEW ops \in Seq(Operations), ops # <<>>, Storable(ops), Sound(ops)
  PROVE  /\ Bound(ops) \in Seq(Operations)
         /\ ValidStore(Bound(ops))
         /\ Bound(ops) # <<>>
         /\ Bound(ops)[Len(Bound(ops))] = ops[Len(ops)]
         /\ \A j \in DOMAIN Bound(ops) :
              \E k \in DOMAIN ops : Bound(ops)[j] = ops[k]
<1>1. PICK k \in 1..Len(ops) : /\ Bound(ops) = SubSeq(ops, k, Len(ops))
                               /\ Fits(SubSeq(ops, k, Len(ops)))
  BY BoundIsSuffix
<1>2. /\ Bound(ops) \in Seq(Operations) /\ Bound(ops) # <<>>
      /\ \A j \in DOMAIN Bound(ops) : /\ j + k - 1 \in DOMAIN ops
                                      /\ Bound(ops)[j] = ops[j + k - 1]
      /\ Bound(ops)[Len(Bound(ops))] = ops[Len(ops)]
  BY <1>1, SuffixHolds
<1>3. DOMAIN Bound(ops) \subseteq Nat
  BY <1>2
<1>4. Sound(Bound(ops))
  <2>1. ASSUME NEW i \in DOMAIN Bound(ops), NEW j \in DOMAIN Bound(ops),
               Bound(ops)[i].id = Bound(ops)[j].id
        PROVE  i = j
    <3>1. i + k - 1 = j + k - 1
      BY <1>2, <2>1 DEF Sound
    <3> QED
      BY <1>3, <3>1
  <2>2. ASSUME NEW j \in DOMAIN Bound(ops), Bound(ops)[j].status = "restored"
        PROVE  \A p \in DOMAIN Bound(ops)[j].items :
                 Bound(ops)[j].items[p].status = "restored"
    BY <1>2, <2>2 DEF Sound
  <2> QED
    BY <2>1, <2>2 DEF Sound
<1>5. ValidStore(Bound(ops))
  BY <1>1, <1>4 DEF ValidStore, Sound
<1> QED
  BY <1>2, <1>5

\* An operation of a call of to_trash is one of the journal's.
LEMMA OperationTyped ==
  ASSUME NEW id \in Nat, NEW items \in Items
  PROVE  /\ Operation(id, items) \in Operations
         /\ Operation(id, items).id = id
         /\ Operation(id, items).status # "restored"
  BY DEF Operation, Operations, Statuses

\* A new operation at the end of a sound journal leaves it sound.
LEMMA AppendSound ==
  ASSUME NEW ops \in Seq(Operations), Sound(ops),
         NEW op \in Operations, op.status # "restored",
         \A k \in DOMAIN ops : ops[k].id # op.id
  PROVE  /\ Append(ops, op) \in Seq(Operations)
         /\ Append(ops, op) # <<>>
         /\ Append(ops, op)[Len(Append(ops, op))] = op
         /\ Sound(Append(ops, op))
<1> DEFINE new == Append(ops, op)
<1>1. /\ new \in Seq(Operations) /\ new # <<>>
      /\ Len(new) = Len(ops) + 1
      /\ \A i \in 1..Len(ops) : new[i] = ops[i]
      /\ new[Len(ops) + 1] = op
  BY AppendProperties
<1> HIDE DEF new
<1>2. DOMAIN new = 1..Len(ops) \cup {Len(ops) + 1} /\ DOMAIN ops = 1..Len(ops)
  BY <1>1
<1>3. Sound(new)
  BY <1>1, <1>2 DEF Sound
<1> QED
  BY <1>1, <1>3 DEF new

\* Marking an item changes neither the names nor the order of the operations.
LEMMA MarkSound ==
  ASSUME NEW ops \in Seq(Operations), Sound(ops),
         NEW id, NEW p, Listed(ops, id, p)
  PROVE  /\ MarkRestored(ops, id, p) \in Seq(Operations)
         /\ MarkRestored(ops, id, p) # <<>>
         /\ DOMAIN MarkRestored(ops, id, p) = DOMAIN ops
         /\ \A k \in DOMAIN ops : MarkRestored(ops, id, p)[k].id = ops[k].id
         /\ Sound(MarkRestored(ops, id, p))
<1> DEFINE k     == Place(ops, id)
           items == [ops[k].items EXCEPT ![p].status = "restored"]
           whole == \A q \in DOMAIN items : items[q].status = "restored"
           new   == MarkRestored(ops, id, p)
<1>1. k \in DOMAIN ops /\ ops[k].id = id /\ p \in DOMAIN ops[k].items
  BY DEF Listed, Known, Place
<1>2. ops[k] \in Operations
  BY <1>1
<1>3. items \in Items /\ DOMAIN items = DOMAIN ops[k].items
  <2>1. PICK P \in SUBSET Paths : ops[k].items \in [P -> ItemType]
    BY <1>2 DEF Operations, Items
  <2>2. [ops[k].items[p] EXCEPT !.status = "restored"] \in ItemType
    BY <1>1, <2>1 DEF ItemType
  <2>3. items \in [P -> ItemType]
    BY <1>1, <2>1, <2>2
  <2> QED
    BY <2>1, <2>3 DEF Items
<1>4. /\ new = [ops EXCEPT ![k].items = items,
                           ![k].status = IF whole THEN "restored" ELSE "partial"]
  BY DEF MarkRestored
<1> HIDE DEF k, items, new
<1>5. /\ DOMAIN new = DOMAIN ops
      /\ \A j \in DOMAIN ops : j # k => new[j] = ops[j]
      /\ new[k] \in Operations
      /\ new[k].id = ops[k].id
      /\ new[k].items = items
      /\ new[k].status = "restored" => whole
  BY <1>1, <1>2, <1>3, <1>4 DEF Operations, Statuses
<1>6. new \in Seq(Operations) /\ new # <<>>
  <2>1. new = [ops EXCEPT ![k] = new[k]]
    BY <1>1, <1>4
  <2>2. new \in Seq(Operations)
    BY <1>1, <1>5, <2>1, ExceptSeq
  <2> QED
    BY <1>1, <1>5, <2>2
<1>7. Sound(new)
  BY <1>1, <1>5 DEF Sound
<1> QED
  BY <1>5, <1>6, <1>7 DEF new

-----------------------------------------------------------------------------
(* One call at a time *)

\* An operation may be begun without an item.
LEMMA NoItems == <<>> \in Items
<1>1. <<>> \in [{} -> ItemType]
  OBVIOUS
<1> QED
  BY <1>1 DEF Items

\* The locals of no call are typed.
LEMMA NoCallTyped ==
  /\ NoCall \in Calls
  /\ NoCall.pc = "idle" /\ NoCall.rest = {} /\ NoCall.back = FALSE
  /\ NoCall.built = <<>> /\ NoCall.store = <<>>
<1>1. <<>> \in Seq(Operations)
  OBVIOUS
<1> QED
  BY <1>1, NoItems DEF NoCall, Calls

\* What one actor does in its own call, without the lock or with it, leaves
\* the others' calls as they were.
LEMMA OthersKept ==
  ASSUME NEW a \in Actors,
         \A b \in Actors : CallOK(b),
         \A b \in Actors \ {a} : call'[b] = call[b],
         lock' = lock \/ lock \in {Nobody, a},
         journal' = journal \/ lock = a
  PROVE  \A b \in Actors \ {a} : CallOK(b)'
<1> SUFFICES ASSUME NEW b \in Actors \ {a}
             PROVE  CallOK(b)'
  OBVIOUS
<1>1. HoldsLock(b)'
  BY HistoryAssumption DEF CallOK, HoldsLock
<1>2. KnowsItem(b)'
  BY DEF CallOK, KnowsItem, Current
<1>3. KnowsMoved(b)'
  BY DEF CallOK, KnowsMoved
<1> QED
  BY <1>1, <1>2, <1>3 DEF CallOK

\* A call outside the critical section, and not moving, knows nothing.
LEMMA FreeCall ==
  ASSUME NEW a \in Actors,
         call'[a].pc \in {"idle", "preflight", "enterRestore"}
  PROVE  CallOK(a)'
  BY DEF CallOK, HoldsLock, KnowsItem, KnowsMoved, Locked, Renaming

\* A call ends.
LEMMA Leaving ==
  ASSUME Typed, NEW a \in Actors, Leave(a)
  PROVE  /\ call' \in [Actors -> Calls]
         /\ lock' \in Actors \cup {Nobody}
         /\ \A b \in Actors \ {a} : call'[b] = call[b]
         /\ CallOK(a)'
         /\ lock' = lock \/ lock = a
<1>1. call' = [call EXCEPT ![a] = NoCall]
  BY DEF Leave
<1>2. call' \in [Actors -> Calls] /\ call'[a] = NoCall
  BY <1>1, NoCallTyped DEF Typed
<1>3. CallOK(a)'
  BY <1>2, NoCallTyped, FreeCall
<1> QED
  BY <1>1, <1>2, <1>3 DEF Leave, Typed

\* A call goes on: one field of it, its label, is another.
LEMMA Going ==
  ASSUME Typed, NEW a \in Actors, NEW label, Go(a, label),
         label \in {"idle"} \cup Removing \cup Restoring
  PROVE  /\ call' \in [Actors -> Calls]
         /\ lock' = lock
         /\ \A b \in Actors \ {a} : call'[b] = call[b]
         /\ call'[a] = [call[a] EXCEPT !.pc = label]
<1>1. call[a] \in Calls
  BY DEF Typed
<1>2. [call[a] EXCEPT !.pc = label] \in Calls
  BY <1>1 DEF Calls
<1>3. call' = [call EXCEPT ![a] = [call[a] EXCEPT !.pc = label]]
  BY DEF Go
<1> QED
  BY <1>2, <1>3 DEF Typed, Go

\* The lock is taken and the journal read.
LEMMA Entering ==
  ASSUME Typed, NEW a \in Actors, NEW label, Enter(a, label),
         label \in Removing \cup Restoring
  PROVE  /\ call' \in [Actors -> Calls]
         /\ lock' = a /\ lock = Nobody
         /\ \A b \in Actors \ {a} : call'[b] = call[b]
         /\ call'[a] = [call[a] EXCEPT !.pc = label, !.store = journal]
<1>1. call[a] \in Calls
  BY DEF Typed
<1>2. [call[a] EXCEPT !.pc = label, !.store = journal] \in Calls
  BY <1>1 DEF Calls, Typed
<1>3. call' = [call EXCEPT ![a] = [call[a] EXCEPT !.pc = label, !.store = journal]]
  BY DEF Enter
<1> QED
  BY <1>2, <1>3 DEF Typed, Enter

\* A call is replaced by another record.
LEMMA Updating ==
  ASSUME Typed, NEW a \in Actors, NEW c \in Calls,
         call' = [call EXCEPT ![a] = c]
  PROVE  /\ call' \in [Actors -> Calls]
         /\ \A b \in Actors \ {a} : call'[b] = call[b]
         /\ call'[a] = c
  BY DEF Typed

\* What a step of actor a does to the calls and to the lock.
Alone(a) ==
  /\ call' \in [Actors -> Calls]
  /\ lock' \in Actors \cup {Nobody}
  /\ lock' = lock \/ lock \in {Nobody, a}
  /\ \A b \in Actors \ {a} : call'[b] = call[b]
  /\ CallOK(a)'

\* An item added to those of an operation.
LEMMA ItemAdded ==
  \A f \in Items, x \in Paths, v \in ItemType :
    /\ With(f, x, v) \in Items
    /\ DOMAIN With(f, x, v) = {x} \cup DOMAIN f
    /\ With(f, x, v)[x] = v
    /\ \A q \in DOMAIN f : q # x => With(f, x, v)[q] = f[q]
<1> TAKE f \in Items, x \in Paths, v \in ItemType
<1> DEFINE new == With(f, x, v)
<1>1. PICK P \in SUBSET Paths : f \in [P -> ItemType]
  BY DEF Items
<1>2. new = [q \in {x} \cup P |-> IF q = x THEN v ELSE f[q]]
  BY <1>1 DEF With
<1>3. new \in [{x} \cup P -> ItemType]
  BY <1>1, <1>2
<1> QED
  BY <1>1, <1>2, <1>3 DEF Items

\* An item of an operation replaced by another.
LEMMA ItemChanged ==
  ASSUME NEW items \in Items, NEW p \in DOMAIN items, NEW item \in ItemType
  PROVE  [items EXCEPT ![p] = item] \in Items
<1>1. PICK P \in SUBSET Paths : items \in [P -> ItemType]
  BY DEF Items
<1> QED
  BY <1>1 DEF Items

\* A field of an item replaced, as locate and the identity do.
LEMMA ItemFields ==
  ASSUME NEW items \in Items, NEW p
  PROVE  /\ \A n \in Names : [items EXCEPT ![p].bin = n] \in Items
         /\ \A id \in Identity \cup {Nothing} :
              [items EXCEPT ![p].id = id] \in Items
<1>1. CASE p \in DOMAIN items
  <2>1. items[p] \in ItemType
    BY <1>1 DEF Items
  <2>2. /\ \A n \in Names : [items[p] EXCEPT !.bin = n] \in ItemType
        /\ \A id \in Identity \cup {Nothing} :
             [items[p] EXCEPT !.id = id] \in ItemType
    BY <2>1 DEF ItemType
  <2> QED
    BY <1>1, <2>2, ItemChanged
<1>2. CASE p \notin DOMAIN items
  BY ZenonT(60), <1>2 DEF Items
<1> QED
  BY <1>1, <1>2

\* The items that to_trash builds.
LEMMA TrashedTyped ==
  ASSUME NEW digest \in Nat \cup {Nothing}
  PROVE  LET item == Trashed(Nothing, Nothing, digest)
         IN  /\ item \in ItemType /\ item.status = "trashed"
             /\ [item EXCEPT !.status = "failed"] \in ItemType
             /\ [item EXCEPT !.status = "failed"].status = "failed"
  BY DEF Trashed, ItemType

\* A call begins.
LEMMA AskSteps ==
  ASSUME Typed, NEW a \in Actors, Ask(a)
  PROVE  Alone(a)
<1>1. ASSUME NEW c \in Calls, Begin(a, c), call[a].pc = "idle",
             c.pc \in {"idle", "preflight", "enterRestore"}
      PROVE  Alone(a)
  BY <1>1, Updating, FreeCall DEF Begin, Alone, Typed
<1>2. CASE AskRemove(a)
  <2>1. PICK S \in (SUBSET Paths) \ {{}} :
          Begin(a, [NoCall EXCEPT !.pc = "move", !.todo = S])
    BY <1>2 DEF AskRemove
  <2> DEFINE c == [NoCall EXCEPT !.pc = "move", !.todo = S]
  <2>2. c \in Calls /\ c.pc = "move" /\ c.built = <<>>
    BY NoCallTyped DEF Calls, Removing
  <2>3. call' = [call EXCEPT ![a] = c] /\ lock' = lock
    BY <2>1 DEF Begin
  <2> HIDE DEF c
  <2>4. call'[a] = c /\ call' \in [Actors -> Calls]
        /\ \A b \in Actors \ {a} : call'[b] = call[b]
    BY <2>2, <2>3, Updating
  <2>5. CallOK(a)'
    BY <2>2, <2>4 DEF CallOK, HoldsLock, KnowsItem, KnowsMoved, Locked, Renaming
  <2> QED
    BY <2>3, <2>4, <2>5 DEF Alone, Typed
<1>3. CASE AskRestore(a)
  <2>1. PICK id \in 1..lastId, p \in Paths :
          Begin(a, [NoCall EXCEPT !.pc = "enterRestore", !.opId = id, !.path = p])
    BY <1>3 DEF AskRestore
  <2> DEFINE c == [NoCall EXCEPT !.pc = "enterRestore", !.opId = id, !.path = p]
  <2>3. id \in Nat
    BY DEF Typed
  <2>2. c \in Calls /\ c.pc = "enterRestore"
    BY <2>3, NoCallTyped DEF Calls, Restoring
  <2> QED
    BY <1>1, <1>3, <2>1, <2>2 DEF AskRestore, Ready, At
<1>4. CASE AskRestoreAll(a)
  <2>1. PICK k \in DOMAIN journal :
          LET items   == journal[k].items
              pending == {p \in DOMAIN items : items[p].status # "restored"}
          IN  Begin(a, [NoCall EXCEPT !.pc = "preflight",
                                      !.opId = journal[k].id,
                                      !.todo = pending, !.rest = pending,
                                      !.store = journal])
    BY <1>4 DEF AskRestoreAll
  <2> DEFINE items   == journal[k].items
             pending == {p \in DOMAIN items : items[p].status # "restored"}
             c == [NoCall EXCEPT !.pc = "preflight", !.opId = journal[k].id,
                                 !.todo = pending, !.rest = pending,
                                 !.store = journal]
  <2>2. journal[k] \in Operations /\ journal \in Seq(Operations)
    BY DEF Typed
  <2>3. journal[k].id \in Nat /\ DOMAIN items \subseteq Paths
    BY <2>2 DEF Operations, Items
  <2>4. pending \in SUBSET Paths
    BY <2>3
  <2> HIDE DEF pending
  <2>5. c \in Calls /\ c.pc = "preflight"
    BY <2>2, <2>3, <2>4, NoCallTyped DEF Calls, Restoring
  <2>6. Begin(a, c)
    BY <2>1 DEF pending
  <2> HIDE DEF c
  <2> QED
    BY <1>1, <1>4, <2>5, <2>6 DEF AskRestoreAll, Ready, At
<1> QED
  BY <1>2, <1>3, <1>4 DEF Ask

\* The steps of to_trash.
LEMMA RemoveSteps ==
  ASSUME Typed, NEW a \in Actors, CallOK(a),
         \/ Move(a) \/ MoveFails(a) \/ Moved(a) \/ Locate(a) \/ Identify(a)
         \/ EnterAppend(a) \/ AppendOperation(a) \/ AppendFails(a)
  PROVE  Alone(a)
<1> DEFINE r == call[a]
<1>1. /\ r \in Calls /\ r.built \in Items /\ r.todo \subseteq Paths
      /\ r.seen \in [Paths -> Objects \cup {Nothing}]
  BY DEF Typed, Calls
<1>2. ASSUME NEW c \in Calls, call' = [call EXCEPT ![a] = c], lock' = lock,
             \/ c.pc = "move" /\ \A p \in DOMAIN c.built :
                  c.built[p].status = "trashed" => c.seen[p] \in Objects
             \/ c.pc = "locate" /\ \A p \in c.todo : c.seen[p] \in Objects
             \/ /\ c.pc = "identify" /\ c.path \in c.todo
                /\ \A p \in c.todo : c.seen[p] \in Objects
      PROVE  Alone(a)
  <2>1. /\ call' \in [Actors -> Calls] /\ call'[a] = c
        /\ \A b \in Actors \ {a} : call'[b] = call[b]
    BY <1>2, Updating
  <2>2. CallOK(a)'
    BY <1>2, <2>1 DEF CallOK, HoldsLock, KnowsItem, KnowsMoved, Locked, Renaming
  <2> QED
    BY <1>2, <2>1, <2>2 DEF Alone, Typed
<1>3. CASE Move(a)
  <2>0. PICK p \in r.todo :
          /\ IsObject(Home(p))
          /\ \E digest \in {Nothing, content[entry[Home(p)]]} :
               call' = [call EXCEPT
                          ![a].seen[p] = entry[Home(p)],
                          ![a].built = With(@, p, Trashed(Nothing, Nothing, digest)),
                          ![a].todo = @ \ {p}]
    BY <1>3 DEF Move
  <2>1. PICK digest \in {Nothing, content[entry[Home(p)]]} :
          call' = [call EXCEPT
                     ![a].seen[p] = entry[Home(p)],
                     ![a].built = With(@, p, Trashed(Nothing, Nothing, digest)),
                     ![a].todo = @ \ {p}]
    BY <2>0
  <2> DEFINE o    == entry[Home(p)]
             item == Trashed(Nothing, Nothing, digest)
             seen == [r.seen EXCEPT ![p] = o]
             c    == [r EXCEPT !.seen = seen, !.built = With(r.built, p, item),
                               !.todo = r.todo \ {p}]
  <2>2. p \in Paths /\ o \in Objects /\ digest \in Nat \cup {Nothing}
    BY <1>1, <2>0 DEF IsObject, Typed, DiskTyped
  <2>3. item \in ItemType /\ item.status = "trashed"
    BY <2>2, TrashedTyped
  <2>4. seen \in [Paths -> Objects \cup {Nothing}] /\ seen[p] \in Objects
        /\ \A q \in Paths \ {p} : seen[q] = r.seen[q]
    BY <1>1, <2>2
  <2>5. call' = [call EXCEPT ![a] = c]
    BY <2>1
  <2>6. r.pc = "move" /\ lock' = lock
    BY <1>3 DEF Move, At
  <2> HIDE DEF item, seen
  <2>7. /\ With(r.built, p, item) \in Items
        /\ \A q \in DOMAIN With(r.built, p, item) :
             /\ q \in Paths
             /\ q # p => /\ q \in DOMAIN r.built
                         /\ With(r.built, p, item)[q] = r.built[q]
    <3>1. DOMAIN r.built \subseteq Paths
      BY <1>1 DEF Items
    <3>2. /\ With(r.built, p, item) \in Items
          /\ DOMAIN With(r.built, p, item) = {p} \cup DOMAIN r.built
          /\ With(r.built, p, item)[p] = item
          /\ \A q \in DOMAIN r.built :
               q # p => With(r.built, p, item)[q] = r.built[q]
      <4> DEFINE items == r.built
      <4>1. items \in Items /\ p \in Paths /\ item \in ItemType
        BY <1>1, <2>2, <2>3
      <4> HIDE DEF items
      <4>2. With(items, p, item) \in Items
        BY <4>1, ItemAdded
      <4>3. DOMAIN With(items, p, item) = {p} \cup DOMAIN items
        BY <4>1, ItemAdded
      <4>4. With(items, p, item)[p] = item
        BY ZenonT(60), <4>1, ItemAdded
      <4>5. \A q \in DOMAIN items : q # p => With(items, p, item)[q] = items[q]
        BY ZenonT(60), <4>1, ItemAdded
      <4> QED
        BY <4>2, <4>3, <4>4, <4>5 DEF items
    <3> QED
      BY <2>2, <3>1, <3>2
  <2>8. c \in Calls /\ c.pc = "move" /\ c.seen = seen
        /\ c.built = With(r.built, p, item)
    BY <1>1, <2>4, <2>6, <2>7 DEF Calls
  <2>9. \A q \in DOMAIN r.built :
          r.built[q].status = "trashed" => r.seen[q] \in Objects
    BY <2>6 DEF CallOK, KnowsMoved
  <2> HIDE DEF c
  <2>10. \A q \in DOMAIN c.built :
           c.built[q].status = "trashed" => c.seen[q] \in Objects
    BY <2>4, <2>7, <2>8, <2>9
  <2> QED
    BY <1>2, <2>5, <2>6, <2>8, <2>10
<1>4. CASE MoveFails(a)
  <2> DEFINE item == [Trashed(Nothing, Nothing, Nothing) EXCEPT !.status = "failed"]
  <2>1. PICK p \in r.todo :
          call' = [call EXCEPT ![a].built = IF IsObject(Home(p))
                                              THEN With(@, p, item) ELSE @,
                               ![a].todo = @ \ {p}]
    BY <1>4 DEF MoveFails
  <2> DEFINE built == IF IsObject(Home(p)) THEN With(r.built, p, item) ELSE r.built
             c     == [r EXCEPT !.built = built, !.todo = r.todo \ {p}]
  <2>2. item \in ItemType /\ item.status # "trashed"
    BY TrashedTyped
  <2>3. call' = [call EXCEPT ![a] = c]
    BY <2>1
  <2>4. r.pc = "move" /\ lock' = lock
    BY <1>4 DEF MoveFails, At
  <2> HIDE DEF item
  <2>5. /\ built \in Items
        /\ \A q \in DOMAIN built :
             built[q].status = "trashed" =>
               q \in DOMAIN r.built /\ built[q] = r.built[q]
    <3>1. CASE IsObject(Home(p))
      <4>1. /\ With(r.built, p, item) \in Items
            /\ DOMAIN With(r.built, p, item) = {p} \cup DOMAIN r.built
            /\ With(r.built, p, item)[p] = item
            /\ \A q \in DOMAIN r.built :
                 q # p => With(r.built, p, item)[q] = r.built[q]
        <5> DEFINE items == r.built
        <5>1. items \in Items /\ p \in Paths /\ item \in ItemType
          BY <1>1, <2>2
        <5> HIDE DEF items
        <5>2. With(items, p, item) \in Items
          BY <5>1, ItemAdded
        <5>3. DOMAIN With(items, p, item) = {p} \cup DOMAIN items
          BY <5>1, ItemAdded
        <5>4. With(items, p, item)[p] = item
          BY <5>1, ItemAdded
        <5>5. \A q \in DOMAIN items : q # p => With(items, p, item)[q] = items[q]
          BY <5>1, ItemAdded
        <5> QED
          BY <5>2, <5>3, <5>4, <5>5 DEF items
      <4> QED
        BY <2>2, <3>1, <4>1
    <3>2. CASE ~IsObject(Home(p))
      BY <1>1, <3>2
    <3> QED
      BY <3>1, <3>2
  <2> HIDE DEF built
  <2>6. c \in Calls /\ c.pc = "move" /\ c.seen = r.seen /\ c.built = built
    BY <1>1, <2>4, <2>5 DEF Calls
  <2>7. \A q \in DOMAIN r.built :
          r.built[q].status = "trashed" => r.seen[q] \in Objects
    BY <2>4 DEF CallOK, KnowsMoved
  <2> HIDE DEF c
  <2> QED
    BY <1>2, <2>3, <2>4, <2>5, <2>6, <2>7
<1>5. CASE Moved(a)
  <2> DEFINE items == r.built
             moved == {p \in DOMAIN items : items[p].status = "trashed"}
             c     == [r EXCEPT !.pc = "locate", !.todo = moved]
  <2>1. CASE Leave(a)
    BY <2>1, Leaving DEF Alone, Typed
  <2>2. CASE /\ lock' = lock
             /\ call' = [call EXCEPT ![a].pc = "locate", ![a].todo = moved]
    <3>1. \A p \in moved : p \in Paths /\ r.seen[p] \in Objects
      <4>1. DOMAIN items \subseteq Paths
        BY <1>1 DEF Items
      <4> QED
        BY <1>5, <4>1 DEF Moved, At, CallOK, KnowsMoved
    <3>2. call' = [call EXCEPT ![a] = c]
      BY <2>2
    <3> HIDE DEF moved
    <3>3. c \in Calls /\ c.pc = "locate" /\ c.todo = moved /\ c.seen = r.seen
      BY <1>1, <3>1 DEF Calls, Removing
    <3> HIDE DEF c
    <3> QED
      BY <1>2, <2>2, <3>1, <3>2, <3>3
  <2> QED
    BY <1>5, <2>1, <2>2 DEF Moved
<1>6. CASE Locate(a)
  <2>1. /\ r.pc = "locate" /\ lock' = lock
        /\ \A p \in r.todo : r.seen[p] \in Objects
    BY <1>6 DEF Locate, At, CallOK, KnowsMoved
  <2>2. PICK p \in r.todo :
          \/ call' = [call EXCEPT ![a].todo = @ \ {p}]
          \/ \E n \in Names :
               call' = [call EXCEPT ![a].built[p].bin = n, ![a].path = p,
                                    ![a].pc = "identify"]
    BY <1>6 DEF Locate
  <2>3. CASE call' = [call EXCEPT ![a].todo = @ \ {p}]
    <3> DEFINE c == [r EXCEPT !.todo = r.todo \ {p}]
    <3>1. call' = [call EXCEPT ![a] = c]
      BY <2>3
    <3>2. /\ c \in Calls /\ c.pc = "locate" /\ c.seen = r.seen
          /\ c.todo \subseteq r.todo
      BY <1>1, <2>1 DEF Calls
    <3> HIDE DEF c
    <3> QED
      BY <1>2, <2>1, <3>1, <3>2
  <2>4. CASE \E n \in Names :
               call' = [call EXCEPT ![a].built[p].bin = n, ![a].path = p,
                                    ![a].pc = "identify"]
    <3>1. PICK n \in Names :
            call' = [call EXCEPT ![a].built[p].bin = n, ![a].path = p,
                                 ![a].pc = "identify"]
      BY <2>4
    <3> DEFINE built == [r.built EXCEPT ![p].bin = n]
               c     == [r EXCEPT !.built = built, !.path = p, !.pc = "identify"]
    <3>2. call' = [call EXCEPT ![a] = c]
      BY <3>1
    <3>3. built \in Items
      BY <1>1, ItemFields
    <3> HIDE DEF built
    <3>4. /\ c \in Calls /\ c.pc = "identify" /\ c.seen = r.seen
          /\ c.todo = r.todo /\ c.path = p
      BY <1>1, <3>3 DEF Calls, Removing
    <3> HIDE DEF c
    <3> QED
      BY <1>2, <2>1, <3>2, <3>4
  <2> QED
    BY <2>2, <2>3, <2>4
<1>7. CASE Identify(a)
  <2> DEFINE p     == r.path
             id    == IF Holds(InTrash(r.built[p].bin), r.seen[p])
                        THEN Id(r.seen[p]) ELSE Nothing
             built == [r.built EXCEPT ![p].id = id]
             c     == [r EXCEPT !.built = built, !.todo = r.todo \ {p},
                                !.pc = "locate"]
  <2>1. /\ r.pc = "identify" /\ lock' = lock
        /\ p \in r.todo /\ \A q \in r.todo : r.seen[q] \in Objects
    BY <1>7 DEF Identify, At, CallOK, KnowsMoved
  <2>2. call' = [call EXCEPT ![a] = c]
    BY <1>7 DEF Identify
  <2>3. id \in Identity \cup {Nothing}
    BY <2>1 DEF Id, Identity, Typed, DiskTyped
  <2> HIDE DEF id
  <2>4. built \in Items
    BY <1>1, <2>3, ItemFields
  <2> HIDE DEF built, p
  <2>5. /\ c \in Calls /\ c.pc = "locate" /\ c.seen = r.seen
        /\ c.todo \subseteq r.todo
    BY <1>1, <2>4 DEF Calls, Removing
  <2> HIDE DEF c
  <2> QED
    BY <1>2, <2>1, <2>2, <2>5
<1>8. CASE EnterAppend(a)
  <2>1. /\ call' \in [Actors -> Calls] /\ lock' = a /\ lock = Nobody
        /\ journal' = journal
        /\ \A b \in Actors \ {a} : call'[b] = call[b]
        /\ call'[a] = [r EXCEPT !.pc = "append", !.store = journal]
    BY <1>8, Entering DEF EnterAppend, Removing
  <2>2. call'[a].pc = "append" /\ call'[a].store = journal
    BY <1>1, <2>1 DEF Calls
  <2>3. CallOK(a)'
    BY <2>1, <2>2 DEF CallOK, HoldsLock, KnowsItem, KnowsMoved
  <2> QED
    BY <2>1, <2>3 DEF Alone
<1>9. CASE AppendOperation(a) \/ AppendFails(a)
  <2>1. Leave(a)
    BY <1>9 DEF AppendOperation, AppendFails
  <2> QED
    BY <2>1, Leaving DEF Alone, Typed
<1> QED
  BY <1>3, <1>4, <1>5, <1>6, <1>7, <1>8, <1>9

\* What a restore finds listed is an item with a name in the Trash.
LEMMA ListedItem ==
  ASSUME NEW ops \in Seq(Operations), NEW id, NEW p, Listed(ops, id, p)
  PROVE  /\ Place(ops, id) \in DOMAIN ops
         /\ ops[Place(ops, id)].id = id
         /\ p \in Paths /\ p \in DOMAIN ops[Place(ops, id)].items
         /\ Item(ops, id, p) \in ItemType
         /\ Item(ops, id, p).bin \in Names
<1> DEFINE k == Place(ops, id)
<1>1. k \in DOMAIN ops /\ ops[k].id = id
  BY DEF Listed, Known, Place
<1>2. ops[k].items \in Items
  <2>1. ops[k] \in Operations
    BY <1>1
  <2> QED
    BY <2>1 DEF Operations
<1>3. p \in DOMAIN ops[k].items /\ ops[k].items[p].bin # Nothing
  BY DEF Listed
<1>4. p \in Paths /\ ops[k].items[p] \in ItemType
  BY <1>2, <1>3 DEF Items
<1>5. ops[k].items[p].bin \in Names
  BY <1>3, <1>4 DEF ItemType
<1> QED
  BY <1>1, <1>3, <1>4, <1>5 DEF Item

\* The next item of the operation, or none.
LEMMA NextItemStep ==
  ASSUME Typed, NEW a \in Actors, NextItem(a)
  PROVE  Alone(a)
<1>1. CASE Leave(a)
  BY <1>1, Leaving DEF Alone, Typed
<1>2. CASE /\ lock' = IF lock = a THEN Nobody ELSE lock
           /\ \E p \in call[a].rest :
                call' = [call EXCEPT ![a] =
                           [NoCall EXCEPT !.pc = "enterRestore", !.path = p,
                                          !.opId = call[a].opId,
                                          !.rest = call[a].rest \ {p}]]
  <2>1. PICK p \in call[a].rest :
          call' = [call EXCEPT ![a] =
                     [NoCall EXCEPT !.pc = "enterRestore", !.path = p,
                                    !.opId = call[a].opId,
                                    !.rest = call[a].rest \ {p}]]
    BY <1>2
  <2> DEFINE c == [NoCall EXCEPT !.pc = "enterRestore", !.path = p,
                                 !.opId = call[a].opId,
                                 !.rest = call[a].rest \ {p}]
  <2>2. call[a].opId \in Nat /\ call[a].rest \in SUBSET Paths
    BY DEF Typed, Calls
  <2>3. c \in Calls /\ c.pc = "enterRestore"
    BY <2>2, NoCallTyped DEF Calls, Restoring
  <2>4. call' = [call EXCEPT ![a] = c]
    BY <2>1
  <2> HIDE DEF c
  <2>5. /\ call' \in [Actors -> Calls] /\ call'[a] = c
        /\ \A b \in Actors \ {a} : call'[b] = call[b]
    BY <2>3, <2>4, Updating
  <2>6. CallOK(a)'
    BY <2>3, <2>5, FreeCall
  <2> QED
    BY <1>2, <2>5, <2>6 DEF Alone, Typed
<1> QED
  BY <1>1, <1>2 DEF NextItem

\* The steps of a restore on either side of the critical section.
LEMMA OuterSteps ==
  ASSUME Typed, NEW a \in Actors, CallOK(a),
         \/ Preflight(a) \/ PreflightDone(a) \/ Unlisted(a) \/ EnterRestore(a)
         \/ WriteRestored(a)
  PROVE  Alone(a)
<1> DEFINE r == call[a]
<1>1. r \in Calls /\ r.todo \in SUBSET Paths
  BY DEF Typed, Calls
<1>2. CASE Leave(a)
  BY <1>2, Leaving DEF Alone, Typed
<1>3. CASE NextItem(a)
  BY <1>3, NextItemStep
<1>4. CASE Preflight(a) /\ ~Leave(a)
  <2>1. PICK p \in r.todo :
          call' = [call EXCEPT ![a].todo = @ \ {p}] /\ lock' = lock
    BY <1>4 DEF Preflight
  <2> DEFINE c == [r EXCEPT !.todo = r.todo \ {p}]
  <2>2. c \in Calls /\ c.pc = "preflight"
    BY <1>1, <1>4 DEF Calls, Preflight, At
  <2>3. call' = [call EXCEPT ![a] = c]
    BY <2>1
  <2> HIDE DEF c
  <2>4. /\ call' \in [Actors -> Calls] /\ call'[a] = c
        /\ \A b \in Actors \ {a} : call'[b] = call[b]
    BY <2>2, <2>3, Updating
  <2>5. CallOK(a)'
    BY <2>2, <2>4, FreeCall
  <2> QED
    BY <2>1, <2>4, <2>5 DEF Alone, Typed
<1>5. CASE EnterRestore(a)
  <2>1. /\ call' \in [Actors -> Calls] /\ lock' = a /\ lock = Nobody
        /\ journal' = journal
        /\ \A b \in Actors \ {a} : call'[b] = call[b]
        /\ call'[a] = [r EXCEPT !.pc = "pin", !.store = journal]
    BY <1>5, Entering DEF EnterRestore, Restoring
  <2>2. /\ call'[a].pc = "pin" /\ call'[a].store = journal
        /\ call'[a].opId = r.opId /\ call'[a].path = r.path
    BY <1>1, <2>1 DEF Calls
  <2>3. Listed(journal, r.opId, r.path)
    BY <1>5 DEF EnterRestore
  <2>4. CallOK(a)'
    BY <2>1, <2>2, <2>3 DEF CallOK, HoldsLock, KnowsItem, KnowsMoved
  <2> QED
    BY <2>1, <2>4 DEF Alone
<1> QED
  BY <1>2, <1>3, <1>4, <1>5 DEF Preflight, PreflightDone, Unlisted, WriteRestored

\* The steps of a restore inside it.
LEMMA InnerSteps ==
  ASSUME Typed, NEW a \in Actors, CallOK(a),
         \/ Pin(a) \/ ReadDigest(a) \/ ChooseName(a) \/ Recheck(a)
         \/ RenameExclusive(a) \/ Reserve(a) \/ CheckReserved(a) \/ Replace(a)
         \/ CheckParents(a) \/ WriteFails(a)
  PROVE  Alone(a)
<1> DEFINE r == call[a]
           Late == Locked \ {"append", "pin"}
<1>1. /\ r \in Calls /\ r.store \in Seq(Operations)
      /\ r.from \in Spots \cup {Nothing} /\ r.to \in Spots \cup {Nothing}
      /\ r.expect \in Identity \cup {Nothing}
  BY DEF Typed, Calls
<1>2. /\ r.pc \in Locked /\ r.pc \in Locked \ {"append"}
      /\ r.pc # "pin" => r.pc \in Late
      /\ journal' = journal
  BY DEF Pin, ReadDigest, ChooseName, Recheck, RenameExclusive, Reserve,
         CheckReserved, Replace, CheckParents, WriteFails, At, Locked, Renaming
<1>3. /\ lock = a /\ r.store = journal /\ Listed(r.store, r.opId, r.path)
      /\ r.pc # "pin" => HasProof(Current(a)) /\ r.from \in Spots /\ r.to \in Spots
  BY <1>2 DEF CallOK, HoldsLock, KnowsItem
<1>4. r.path \in Paths /\ Current(a) \in ItemType /\ Current(a).bin \in Names
  BY <1>1, <1>3, ListedItem DEF Current
<1>5. CASE Leave(a)
  BY <1>5, Leaving DEF Alone, Typed
<1>6. ASSUME NEW c \in Calls, call' = [call EXCEPT ![a] = c], lock' = lock,
             c.pc \in Late, HasProof(Current(a)),
             c.store = r.store, c.opId = r.opId, c.path = r.path,
             c.from \in Spots, c.to \in Spots
      PROVE  Alone(a)
  <2>1. /\ call' \in [Actors -> Calls] /\ call'[a] = c
        /\ \A b \in Actors \ {a} : call'[b] = call[b]
    BY <1>6, Updating
  <2>2. HoldsLock(a)'
    BY <1>2, <1>3, <1>6, <2>1 DEF HoldsLock
  <2>3. KnowsItem(a)'
    BY <1>3, <1>6, <2>1 DEF KnowsItem, Current
  <2>4. KnowsMoved(a)'
    BY <1>6, <2>1 DEF KnowsMoved, Locked, Renaming
  <2> QED
    BY <1>6, <2>1, <2>2, <2>3, <2>4 DEF Alone, CallOK, Typed
<1>7. ASSUME NEW label \in Late, Go(a, label), r.pc # "pin"
      PROVE  Alone(a)
  <2> DEFINE c == [r EXCEPT !.pc = label]
  <2>1. /\ c \in Calls /\ c.pc = label /\ c.store = r.store /\ c.opId = r.opId
        /\ c.path = r.path /\ c.from = r.from /\ c.to = r.to
    BY <1>1 DEF Calls, Locked, Restoring, Removing, Renaming
  <2>2. call' = [call EXCEPT ![a] = c] /\ lock' = lock
    BY <1>7 DEF Go
  <2> HIDE DEF c
  <2> QED
    BY <1>3, <1>6, <1>7, <2>1, <2>2
<1>8. ASSUME Undo(a), r.pc # "pin"
      PROVE  Alone(a)
  <2> DEFINE c == [r EXCEPT !.from = r.to, !.to = r.from, !.back = TRUE,
                            !.pc = "rename"]
  <2>1. /\ c \in Calls /\ c.pc = "rename" /\ c.store = r.store
        /\ c.opId = r.opId /\ c.path = r.path /\ c.from = r.to /\ c.to = r.from
    BY <1>1 DEF Calls, Restoring, Renaming
  <2>2. call' = [call EXCEPT ![a] = c] /\ lock' = lock
    BY <1>8 DEF Undo
  <2>3. c.pc \in Late
    BY <2>1 DEF Locked, Renaming
  <2> HIDE DEF c
  <2> QED
    BY <1>3, <1>6, <1>8, <2>1, <2>2, <2>3
<1>9. CASE Pin(a) /\ ~Leave(a)
  <2> DEFINE item == Current(a)
             src  == InTrash(item.bin)
             dst  == Home(r.path)
             next == IF item.digest # Nothing THEN "read" ELSE "choose"
             c    == [r EXCEPT !.from = src, !.to = dst,
                               !.expect = Id(entry[src]), !.pc = next]
  <2>1. /\ IsObject(src) /\ HasProof(item) /\ lock' = lock
        /\ call' = [call EXCEPT ![a].from = src, ![a].to = dst,
                                ![a].expect = Id(entry[src]), ![a].pc = next]
    BY <1>9 DEF Pin
  <2>2. src \in Spots /\ dst \in Spots
    BY <1>4, HistoryAssumption
       DEF InTrash, Home, Spots, Names, Typed, DiskTyped
  <2>3. Id(entry[src]) \in Identity
    BY <2>1 DEF IsObject, Id, Identity, Typed, DiskTyped
  <2>4. next \in {"read", "choose"}
    OBVIOUS
  <2>5. call' = [call EXCEPT ![a] = c]
    BY <2>1
  <2> HIDE DEF item, src, dst, next
  <2>6. /\ c \in Calls /\ c.pc = next /\ c.store = r.store /\ c.opId = r.opId
        /\ c.path = r.path /\ c.from = src /\ c.to = dst
    BY <1>1, <2>2, <2>3, <2>4 DEF Calls, Restoring
  <2>7. c.pc \in Late
    BY <2>4, <2>6 DEF Locked
  <2>8. HasProof(Current(a))
    BY <2>1 DEF item
  <2> HIDE DEF c
  <2> QED
    BY <1>6, <2>1, <2>2, <2>5, <2>6, <2>7, <2>8
<1>10. CASE ReadDigest(a) /\ ~Leave(a)
  <2> DEFINE id == Id(entry[r.from])
             c  == [r EXCEPT !.expect = id, !.pc = "choose"]
  <2>1. /\ IsObject(r.from) /\ lock' = lock /\ r.pc # "pin"
        /\ call' = [call EXCEPT ![a].expect = id, ![a].pc = "choose"]
    BY <1>10 DEF ReadDigest, At
  <2>2. id \in Identity
    BY <2>1 DEF IsObject, Id, Identity, Typed, DiskTyped
  <2>3. call' = [call EXCEPT ![a] = c]
    BY <2>1
  <2> HIDE DEF id
  <2>4. /\ c \in Calls /\ c.pc = "choose" /\ c.store = r.store /\ c.opId = r.opId
        /\ c.path = r.path /\ c.from = r.from /\ c.to = r.to
    BY <1>1, <2>2 DEF Calls, Restoring
  <2>5. c.pc \in Late
    BY <2>4 DEF Locked
  <2> HIDE DEF c
  <2> QED
    BY <1>3, <1>6, <2>1, <2>3, <2>4, <2>5
<1>11. CASE ChooseName(a) /\ ~Leave(a)
  <2> DEFINE spot(k) == <<r.to[1], <<r.path, k>>>>
             free    == {k \in Numbers : Holds(spot(k), Nothing)}
             dst     == spot(Min(free))
             c       == [r EXCEPT !.to = dst, !.pc = "recheck"]
  <2>1. /\ free # {} /\ lock' = lock /\ r.pc # "pin"
        /\ call' = [call EXCEPT ![a].to = dst, ![a].pc = "recheck"]
    BY <1>11 DEF ChooseName, At
  <2>2. free \in SUBSET Nat /\ free \subseteq Numbers
    BY HistoryAssumption
  <2> HIDE DEF free
  <2>3. Min(free) \in Numbers
    BY <2>1, <2>2, LeastMember
  <2>4. dst \in Spots
    BY <1>3, <1>4, <2>1, <2>3 DEF Spots, Names
  <2>5. call' = [call EXCEPT ![a] = c]
    BY <2>1
  <2> HIDE DEF dst
  <2>6. /\ c \in Calls /\ c.pc = "recheck" /\ c.store = r.store /\ c.opId = r.opId
        /\ c.path = r.path /\ c.from = r.from /\ c.to = dst
    BY <1>1, <2>4 DEF Calls, Restoring
  <2>7. c.pc \in Late
    BY <2>6 DEF Locked
  <2> HIDE DEF c
  <2> QED
    BY <1>3, <1>6, <2>1, <2>4, <2>5, <2>6, <2>7
<1>12. {"rename", "reserved", "replace", "parents", "write"} \subseteq Late
  BY DEF Locked, Renaming
<1>13. CASE Recheck(a) \/ CheckParents(a) \/ WriteFails(a)
  <2>1. /\ Go(a, "rename") \/ Go(a, "write") \/ Leave(a) \/ Undo(a)
        /\ r.pc # "pin"
    BY <1>13 DEF Recheck, CheckParents, WriteFails, At
  <2> QED
    BY <1>5, <1>7, <1>8, <1>12, <2>1
<1>14. CASE RenameExclusive(a) \/ Reserve(a) \/ CheckReserved(a) \/ Replace(a)
  <2>1. /\ \/ Go(a, "parents") \/ Go(a, "reserved") \/ Go(a, "replace")
           \/ Leave(a)
        /\ r.pc # "pin"
    BY <1>14 DEF RenameExclusive, Reserve, CheckReserved, Replace, Publish, At
  <2> QED
    BY <1>5, <1>7, <1>12, <2>1
<1> QED
  BY <1>5, <1>9, <1>10, <1>11, <1>13, <1>14

-----------------------------------------------------------------------------
(* The disk *)

\* A rename moves what is at a spot, if anything.
LEMMA RenameTyped ==
  ASSUME DiskTyped, NEW src \in Spots, NEW dst, Rename(src, dst)
  PROVE  DiskTyped'
<1>1. entry' \in [Spots -> Objects \cup {Nothing, Stub}]
  BY DEF Rename, DiskTyped
<1>2. stamp' \in [Objects -> Nat]
  <2> DEFINE o == entry[src]
  <2>1. stamp \in [Objects -> Nat]
    BY DEF DiskTyped
  <2>2. stamp' = [stamp EXCEPT ![o] = stamp[o] + 1] \/ stamp' = stamp
    BY DEF Rename
  <2> HIDE DEF o
  <2>3. CASE o \in Objects
    BY <2>1, <2>2, <2>3
  <2>4. CASE o \notin Objects
    BY <2>1, <2>2, <2>4
  <2> QED
    BY <2>3, <2>4
<1> QED
  BY <1>1, <1>2 DEF Rename, DiskTyped

\* An unlink empties a spot.
LEMMA UnlinkTyped ==
  ASSUME DiskTyped, NEW spot, Unlink(spot)
  PROVE  DiskTyped'
<1>1. entry' \in [Spots -> Objects \cup {Nothing, Stub}]
  BY DEF Unlink, DiskTyped
<1> QED
  BY <1>1 DEF Unlink, DiskTyped

\* The program leaves the disk typed.
LEMMA WorkDisk ==
  ASSUME Typed, NEW a \in Actors, CallOK(a), Work(a)
  PROVE  DiskTyped'
<1>1. CASE UNCHANGED disk
  BY <1>1 DEF disk, Typed, DiskTyped
<1>2. CASE Move(a)
  <2>1. PICK p \in call[a].todo, k \in Numbers : Rename(Home(p), InTrash(<<p, k>>))
    BY <1>2 DEF Move
  <2>2. p \in Paths
    BY DEF Typed, Calls
  <2>3. Home(p) \in Spots
    BY <2>2, HistoryAssumption DEF Home, Spots, Names, Typed, DiskTyped
  <2> QED
    BY <2>1, <2>3, RenameTyped DEF Typed
<1>3. CASE \/ RenameExclusive(a) \/ Reserve(a) \/ CheckReserved(a) \/ Replace(a)
  <2>1. call[a].from \in Spots /\ call[a].to \in Spots
    BY <1>3 DEF CallOK, KnowsItem, Locked, Renaming, At,
                RenameExclusive, Reserve, CheckReserved, Replace
  <2>2. CASE Rename(call[a].from, call[a].to)
    BY <2>1, <2>2, RenameTyped DEF Typed
  <2>3. CASE Unlink(call[a].to)
    BY <2>3, UnlinkTyped DEF Typed
  <2>4. CASE /\ entry' = [entry EXCEPT ![call[a].to] = Stub]
             /\ UNCHANGED <<dirAt, stamp, content, rename>>
    <3>1. entry' \in [Spots -> Objects \cup {Nothing, Stub}]
      BY <2>4 DEF Typed, DiskTyped
    <3> QED
      BY <2>4, <3>1 DEF Typed, DiskTyped
  <2> QED
    BY <1>1, <1>3, <2>2, <2>3, <2>4
       DEF RenameExclusive, Reserve, CheckReserved, Replace, Publish, disk
<1> QED
  BY <1>1, <1>2, <1>3
     DEF Work, MoveFails, Moved, Locate, Identify, EnterAppend, AppendOperation,
         AppendFails, Preflight, PreflightDone, Unlisted, EnterRestore, Pin,
         ReadDigest, ChooseName, Recheck, CheckParents, WriteRestored, WriteFails

\* So does the rest of the machine.
LEMMA MeddleDisk ==
  ASSUME Typed, Meddle
  PROVE  DiskTyped'
<1>1. CASE Appear
  <2>1. PICK o \in Objects, s \in Spots :
          /\ entry' = [entry EXCEPT ![s] = o]
          /\ stamp' = [stamp EXCEPT ![o] = @ + 1]
          /\ content' = [content EXCEPT ![o] = @ + 1]
          /\ UNCHANGED <<dirAt, rename>>
    BY <1>1 DEF Appear
  <2>2. entry' \in [Spots -> Objects \cup {Nothing, Stub}]
    BY <2>1 DEF Typed, DiskTyped
  <2>3. stamp' \in [Objects -> Nat] /\ content' \in [Objects -> Nat]
    BY <2>1 DEF Typed, DiskTyped
  <2> QED
    BY <2>1, <2>2, <2>3 DEF Typed, DiskTyped
<1>2. CASE Vanish
  BY <1>2, UnlinkTyped DEF Vanish, Typed
<1>3. CASE Shift
  BY <1>3, RenameTyped DEF Shift, Typed
<1>4. CASE Edit
  <2>1. PICK o \in Objects :
          /\ stamp' = [stamp EXCEPT ![o] = @ + 1]
          /\ content' = [content EXCEPT ![o] = @ + 1]
          /\ UNCHANGED <<entry, dirAt, rename>>
    BY <1>4 DEF Edit
  <2>2. stamp' \in [Objects -> Nat] /\ content' \in [Objects -> Nat]
    BY <2>1 DEF Typed, DiskTyped
  <2> QED
    BY <2>1, <2>2 DEF Typed, DiskTyped
<1>5. CASE SwapDirectory
  <2>1. PICK f \in {"home", "trash"}, d \in Dirs :
          /\ dirAt' = [dirAt EXCEPT ![f] = d]
          /\ UNCHANGED <<entry, stamp, content, rename>>
    BY <1>5 DEF SwapDirectory
  <2>2. dirAt' \in [{"home", "trash"} -> Dirs]
    BY <2>1 DEF Typed, DiskTyped
  <2> QED
    BY <2>1, <2>2 DEF Typed, DiskTyped
<1> QED
  BY <1>1, <1>2, <1>3, <1>4, <1>5 DEF Meddle

-----------------------------------------------------------------------------
(* The journal *)

\* What a step does to the journal, when it changes it.
Updates == /\ journal' \in Seq(Operations)
           /\ ValidStore(journal')
           /\ Numbered'
           /\ Ledger!Next

\* append_operation is one Add of the ledger, made under the lock.
LEMMA AppendUpdates ==
  ASSUME Typed, ValidStore(journal), Numbered,
         NEW a \in Actors, CallOK(a), AppendOperation(a)
  PROVE  lock = a /\ Updates
<1> DEFINE op  == Operation(lastId + 1, call[a].built)
           new == Append(journal, op)
<1>1. lock = a /\ call[a].store = journal
  BY DEF AppendOperation, At, CallOK, HoldsLock, Locked
<1>2. /\ journal' = Bound(new) /\ Storable(new) /\ lastId' = lastId + 1
  BY <1>1 DEF AppendOperation, Appended
<1>3. lastId + 1 \in Nat /\ call[a].built \in Items
  BY DEF Typed, Calls
<1>4. op \in Operations /\ op.id = lastId + 1 /\ op.status # "restored"
  BY <1>3, OperationTyped
<1> HIDE DEF op
<1>5. journal \in Seq(Operations) /\ Sound(journal) /\ lastId \in Nat
  BY DEF Typed, ValidStore, Sound
<1>6. \A k \in DOMAIN journal : journal[k].id \in Nat /\ journal[k].id <= lastId
  <2> TAKE k \in DOMAIN journal
  <2>1. journal[k] \in Operations
    BY <1>5
  <2> QED
    BY <2>1 DEF Numbered, Operations
<1>7. \A k \in DOMAIN journal : journal[k].id # op.id
  BY <1>4, <1>5, <1>6
<1>8. /\ new \in Seq(Operations) /\ new # <<>>
      /\ new[Len(new)] = op /\ Sound(new)
  BY <1>4, <1>5, <1>7, AppendSound
<1>9. \A k \in DOMAIN new : new[k].id <= lastId + 1
  <2>1. /\ Len(new) = Len(journal) + 1
        /\ \A k \in 1..Len(journal) : new[k] = journal[k]
        /\ new[Len(journal) + 1] = op
    BY <1>4, <1>5, AppendProperties
  <2>2. DOMAIN new = 1..Len(journal) \cup {Len(journal) + 1}
        /\ DOMAIN journal = 1..Len(journal)
    BY <1>5, <1>8, <2>1
  <2> QED
    BY <1>4, <1>5, <1>6, <2>1, <2>2
<1> HIDE DEF new
<1>10. /\ journal' \in Seq(Operations) /\ ValidStore(journal')
       /\ journal' # <<>> /\ journal'[Len(journal')] = op
       /\ \A j \in DOMAIN journal' : \E k \in DOMAIN new : journal'[j] = new[k]
  BY <1>2, <1>8, BoundKeeps
<1>11. Numbered'
  BY <1>2, <1>9, <1>10 DEF Numbered
<1>12. Ledger!Last(journal') = op
  BY <1>10, LedgerItem
<1>13. ~ Ledger!Known(journal, op.id)
  BY <1>7, LedgerItem DEF Known
<1>14. Ledger!Add
  BY <1>2, <1>10, <1>12, <1>13, LedgerBound DEF Ledger!Add, new
<1> QED
  BY <1>1, <1>10, <1>11, <1>14 DEF Updates, Ledger!Next

\* The end of restore_item is one Restore of the ledger.
LEMMA RestoreUpdates ==
  ASSUME Typed, ValidStore(journal), Numbered,
         NEW a \in Actors, CallOK(a), WriteRestored(a)
  PROVE  lock = a /\ Updates
<1> DEFINE id  == call[a].opId
           p   == call[a].path
           k   == Place(journal, id)
           new == MarkRestored(journal, id, p)
<1>1. /\ lock = a /\ call[a].store = journal
      /\ Listed(journal, id, p) /\ HasProof(Item(journal, id, p))
  BY DEF WriteRestored, At, CallOK, HoldsLock, KnowsItem, Current, Locked
<1>2. journal' = Bound(new) /\ Storable(new) /\ lastId' = lastId
  BY <1>1 DEF WriteRestored, Marked
<1>3. journal \in Seq(Operations) /\ Sound(journal)
  BY DEF Typed, ValidStore, Sound
<1>4. /\ k \in DOMAIN journal /\ journal[k].id = id
      /\ p \in DOMAIN journal[k].items
  BY <1>1, <1>3, ListedItem
<1>5. HasProof(journal[k].items[p])
  BY <1>1 DEF Item
<1> HIDE DEF id, p, k
<1>6. /\ new \in Seq(Operations) /\ new # <<>> /\ Sound(new)
      /\ DOMAIN new = DOMAIN journal
      /\ \A j \in DOMAIN journal : new[j].id = journal[j].id
  BY <1>1, <1>3, MarkSound
<1> HIDE DEF new
<1>7. /\ journal' \in Seq(Operations) /\ ValidStore(journal')
      /\ \A j \in DOMAIN journal' : \E i \in DOMAIN new : journal'[j] = new[i]
  BY <1>2, <1>6, BoundKeeps
<1>8. Numbered'
  BY <1>2, <1>6, <1>7 DEF Numbered
<1>9. /\ Ledger!Listed(journal, journal[k].id, p)
      /\ Ledger!HasProof(journal[k].items[p])
  BY <1>1, <1>4, <1>5, LedgerItem
<1>10. /\ Ledger!Storable(Ledger!MarkRestored(journal, journal[k].id, p))
       /\ journal' = Ledger!Bound(Ledger!MarkRestored(journal, journal[k].id, p))
  BY <1>2, <1>4, LedgerItem, LedgerBound DEF new
<1>11. Ledger!Restore
  BY <1>4, <1>9, <1>10 DEF Ledger!Restore
<1> QED
  BY <1>1, <1>7, <1>8, <1>11 DEF Updates, Ledger!Next

-----------------------------------------------------------------------------
(* All steps *)

\* No other step touches the journal.
LEMMA JournalKept ==
  ASSUME NEW a \in Actors,
         \/ Ask(a) \/ Crash(a) \/ Meddle
         \/ Work(a) /\ ~ AppendOperation(a) /\ ~ WriteRestored(a)
  PROVE  journal' = journal /\ lastId' = lastId
  BY DEF Ask, AskRemove, AskRestore, AskRestoreAll, Begin, Crash, Meddle, Work,
         Move, MoveFails, Moved, Locate, Identify, EnterAppend, AppendFails,
         Preflight, PreflightDone, Unlisted, EnterRestore, Pin, ReadDigest,
         ChooseName, Recheck, RenameExclusive, Reserve, CheckReserved, Replace,
         CheckParents, WriteFails

\* The bounds on requests and meddling are counted elsewhere.
LEMMA CountersKept ==
  ASSUME NEW a \in Actors, Work(a) \/ Crash(a)
  PROVE  requests' = requests /\ meddles' = meddles
  BY DEF limits, Crash, Work, AppendOperation, WriteRestored,
         Move, MoveFails, Moved, Locate, Identify, EnterAppend, AppendFails,
         Preflight, PreflightDone, Unlisted, EnterRestore, Pin, ReadDigest,
         ChooseName, Recheck, RenameExclusive, Reserve, CheckReserved, Replace,
         CheckParents, WriteFails

\* A new journal, or one that a call has left.
LEMMA InitOK == Init => Typed /\ IInv
<1> SUFFICES ASSUME Init PROVE Typed /\ IInv
  OBVIOUS
<1> USE HistoryAssumption, JournalAssumption
<1>0. PICK at \in [Paths -> Objects \cup {Nothing}], digest \in {Nothing, 0} :
        \E gone \in {{}, {p \in Paths : at[p] # Nothing}} :
          /\ entry = [s \in Spots |->
                        LET p == s[2][1]
                        IN  IF s[2][2] = 0 /\ s[1] = (IF p \in gone THEN 2 ELSE 1)
                              THEN at[p] ELSE Nothing]
          /\ journal = IF gone = {} THEN <<>> ELSE
                         <<Operation(1, [p \in gone |->
                                           Trashed(<<p, 0>>, Id(at[p]), digest)])>>
          /\ WeightOf(journal) <= MaxWeight
  BY ZenonT(60) DEF Init
<1>1. PICK gone \in {{}, {p \in Paths : at[p] # Nothing}} :
        /\ entry = [s \in Spots |->
                      LET p == s[2][1]
                      IN  IF s[2][2] = 0 /\ s[1] = (IF p \in gone THEN 2 ELSE 1)
                            THEN at[p] ELSE Nothing]
        /\ journal = IF gone = {} THEN <<>> ELSE
                       <<Operation(1, [p \in gone |->
                                         Trashed(<<p, 0>>, Id(at[p]), digest)])>>
        /\ WeightOf(journal) <= MaxWeight
  BY <1>0
<1>2. lastId = Len(journal)
  BY DEF Init
<1>3. DiskTyped
  <2>1. \A s \in Spots : s[2][1] \in Paths
    BY DEF Spots, Names
  <2>2. entry \in [Spots -> Objects \cup {Nothing, Stub}]
    BY <1>1, <2>1
  <2> QED
    BY <2>2 DEF Init, DiskTyped
<1>4. /\ journal \in Seq(Operations) /\ ValidStore(journal)
      /\ Numbered /\ lastId \in Nat
  <2>1. CASE gone = {}
    <3>1. journal = <<>> /\ lastId = 0
      BY <1>1, <1>2, <2>1
    <3> QED
      BY <1>1, <3>1 DEF ValidStore, Fits, Numbered
  <2>2. CASE gone # {}
    <3> DEFINE items == [p \in gone |-> Trashed(<<p, 0>>, Id(at[p]), digest)]
               op    == Operation(1, items)
    <3>1. \A p \in gone : p \in Paths /\ at[p] \in Objects
      BY <1>1, <2>2
    <3>2. \A p \in gone : Trashed(<<p, 0>>, Id(at[p]), digest) \in ItemType
      BY <1>3, <3>1 DEF Trashed, ItemType, Names, Id, Identity, DiskTyped
    <3>3. items \in [gone -> ItemType] /\ gone \in SUBSET Paths
      BY <3>1, <3>2
    <3>4. items \in Items
      BY <3>3 DEF Items
    <3>5. journal = <<op>>
      BY <1>1, <2>2
    <3> HIDE DEF items
    <3>6. op \in Operations /\ op.id = 1 /\ op.status # "restored"
      BY <3>4, OperationTyped
    <3> HIDE DEF op
    <3>7. /\ journal \in Seq(Operations) /\ Len(journal) = 1
          /\ DOMAIN journal = {1} /\ journal[1] = op
      BY <3>5, <3>6
    <3>8. Fits(journal)
      BY <1>1, <3>7 DEF Fits
    <3> QED
      BY <1>2, <3>6, <3>7, <3>8 DEF ValidStore, Numbered
  <2> QED
    BY <2>1, <2>2
<1>5. call \in [Actors -> Calls] /\ \A a \in Actors : call[a] = NoCall
  BY NoCallTyped DEF Init
<1>6. \A a \in Actors : CallOK(a)
  BY <1>5, NoCallTyped DEF CallOK, HoldsLock, KnowsItem, KnowsMoved, Locked, Renaming
<1>7. lock = Nobody /\ requests \in 0..MaxRequests /\ meddles \in 0..MaxMeddles
  BY DEF Init
<1> QED
  BY <1>3, <1>4, <1>5, <1>6, <1>7 DEF Typed, IInv

\* A step of an actor
LEMMA ActorStep ==
  ASSUME Typed, IInv, NEW a \in Actors, Ask(a) \/ Work(a) \/ Crash(a)
  PROVE  /\ Typed' /\ IInv'
         /\ [Ledger!Next]_journal
<1>1. CallOK(a)
  BY DEF IInv
<1>2. Alone(a)
  <2>1. CASE Ask(a)
    BY <2>1, AskSteps
  <2>2. CASE Crash(a)
    <3>1. Leave(a)
      BY <2>2 DEF Crash
    <3> QED
      BY <3>1, Leaving DEF Alone, Typed
  <2>3. CASE Work(a)
    BY <1>1, <2>3, RemoveSteps, OuterSteps, InnerSteps DEF Work
  <2> QED
    BY <2>1, <2>2, <2>3
<1>3. \/ journal' = journal /\ lastId' = lastId
      \/ /\ lock = a /\ Updates
         /\ lastId' \in Nat
  <2>1. CASE AppendOperation(a)
    BY <1>1, <2>1, AppendUpdates DEF AppendOperation, Typed, IInv
  <2>2. CASE WriteRestored(a)
    BY <1>1, <2>2, RestoreUpdates DEF WriteRestored, Typed, IInv
  <2>3. CASE ~ AppendOperation(a) /\ ~ WriteRestored(a)
    BY <2>3, JournalKept
  <2> QED
    BY <2>1, <2>2, <2>3
<1>4. /\ journal' \in Seq(Operations) /\ ValidStore(journal') /\ Numbered'
      /\ lastId' \in Nat
      /\ [Ledger!Next]_journal
  <2>1. CASE journal' = journal /\ lastId' = lastId
    BY <2>1 DEF Typed, IInv, Numbered
  <2>2. CASE Updates /\ lastId' \in Nat
    BY <2>2 DEF Updates
  <2> QED
    BY <1>3, <2>1, <2>2
<1>5. \A b \in Actors : CallOK(b)'
  <2>1. \A b \in Actors \ {a} : CallOK(b)'
    BY <1>2, <1>3, OthersKept DEF Alone, IInv
  <2> QED
    BY <1>2, <2>1 DEF Alone
<1>6. DiskTyped'
  <2>1. CASE Work(a)
    BY <1>1, <2>1, WorkDisk
  <2>2. CASE Ask(a) \/ Crash(a)
    BY <2>2 DEF Ask, AskRemove, AskRestore, AskRestoreAll, Begin, Crash, disk,
                Typed, DiskTyped
  <2> QED
    BY <2>1, <2>2
<1>7. requests' \in 0..MaxRequests /\ meddles' \in 0..MaxMeddles
  <2>1. CASE Work(a) \/ Crash(a)
    BY <2>1, CountersKept DEF Typed
  <2>2. CASE Ask(a)
    <3>1. /\ requests < MaxRequests /\ requests' = requests + 1
          /\ meddles' = meddles
      BY <2>2 DEF Ask, AskRemove, AskRestore, AskRestoreAll, Begin, Ready
    <3> QED
      BY <3>1, HistoryAssumption DEF Typed
  <2> QED
    BY <2>1, <2>2
<1>8. call' \in [Actors -> Calls] /\ lock' \in Actors \cup {Nobody}
  BY <1>2 DEF Alone
<1>9. Typed'
  BY <1>4, <1>6, <1>7, <1>8 DEF Typed
<1>10. IInv'
  BY <1>4, <1>5 DEF IInv
<1> QED
  BY <1>4, <1>9, <1>10

\* A step of the rest of the machine
LEMMA MeddleStep ==
  ASSUME Typed, IInv, Meddle
  PROVE  Typed' /\ IInv' /\ journal' = journal
<1>1. /\ UNCHANGED <<requests, journal, lock, lastId, call>>
      /\ meddles' \in 0..MaxMeddles
  BY HistoryAssumption DEF Meddle, Typed
<1>2. Typed'
  BY <1>1, MeddleDisk DEF Typed
<1>3. ASSUME NEW a \in Actors PROVE CallOK(a)'
  <2>1. CallOK(a)
    BY DEF IInv
  <2>2. HoldsLock(a)'
    BY <1>1, <2>1 DEF CallOK, HoldsLock
  <2>3. KnowsItem(a)'
    BY <1>1, <2>1 DEF CallOK, KnowsItem, Current
  <2>4. KnowsMoved(a)'
    BY <1>1, <2>1 DEF CallOK, KnowsMoved
  <2> QED
    BY <2>2, <2>3, <2>4 DEF CallOK
<1>4. ValidStore(journal') /\ Numbered'
  BY <1>1 DEF IInv, Numbered
<1> QED
  BY <1>1, <1>2, <1>3, <1>4 DEF IInv

-----------------------------------------------------------------------------
(* The theorems *)

\* The inductive invariant: the types, and who holds the lock knows the journal.
THEOREM Invariant == Spec => [](Typed /\ IInv)
<1>1. Typed /\ IInv /\ [Next]_vars => (Typed /\ IInv)'
  <2> SUFFICES ASSUME Typed, IInv, [Next]_vars
               PROVE  Typed' /\ IInv'
    OBVIOUS
  <2>1. CASE UNCHANGED vars
    <3>1. UNCHANGED <<disk, journal, lock, lastId, call, requests, meddles>>
      BY <2>1 DEF vars, disk
    <3>2. Typed'
      BY <3>1 DEF Typed, DiskTyped, disk
    <3>3. ASSUME NEW a \in Actors PROVE CallOK(a)'
      <4>1. CallOK(a)
        BY DEF IInv
      <4> QED
        BY <3>1, <4>1 DEF CallOK, HoldsLock, KnowsItem, KnowsMoved, Current
    <3> QED
      BY <3>1, <3>2, <3>3 DEF IInv, Numbered
  <2>2. CASE Next
    BY <2>2, ActorStep, MeddleStep DEF Next
  <2> QED
    BY <2>1, <2>2
<1> QED
  BY InitOK, <1>1, PTL DEF Spec

\* Whatever the instances do, and wherever they are killed, the journal that
\* _write leaves is one that _read accepts (_validate_store).
THEOREM JournalReadable == Spec => []Readable
<1>1. IInv => Readable
  BY DEF IInv, Readable
<1> QED
  BY Invariant, <1>1, PTL

\* The instances that share the journal implement the ledger: append_operation
\* and restore_item are atomic updates of it, none is lost or made twice.
THEOREM ImplementsLedger == Spec => LedgerSpec
<1>1. Init => Ledger!Init
  BY InitOK, LedgerBound DEF IInv, Ledger!Init
<1>2. Typed /\ IInv /\ [Next]_vars => [Ledger!Next]_journal
  <2> SUFFICES ASSUME Typed, IInv, [Next]_vars
               PROVE  [Ledger!Next]_journal
    OBVIOUS
  <2>1. CASE UNCHANGED vars
    BY <2>1 DEF vars
  <2>2. CASE Next
    BY <2>2, ActorStep, MeddleStep DEF Next
  <2> QED
    BY <2>1, <2>2
<1> QED
  BY Invariant, <1>1, <1>2, PTL DEF Spec, LedgerSpec, Ledger!Spec
\* The types as sets imply the types as predicates.
LEMMA JournalTyped ==
  ASSUME NEW ops \in Seq(Operations)
  PROVE  IsJournal(ops)
<1>1. ASSUME NEW k \in DOMAIN ops
      PROVE  /\ ops[k].id \in Nat
             /\ ops[k].status \in {"completed", "partial", "failed", "restored"}
             /\ IsItems(ops[k].items)
  <2>1. ops[k] \in Operations
    OBVIOUS
  <2> QED
    BY <2>1 DEF Operations, Statuses, Items, IsItems
<1>2. ops \in Seq(Range(ops))
  <2>1. \A k \in 1..Len(ops) : ops[k] \in Range(ops)
    BY DEF Range
  <2> QED
    BY <2>1
<1> QED
  BY <1>1, <1>2 DEF IsJournal

\* Type correctness, of the disk, the journal and every call.
THEOREM TypeCorrect == Spec => []TypeOK
<1>1. Typed => TypeOK
  <2> SUFFICES ASSUME Typed PROVE TypeOK
    OBVIOUS
  <2>1. ASSUME NEW a \in Actors PROVE IsCall(call[a])
    <3> DEFINE c == call[a]
    <3>1. c \in Calls
      BY DEF Typed
    <3>2. DOMAIN c = DOMAIN NoCall
      BY <3>1 DEF Calls, NoCall
    <3>3. c.store \in Seq(Operations) /\ c.built \in Items
      BY <3>1 DEF Calls
    <3>4. IsJournal(c.store)
      BY <3>3, JournalTyped
    <3>5. IsItems(c.built)
      BY <3>3 DEF Items, IsItems
    <3> QED
      BY <3>1, <3>2, <3>4, <3>5 DEF IsCall, Calls
  <2>2. IsJournal(journal)
    BY JournalTyped DEF Typed
  <2> QED
    BY <2>1, <2>2 DEF TypeOK, Typed, DiskTyped
<1> QED
  BY Invariant, <1>1, PTL
-----------------------------------------------------------------------------
(* What the program's renames do to the objects, when nobody else acts in the *)
(* windows between a last look and the call that relies on it (Closed).       *)

\* An object has one name, and the two folders are two.
OnePlace == \A s, t \in Spots : IsObject(s) /\ entry[s] = entry[t] => s = t
Apart == dirAt["home"] # dirAt["trash"]

\* Past the check of the record, the expected identity is that of the record,
\* and as long as the object has it, it has the recorded content.
Vouched(a) ==
  call[a].pc \in {"choose", "recheck"} \cup Renaming /\ ~call[a].back =>
    LET id   == call[a].expect
        item == Current(a)
    IN  /\ id \in Identity /\ id.stamp <= stamp[id.object]
        /\ item.id # Nothing => item.id = id
        /\ item.digest # Nothing /\ stamp[id.object] = id.stamp =>
             content[id.object] = item.digest

\* From the last look on, the object is where it was seen, in a folder that is
\* not the one that removals take from.
Targeted(a) ==
  call[a].pc \in Renaming /\ ~call[a].back =>
    LET id == call[a].expect
    IN  /\ entry[call[a].from] = id.object /\ stamp[id.object] = id.stamp
        /\ call[a].from[1] # dirAt["home"]

\* A name that was reserved is still reserved.
StubHeld(a) == call[a].pc \in {"reserved", "replace"} => entry[call[a].to] = Stub

DiskOK(a) == Vouched(a) /\ Targeted(a) /\ StubHeld(a)

DInv == OnePlace /\ Apart /\ \A a \in Actors : DiskOK(a)

\* A call that is not past the check of the record.
LEMMA EarlyCall ==
  ASSUME NEW a \in Actors,
         call'[a].pc \notin {"choose", "recheck"} \cup Renaming
  PROVE  DiskOK(a)'
  BY DEF DiskOK, Vouched, Targeted, StubHeld, Renaming

\* What is never undone: an object that keeps its stamp keeps its content.
Ages == \A o \in Objects : /\ stamp[o] <= stamp'[o]
                           /\ stamp'[o] = stamp[o] => content'[o] = content[o]

\* A step that leaves a call alone, and what it relies on where it is.
Spares(a) ==
  /\ call'[a] = call[a] /\ Ages
  /\ call[a].pc \in Renaming /\ ~call[a].back =>
       /\ entry'[call[a].from] = entry[call[a].from]
       /\ stamp'[call[a].expect.object] = stamp[call[a].expect.object]
       /\ call[a].from[1] # dirAt'["home"]
  /\ call[a].pc \in {"reserved", "replace"} => entry'[call[a].to] = entry[call[a].to]

LEMMA SparedCall ==
  ASSUME Typed, Typed', NEW a \in Actors, DiskOK(a), Spares(a)
  PROVE  DiskOK(a)'
<1>1. Current(a)' = Current(a)
  BY DEF Spares, Current
<1>2. Vouched(a)'
  <2> SUFFICES ASSUME call[a].pc \in {"choose", "recheck"} \cup Renaming, ~call[a].back
               PROVE  Vouched(a)'
    BY DEF Vouched, Spares
  <2> DEFINE id == call[a].expect
  <2>1. /\ id \in Identity /\ id.stamp <= stamp[id.object]
        /\ Current(a).id # Nothing => Current(a).id = id
        /\ Current(a).digest # Nothing /\ stamp[id.object] = id.stamp =>
             content[id.object] = Current(a).digest
    BY DEF DiskOK, Vouched
  <2>2. id.object \in Objects /\ id.stamp \in Nat
    BY <2>1 DEF Identity
  <2>3. /\ stamp[id.object] <= stamp'[id.object]
        /\ stamp'[id.object] = stamp[id.object] => content'[id.object] = content[id.object]
    BY <2>2 DEF Spares, Ages
  <2>4. stamp[id.object] \in Nat /\ stamp'[id.object] \in Nat
    BY <2>2 DEF Typed, DiskTyped
  <2>5. id.stamp <= stamp'[id.object] /\ (stamp'[id.object] = id.stamp => stamp[id.object] = id.stamp)
    BY <2>1, <2>2, <2>3, <2>4
  <2>6. call'[a] = call[a]
    BY DEF Spares
  <2> QED
    BY <1>1, <2>1, <2>3, <2>5, <2>6 DEF Vouched
<1>3. Targeted(a)'
  BY DEF DiskOK, Targeted, Spares
<1>4. StubHeld(a)'
  BY DEF DiskOK, StubHeld, Spares
<1> QED
  BY <1>2, <1>3, <1>4 DEF DiskOK

\* An object moves to a name that no object has.
LEMMA ObjectMoves ==
  ASSUME Typed, OnePlace, NEW src \in Spots, NEW dst \in Spots, Rename(src, dst),
         IsObject(src), ~IsObject(dst)
  PROVE  /\ OnePlace' /\ Ages /\ Present \subseteq Present'
         /\ \A s \in Spots \ {src, dst} : entry'[s] = entry[s]
         /\ \A o \in Objects : o # entry[src] => stamp'[o] = stamp[o]
<1>1. entry \in [Spots -> Objects \cup {Nothing, Stub}] /\ src # dst
  BY DEF Typed, DiskTyped, IsObject
<1>2. entry' = [entry EXCEPT ![dst] = entry[src], ![src] = Nothing]
  BY DEF Rename
<1>3. /\ entry'[dst] = entry[src] /\ entry'[src] = Nothing
      /\ \A s \in Spots \ {src, dst} : entry'[s] = entry[s]
  BY <1>1, <1>2
<1>4. OnePlace'
  <2> SUFFICES ASSUME NEW s \in Spots, NEW t \in Spots, entry'[s] \in Objects,
                      entry'[s] = entry'[t]
               PROVE  s = t
    BY DEF OnePlace, IsObject
  <2>1. s # src /\ t # src
    BY <1>3, HistoryAssumption
  <2>2. CASE s = dst
    BY <1>1, <1>3, <2>1, <2>2 DEF OnePlace, IsObject
  <2>3. CASE t = dst
    BY <1>1, <1>3, <2>1, <2>3 DEF OnePlace, IsObject
  <2>4. CASE s # dst /\ t # dst
    BY <1>3, <2>1, <2>4 DEF OnePlace, IsObject
  <2> QED
    BY <2>2, <2>3, <2>4
<1>5. \A o \in Objects : /\ stamp'[o] = stamp[o] \/ stamp'[o] = stamp[o] + 1
                         /\ o # entry[src] => stamp'[o] = stamp[o]
                         /\ content'[o] = content[o] /\ stamp[o] \in Nat
  BY DEF Rename, Typed, DiskTyped, IsObject
<1>6. Ages
  BY <1>5 DEF Ages
<1>7. Present \subseteq Present'
  <2> SUFFICES ASSUME NEW o \in Objects, NEW s \in Spots, entry[s] = o
               PROVE  \E t \in Spots : entry'[t] = o
    BY DEF Present, Absent, Holds
  <2>1. CASE s = src
    BY <1>3, <2>1
  <2>2. CASE s # src
    BY <1>3, <2>2 DEF IsObject
  <2> QED
    BY <2>1, <2>2
<1> QED
  BY <1>3, <1>4, <1>5, <1>6, <1>7

\* A reservation is made or given up: a name without an object gets none.
LEMMA NameMarked ==
  ASSUME Typed, OnePlace, NEW spot \in Spots, NEW mark \in {Nothing, Stub},
         entry' = [entry EXCEPT ![spot] = mark], ~IsObject(spot),
         UNCHANGED <<dirAt, stamp, content, rename>>
  PROVE  /\ OnePlace' /\ Ages /\ Present \subseteq Present'
         /\ \A s \in Spots \ {spot} : entry'[s] = entry[s]
<1>1. /\ entry'[spot] = mark
      /\ \A s \in Spots \ {spot} : entry'[s] = entry[s]
  BY DEF Typed, DiskTyped
<1>2. OnePlace'
  BY <1>1, HistoryAssumption DEF OnePlace, IsObject
<1>3. Ages
  BY DEF Ages, Typed, DiskTyped
<1>4. Present \subseteq Present'
  <2> SUFFICES ASSUME NEW o \in Objects, NEW s \in Spots, entry[s] = o
               PROVE  \E t \in Spots : entry'[t] = o
    BY DEF Present, Absent, Holds
  <2> QED
    BY <1>1 DEF IsObject
<1> QED
  BY <1>1, <1>2, <1>3, <1>4

\* A step that does nothing to the disk spares every other call.
LEMMA DiskAlone ==
  ASSUME NEW b \in Actors, Typed, DiskOK(b), UNCHANGED disk, call'[b] = call[b]
  PROVE  Spares(b)
<1>1. Ages
  BY DEF Ages, disk, Typed, DiskTyped
<1> QED
  BY <1>1 DEF Spares, disk, DiskOK, Targeted

\* Only one call is in the critical section: what it does to the disk concerns
\* no other call that relies on the disk.
LEMMA InsideAlone ==
  ASSUME NEW a \in Actors, NEW b \in Actors \ {a}, CallOK(a), CallOK(b),
         call[a].pc \in Locked, call'[b] = call[b], Ages
  PROVE  Spares(b)
<1>1. call[b].pc \notin Locked
  BY DEF CallOK, HoldsLock
<1> QED
  BY <1>1 DEF Spares, Locked, Renaming

\* A removal takes no object that a restore has in hand.
LEMMA MoveSpares ==
  ASSUME Typed, DInv, NEW a \in Actors, Move(a), CallOK(a),
         \A b \in Actors \ {a} : call'[b] = call[b] /\ CallOK(b)
  PROVE  /\ OnePlace' /\ dirAt' = dirAt /\ Present \subseteq Present'
         /\ \A b \in Actors \ {a} : Spares(b)
         /\ call'[a].pc = "move"
<1>1. PICK p \in call[a].todo, k \in Numbers :
        /\ IsObject(Home(p)) /\ Holds(InTrash(<<p, k>>), Nothing)
        /\ Rename(Home(p), InTrash(<<p, k>>))
        /\ \E digest \in {Nothing, content[entry[Home(p)]]} :
             call' = [call EXCEPT ![a].seen[p] = entry[Home(p)],
                                  ![a].built = With(@, p, Trashed(Nothing, Nothing, digest)),
                                  ![a].todo = @ \ {p}]
  BY DEF Move
<1> DEFINE src == Home(p)
           dst == InTrash(<<p, k>>)
<1>2. p \in Paths
  BY DEF Typed, Calls
<1>3. src \in Spots /\ dst \in Spots /\ src[1] = dirAt["home"]
  BY <1>2, HistoryAssumption DEF Home, InTrash, Spots, Names, Typed, DiskTyped
<1>4. entry[dst] = Nothing /\ entry[src] \in Objects /\ Rename(src, dst)
  BY <1>1 DEF Holds, IsObject
<1>5. call[a].pc = "move" /\ call[a] \in Calls
  BY DEF Move, At, Typed
<1>6. call'[a].pc = "move"
  BY <1>1, <1>5 DEF Typed, Calls
<1> HIDE DEF src, dst
<1>7. ~IsObject(dst) /\ IsObject(src)
  BY <1>4, HistoryAssumption DEF IsObject
<1>8. OnePlace
  BY DEF DInv
<1>9. /\ OnePlace' /\ Ages /\ Present \subseteq Present'
      /\ \A s \in Spots \ {src, dst} : entry'[s] = entry[s]
      /\ \A o \in Objects : o # entry[src] => stamp'[o] = stamp[o]
  BY <1>3, <1>4, <1>7, <1>8, ObjectMoves
<1>10. dirAt' = dirAt
  BY <1>4 DEF Rename
<1>11. ASSUME NEW b \in Actors \ {a} PROVE Spares(b)
  <2>1. DiskOK(b) /\ KnowsItem(b) /\ call'[b] = call[b]
    BY DEF DInv, CallOK
  <2>2. ASSUME call[b].pc \in Renaming, ~call[b].back
        PROVE  /\ entry'[call[b].from] = entry[call[b].from]
               /\ stamp'[call[b].expect.object] = stamp[call[b].expect.object]
               /\ call[b].from[1] # dirAt'["home"]
    <3>1. /\ entry[call[b].from] = call[b].expect.object
          /\ call[b].from[1] # dirAt["home"]
          /\ call[b].expect \in Identity
      BY <2>1, <2>2 DEF DiskOK, Targeted, Vouched
    <3>2. call[b].expect.object \in Objects
      BY <3>1 DEF Identity
    <3>3. call[b].from \in Spots
      BY <2>1, <2>2 DEF KnowsItem, Locked, Renaming
    <3>4. call[b].from # src /\ call[b].from # dst
      BY <1>3, <1>4, <3>1, <3>2, HistoryAssumption
    <3>5. call[b].expect.object # entry[src]
      BY <1>3, <1>8, <3>1, <3>2, <3>3, <3>4 DEF OnePlace, IsObject
    <3> QED
      BY <1>9, <1>10, <3>1, <3>2, <3>3, <3>4, <3>5
  <2>3. ASSUME call[b].pc \in {"reserved", "replace"}
        PROVE  entry'[call[b].to] = entry[call[b].to]
    <3>1. entry[call[b].to] = Stub
      BY <2>1, <2>3 DEF DiskOK, StubHeld
    <3>2. call[b].to \in Spots
      BY <2>1, <2>3 DEF KnowsItem, Locked, Renaming
    <3>3. call[b].to # src /\ call[b].to # dst
      BY <1>4, <3>1, HistoryAssumption
    <3> QED
      BY <1>9, <3>2, <3>3
  <2> QED
    BY <1>9, <2>1, <2>2, <2>3 DEF Spares
<1> QED
  BY <1>6, <1>9, <1>10, <1>11

\* What a step of actor a does to the disk.
DiskStep(a) ==
  OnePlace' /\ dirAt' = dirAt /\ Present \subseteq Present' /\ Ages /\ DiskOK(a)'

\* A step of a call that does nothing to the disk.
LEMMA StillStep ==
  ASSUME Typed, OnePlace, UNCHANGED disk
  PROVE  OnePlace' /\ dirAt' = dirAt /\ Present \subseteq Present' /\ Ages
BY DEF OnePlace, IsObject, Present, Absent, Holds, Ages, disk, Typed, DiskTyped

\* The record is checked, by the identity and then by the digest.
LEMMA RecordChecked ==
  ASSUME Typed, OnePlace, NEW a \in Actors, CallOK(a), Pin(a) \/ ReadDigest(a)
  PROVE  DiskStep(a)
<1> DEFINE r == call[a]
           item == Current(a)
<1>1. /\ r \in Calls /\ UNCHANGED disk
      /\ Listed(r.store, r.opId, r.path) /\ r.store \in Seq(Operations)
  BY DEF Typed, Calls, Pin, ReadDigest, At, CallOK, KnowsItem, Locked
<1>2. OnePlace' /\ dirAt' = dirAt /\ Present \subseteq Present' /\ Ages
  BY <1>1, StillStep
<1>3. item \in ItemType /\ item.bin \in Names
  BY <1>1, ListedItem DEF Current
<1>4. CASE Leave(a)
  <2>1. call'[a].pc = "idle"
    BY <1>4 DEF Leave, NoCall, Typed
  <2>2. DiskOK(a)'
    BY <2>1, EarlyCall DEF Renaming
  <2> QED
    BY <1>2, <2>2 DEF DiskStep
<1>5. CASE Pin(a) /\ ~Leave(a)
  <2> DEFINE src == InTrash(item.bin)
             next == IF item.digest # Nothing THEN "read" ELSE "choose"
             c == [r EXCEPT !.from = src, !.to = Home(r.path),
                            !.expect = Id(entry[src]), !.pc = next]
  <2>1. /\ IsObject(src) /\ HasProof(item)
        /\ item.id # Nothing => item.id = Id(entry[src])
        /\ call' = [call EXCEPT ![a] = c]
    BY <1>5 DEF Pin
  <2> HIDE DEF src
  <2>2. /\ c.expect = Id(entry[src]) /\ c.pc = next /\ c.back = r.back
        /\ c.store = r.store /\ c.opId = r.opId /\ c.path = r.path
    BY <1>1 DEF Calls
  <2> HIDE DEF c
  <2>3. call'[a] = c
    BY <2>1 DEF Typed
  <2>4. CASE item.digest # Nothing
    BY <1>2, <2>2, <2>3, <2>4, EarlyCall DEF Renaming, DiskStep
  <2>5. CASE item.digest = Nothing
    <3>1. call'[a].pc = "choose" /\ Current(a)' = item
      BY <2>2, <2>3, <2>5 DEF Current
    <3>2. /\ Id(entry[src]) \in Identity /\ Id(entry[src]).object = entry[src]
          /\ Id(entry[src]).stamp = stamp[entry[src]] /\ stamp[entry[src]] \in Nat
      BY <2>1 DEF Id, Identity, IsObject, Typed, DiskTyped
    <3>3. stamp' = stamp /\ content' = content
      BY <1>1 DEF disk
    <3>4. Vouched(a)'
      BY <2>1, <2>2, <2>3, <2>5, <3>1, <3>2, <3>3 DEF Vouched
    <3>5. Targeted(a)' /\ StubHeld(a)'
      BY <3>1 DEF Targeted, StubHeld, Renaming
    <3> QED
      BY <1>2, <3>4, <3>5 DEF DiskOK, DiskStep
  <2> QED
    BY <2>4, <2>5
<1>6. CASE ReadDigest(a) /\ ~Leave(a)
  <2> DEFINE src == r.from
             c == [r EXCEPT !.expect = Id(entry[src]), !.pc = "choose"]
  <2>1. /\ IsObject(src) /\ Matches(item, entry[src])
        /\ call' = [call EXCEPT ![a] = c]
    BY <1>6 DEF ReadDigest
  <2>2. /\ c.expect = Id(entry[src]) /\ c.pc = "choose" /\ c.back = r.back
        /\ c.store = r.store /\ c.opId = r.opId /\ c.path = r.path
    BY <1>1 DEF Calls
  <2> HIDE DEF c, src
  <2>3. call'[a] = c
    BY <2>1 DEF Typed
  <2>4. call'[a].pc = "choose" /\ Current(a)' = item
    BY <2>2, <2>3 DEF Current
  <2>5. /\ Id(entry[src]) \in Identity /\ Id(entry[src]).object = entry[src]
        /\ Id(entry[src]).stamp = stamp[entry[src]] /\ stamp[entry[src]] \in Nat
    BY <2>1 DEF Id, Identity, IsObject, Typed, DiskTyped
  <2>6. stamp' = stamp /\ content' = content
    BY <1>1 DEF disk
  <2>7. Vouched(a)'
    BY <2>1, <2>2, <2>3, <2>4, <2>5, <2>6 DEF Vouched, Matches
  <2>8. Targeted(a)' /\ StubHeld(a)'
    BY <2>4 DEF Targeted, StubHeld, Renaming
  <2> QED
    BY <1>2, <2>7, <2>8 DEF DiskOK, DiskStep
<1> QED
  BY <1>4, <1>5, <1>6

\* The name is chosen, and the entry looked at for the last time.
LEMMA LastLook ==
  ASSUME Typed, OnePlace, Apart, NEW a \in Actors, CallOK(a), DiskOK(a),
         ChooseName(a) \/ Recheck(a)
  PROVE  DiskStep(a)
<1> DEFINE r == call[a]
           item == Current(a)
<1>1. /\ r \in Calls /\ UNCHANGED disk /\ r.pc \in {"choose", "recheck"}
      /\ entry' = entry /\ dirAt' = dirAt /\ stamp' = stamp /\ content' = content
  BY DEF Typed, ChooseName, Recheck, At, disk
<1>2. OnePlace' /\ dirAt' = dirAt /\ Present \subseteq Present' /\ Ages
  BY <1>1, StillStep
<1>3. CASE Leave(a)
  <2>1. call'[a].pc = "idle"
    BY <1>3 DEF Leave, NoCall, Typed
  <2>2. DiskOK(a)'
    BY <2>1, EarlyCall DEF Renaming
  <2> QED
    BY <1>2, <2>2 DEF DiskStep
<1>4. CASE ChooseName(a) /\ ~Leave(a)
  <2> DEFINE free == {k \in Numbers : Holds(<<r.to[1], <<r.path, k>>>>, Nothing)}
             c == [r EXCEPT !.to = <<r.to[1], <<r.path, Min(free)>>>>, !.pc = "recheck"]
  <2>1. call' = [call EXCEPT ![a] = c]
    BY <1>4 DEF ChooseName
  <2>2. /\ c.expect = r.expect /\ c.pc = "recheck" /\ c.back = r.back
        /\ c.store = r.store /\ c.opId = r.opId /\ c.path = r.path
    BY <1>1 DEF Calls
  <2> HIDE DEF c
  <2>3. call'[a] = c
    BY <2>1 DEF Typed
  <2>4. Current(a)' = item
    BY <2>2, <2>3 DEF Current
  <2>5. Vouched(a)'
    BY <1>1, <2>2, <2>3, <2>4 DEF Vouched, DiskOK
  <2>6. Targeted(a)' /\ StubHeld(a)'
    BY <2>2, <2>3 DEF Targeted, StubHeld, Renaming
  <2> QED
    BY <1>2, <2>5, <2>6 DEF DiskOK, DiskStep
<1>5. CASE Recheck(a) /\ ~Leave(a)
  <2> DEFINE c == [r EXCEPT !.pc = "rename"]
  <2>1. /\ SameParents(a) /\ IsObject(r.from) /\ Id(entry[r.from]) = r.expect
        /\ call' = [call EXCEPT ![a] = c]
    BY <1>5 DEF Recheck, Go
  <2>2. /\ c.expect = r.expect /\ c.pc = "rename" /\ c.back = r.back /\ c.from = r.from
        /\ c.store = r.store /\ c.opId = r.opId /\ c.path = r.path
    BY <1>1 DEF Calls
  <2> HIDE DEF c
  <2>3. call'[a] = c
    BY <2>1 DEF Typed
  <2>4. Current(a)' = item
    BY <2>2, <2>3 DEF Current
  <2>5. Vouched(a)'
    BY <1>1, <2>2, <2>3, <2>4 DEF Vouched, DiskOK
  <2>6. /\ r.expect.object = entry[r.from] /\ r.expect.stamp = stamp[entry[r.from]]
    BY <2>1 DEF Id
  <2>7. ~r.back => r.from[1] # dirAt["home"]
    BY <2>1 DEF SameParents, Apart
  <2>8. Targeted(a)'
    BY <1>1, <2>2, <2>3, <2>6, <2>7 DEF Targeted
  <2>9. StubHeld(a)'
    BY <2>2, <2>3 DEF StubHeld
  <2> QED
    BY <1>2, <2>5, <2>8, <2>9 DEF DiskOK, DiskStep
<1> QED
  BY <1>3, <1>4, <1>5

\* The rename, exclusive or over a reserved name.
LEMMA Renamed ==
  ASSUME Typed, OnePlace, NEW a \in Actors, CallOK(a), DiskOK(a),
         RenameExclusive(a) \/ Reserve(a) \/ CheckReserved(a) \/ Replace(a)
  PROVE  DiskStep(a)
<1> DEFINE r == call[a]
           item == Current(a)
<1>1. /\ r \in Calls /\ r.pc \in Renaming
      /\ r.from \in Spots /\ r.to \in Spots
  BY DEF Typed, RenameExclusive, Reserve, CheckReserved, Replace, At, Renaming,
         CallOK, KnowsItem, Locked
<1>2. r.pc \in {"reserved", "replace"} => ~IsObject(r.to)
  BY HistoryAssumption DEF DiskOK, StubHeld, IsObject
<1>4. CASE UNCHANGED disk /\ Leave(a)
  <2>1. call'[a].pc = "idle"
    BY <1>4 DEF Leave, NoCall, Typed
  <2> QED
    BY <1>4, <2>1, StillStep, EarlyCall DEF Renaming, DiskStep
<1>5. CASE Publish(a) /\ IsObject(r.from) /\ ~IsObject(r.to)
  <2>1. Rename(r.from, r.to) /\ (Leave(a) \/ Go(a, "parents"))
    BY <1>5 DEF Publish
  <2>2. OnePlace' /\ Ages /\ Present \subseteq Present'
    BY <1>1, <1>5, <2>1, ObjectMoves
  <2>3. dirAt' = dirAt
    BY <2>1 DEF Rename
  <2>4. call'[a].pc \in {"idle", "parents"}
    BY <1>1, <2>1 DEF Leave, Go, NoCall, Typed, Calls
  <2>5. DiskOK(a)'
    BY <2>4, EarlyCall DEF Renaming
  <2> QED
    BY <2>2, <2>3, <2>5 DEF DiskStep
<1>6. CASE Unlink(r.to) /\ Leave(a) /\ ~IsObject(r.to)
  <2>1. call'[a].pc = "idle"
    BY <1>6 DEF Leave, NoCall, Typed
  <2>2. DiskOK(a)'
    BY <2>1, EarlyCall DEF Renaming
  <2>3. OnePlace' /\ Ages /\ Present \subseteq Present' /\ dirAt' = dirAt
    BY <1>1, <1>6, NameMarked DEF Unlink
  <2> QED
    BY <2>2, <2>3 DEF DiskStep
<1>7. CASE Reserve(a) /\ IsObject(r.from) /\ Holds(r.to, Nothing)
  <2>1. /\ IsObject(r.from) /\ Holds(r.to, Nothing)
        /\ entry' = [entry EXCEPT ![r.to] = Stub] /\ Go(a, "reserved")
        /\ UNCHANGED <<dirAt, stamp, content, rename>>
    BY <1>7 DEF Reserve
  <2>2. ~IsObject(r.to) /\ r.from # r.to
    BY <2>1, HistoryAssumption DEF IsObject, Holds
  <2>3. /\ OnePlace' /\ Ages /\ Present \subseteq Present'
        /\ \A s \in Spots \ {r.to} : entry'[s] = entry[s]
    BY <1>1, <2>1, <2>2, NameMarked
  <2> DEFINE c == [r EXCEPT !.pc = "reserved"]
  <2>4. /\ c.expect = r.expect /\ c.pc = "reserved" /\ c.back = r.back
        /\ c.from = r.from /\ c.to = r.to
        /\ c.store = r.store /\ c.opId = r.opId /\ c.path = r.path
    BY <1>1 DEF Calls
  <2>5. call'[a] = c
    BY <2>1 DEF Typed, Go
  <2> HIDE DEF c
  <2>6. Current(a)' = item
    BY <2>4, <2>5 DEF Current
  <2>7. Vouched(a)'
    BY <1>1, <2>1, <2>4, <2>5, <2>6 DEF Vouched, DiskOK
  <2>8. Targeted(a)'
    BY <1>1, <2>1, <2>2, <2>3, <2>4, <2>5 DEF Targeted, DiskOK
  <2>9. StubHeld(a)'
    BY <1>1, <2>1, <2>4, <2>5 DEF StubHeld, Typed, DiskTyped
  <2> QED
    BY <2>1, <2>3, <2>7, <2>8, <2>9 DEF DiskOK, DiskStep
<1>8. CASE CheckReserved(a) /\ UNCHANGED disk /\ Go(a, "replace")
  <2> DEFINE c == [r EXCEPT !.pc = "replace"]
  <2>1. /\ c.expect = r.expect /\ c.pc = "replace" /\ c.back = r.back
        /\ c.from = r.from /\ c.to = r.to
        /\ c.store = r.store /\ c.opId = r.opId /\ c.path = r.path
    BY <1>1 DEF Calls
  <2>2. call'[a] = c
    BY <1>8 DEF Typed, Go
  <2> HIDE DEF c
  <2>3. Current(a)' = item /\ r.pc = "reserved"
    BY <1>8, <2>1, <2>2 DEF Current, CheckReserved, At
  <2>4. entry' = entry /\ dirAt' = dirAt /\ stamp' = stamp /\ content' = content
    BY <1>8 DEF disk
  <2>5. Vouched(a)' /\ Targeted(a)' /\ StubHeld(a)'
    BY <1>1, <2>1, <2>2, <2>3, <2>4 DEF Vouched, Targeted, StubHeld, DiskOK
  <2> QED
    BY <1>8, <2>5, StillStep DEF DiskOK, DiskStep
<1>9. CASE RenameExclusive(a)
  BY <1>4, <1>5, <1>9, HistoryAssumption DEF RenameExclusive, Holds, IsObject
<1>10. CASE Reserve(a)
  BY <1>4, <1>7, <1>10 DEF Reserve, disk
<1>11. CASE CheckReserved(a)
  BY <1>2, <1>6, <1>8, <1>11 DEF CheckReserved, At
<1>12. CASE Replace(a)
  BY <1>2, <1>5, <1>6, <1>12 DEF Replace, At
<1> QED
  BY <1>9, <1>10, <1>11, <1>12

\* The rename is undone: nothing is relied on but that the name is free.
LEMMA Undone ==
  ASSUME Typed, OnePlace, NEW a \in Actors, CheckParents(a) \/ WriteFails(a)
  PROVE  DiskStep(a)
<1>1. call[a] \in Calls /\ UNCHANGED disk
  BY DEF Typed, CheckParents, WriteFails
<1>2. \/ call'[a].pc = "write"
      \/ call'[a].pc = "rename" /\ call'[a].back = TRUE
  BY <1>1 DEF CheckParents, WriteFails, Go, Undo, Typed, Calls
<1>3. DiskOK(a)'
  BY <1>2 DEF DiskOK, Vouched, Targeted, StubHeld, Renaming
<1> QED
  BY <1>1, <1>3, StillStep DEF DiskStep

\* A step of one call is no step of another.
LEMMA OthersAlone ==
  ASSUME Typed, IInv, NEW a \in Actors, Ask(a) \/ Work(a) \/ Crash(a)
  PROVE  Alone(a)
<1>1. CallOK(a)
  BY DEF IInv
<1>2. CASE Ask(a)
  BY <1>2, AskSteps
<1>3. CASE Crash(a)
  <2>1. Leave(a)
    BY <1>3 DEF Crash
  <2> QED
    BY <2>1, Leaving DEF Alone, Typed
<1>4. CASE Work(a)
  BY <1>1, <1>4, RemoveSteps, OuterSteps, InnerSteps DEF Work
<1> QED
  BY <1>2, <1>3, <1>4

\* A call that ends is idle.
LEMMA LeftIdle ==
  ASSUME Typed, NEW a \in Actors, Leave(a) \/ Crash(a)
  PROVE  call'[a].pc = "idle"
BY DEF Leave, Crash, NoCall, Typed

\* The other steps of a call rely on nothing they have seen on the disk.
LEMMA Unseeing ==
  ASSUME Typed, NEW a \in Actors,
         \/ Ask(a) \/ Crash(a)
         \/ MoveFails(a) \/ Moved(a) \/ Locate(a) \/ Identify(a)
         \/ EnterAppend(a) \/ AppendOperation(a) \/ AppendFails(a)
         \/ Preflight(a) \/ PreflightDone(a) \/ Unlisted(a) \/ EnterRestore(a)
         \/ WriteRestored(a)
  PROVE  UNCHANGED disk /\ DiskOK(a)'
<1> DEFINE Early(label) == label \notin {"choose", "recheck"} \cup Renaming
<1>1. call[a] \in Calls /\ call \in [Actors -> Calls]
  BY DEF Typed
<1>2. Leave(a) => Early(call'[a].pc)
  BY <1>1 DEF Leave, NoCall, Renaming
<1>3. NextItem(a) => Early(call'[a].pc)
  <2> SUFFICES ASSUME NextItem(a), ~Leave(a) PROVE Early(call'[a].pc)
    BY <1>2
  <2>1. PICK p \in call[a].rest :
          call' = [call EXCEPT ![a] =
                     [NoCall EXCEPT !.pc = "enterRestore", !.path = p,
                                    !.opId = call[a].opId,
                                    !.rest = call[a].rest \ {p}]]
    BY DEF NextItem
  <2>2. call'[a].pc = "enterRestore"
    BY <1>1, <2>1 DEF NoCall
  <2> QED
    BY <2>2 DEF Renaming
<1>4. CASE Ask(a)
  <2>1. \E c : c.pc \in {"move", "enterRestore", "preflight"} /\ Begin(a, c)
    <3>1. CASE AskRemove(a)
      <4>1. PICK S \in SUBSET Paths :
              Begin(a, [NoCall EXCEPT !.pc = "move", !.todo = S])
        BY <3>1 DEF AskRemove
      <4> DEFINE c == [NoCall EXCEPT !.pc = "move", !.todo = S]
      <4>2. c.pc = "move" /\ Begin(a, c)
        BY <4>1 DEF NoCall
      <4> HIDE DEF c
      <4> QED
        BY <4>2
    <3>2. CASE AskRestore(a)
      <4>1. PICK id \in 1..lastId, p \in Paths :
              Begin(a, [NoCall EXCEPT !.pc = "enterRestore", !.opId = id, !.path = p])
        BY <3>2 DEF AskRestore
      <4> DEFINE c == [NoCall EXCEPT !.pc = "enterRestore", !.opId = id, !.path = p]
      <4>2. c.pc = "enterRestore" /\ Begin(a, c)
        BY <4>1 DEF NoCall
      <4> HIDE DEF c
      <4> QED
        BY <4>2
    <3>3. CASE AskRestoreAll(a)
      <4>1. PICK k, todo :
              Begin(a, [NoCall EXCEPT !.pc = "preflight", !.opId = journal[k].id,
                                      !.todo = todo, !.rest = todo,
                                      !.store = journal])
        BY <3>3 DEF AskRestoreAll
      <4> DEFINE c == [NoCall EXCEPT !.pc = "preflight", !.opId = journal[k].id,
                                     !.todo = todo, !.rest = todo, !.store = journal]
      <4>2. c.pc = "preflight" /\ Begin(a, c)
        BY <4>1 DEF NoCall
      <4> HIDE DEF c
      <4> QED
        BY <4>2
    <3> QED
      BY <1>4, <3>1, <3>2, <3>3 DEF Ask
  <2>2. Early(call'[a].pc) /\ UNCHANGED disk
    BY <1>1, <2>1 DEF Begin, Renaming
  <2> QED
    BY <2>2, EarlyCall
<1>5. CASE Crash(a) \/ AppendOperation(a) \/ AppendFails(a) \/ Unlisted(a)
  BY <1>2, <1>5, EarlyCall DEF Crash, AppendOperation, AppendFails, Unlisted, disk
<1>6. CASE PreflightDone(a) \/ WriteRestored(a)
  BY <1>3, <1>6, EarlyCall DEF PreflightDone, WriteRestored
<1>7. CASE MoveFails(a) \/ Moved(a)
  <2>1. Moved(a) => Early(call'[a].pc)
    BY <1>1, <1>2 DEF Moved, Calls, Renaming
  <2>2. MoveFails(a) => Early(call'[a].pc)
    <3> SUFFICES ASSUME MoveFails(a) PROVE Early(call'[a].pc)
      OBVIOUS
    <3>1. PICK built, todo :
            call' = [call EXCEPT ![a].built = built, ![a].todo = todo]
      BY DEF MoveFails
    <3>2. call'[a].pc = call[a].pc
      BY <1>1, <3>1 DEF Calls
    <3> QED
      BY <3>2 DEF MoveFails, At, Renaming
  <2> QED
    BY <1>7, <2>1, <2>2, EarlyCall DEF MoveFails, Moved
<1>8. CASE Locate(a) \/ Identify(a)
  <2>1. call'[a].pc \in {"locate", "identify"}
    <3>1. CASE Identify(a)
      <4>1. PICK p, id, todo :
              call' = [call EXCEPT ![a].built[p].id = id, ![a].todo = todo,
                                   ![a].pc = "locate"]
        BY <3>1 DEF Identify
      <4> QED
        BY <1>1, <4>1 DEF Calls
    <3>2. CASE Locate(a)
      <4>1. \/ \E todo : call' = [call EXCEPT ![a].todo = todo]
            \/ \E p, n : call' = [call EXCEPT ![a].built[p].bin = n, ![a].path = p,
                                             ![a].pc = "identify"]
        BY <3>2 DEF Locate
      <4>2. ASSUME NEW todo, call' = [call EXCEPT ![a].todo = todo]
            PROVE  call'[a].pc = call[a].pc
        BY <1>1, <4>2 DEF Calls
      <4>3. ASSUME NEW p, NEW n,
                   call' = [call EXCEPT ![a].built[p].bin = n, ![a].path = p,
                                        ![a].pc = "identify"]
            PROVE  call'[a].pc = "identify"
        BY <1>1, <4>3 DEF Calls
      <4> QED
        BY <3>2, <4>1, <4>2, <4>3 DEF Locate, At
    <3> QED
      BY <1>8, <3>1, <3>2
  <2> QED
    BY <1>8, <2>1, EarlyCall DEF Locate, Identify, Renaming
<1>9. CASE EnterAppend(a) \/ EnterRestore(a)
  <2>1. Early(call'[a].pc) /\ UNCHANGED disk
    BY <1>1, <1>9 DEF EnterAppend, EnterRestore, Enter, Calls, Renaming
  <2> QED
    BY <2>1, EarlyCall
<1>10. CASE Preflight(a)
  <2>1. Early(call'[a].pc) /\ UNCHANGED disk
    BY <1>1, <1>2, <1>10 DEF Preflight, At, Calls, Renaming
  <2> QED
    BY <2>1, EarlyCall
<1> QED
  BY <1>4, <1>5, <1>6, <1>7, <1>8, <1>9, <1>10

\* Every step of an actor.
LEMMA ActorDisk ==
  ASSUME Typed, IInv, DInv, NEW a \in Actors, Ask(a) \/ Work(a) \/ Crash(a)
  PROVE  DInv' /\ Present \subseteq Present'
<1>1. \A b \in Actors : CallOK(b) /\ DiskOK(b)
  BY DEF IInv, DInv
<1>2. Typed' /\ \A b \in Actors \ {a} : call'[b] = call[b]
  <2>1. Alone(a)
    BY OthersAlone
  <2> QED
    BY <2>1, ActorStep DEF Alone
<1>3. OnePlace /\ Apart
  BY DEF DInv
<1>4. CASE UNCHANGED disk /\ DiskOK(a)'
  <2>1. ASSUME NEW b \in Actors \ {a} PROVE DiskOK(b)'
    <3>1. Spares(b)
      BY <1>1, <1>2, <1>4, DiskAlone
    <3> QED
      BY <1>1, <1>2, <3>1, SparedCall
  <2>2. OnePlace' /\ Apart' /\ Present \subseteq Present'
    BY <1>3, <1>4, StillStep DEF Apart
  <2> QED
    BY <1>4, <2>1, <2>2 DEF DInv
<1>5. CASE Move(a)
  <2>1. /\ OnePlace' /\ dirAt' = dirAt /\ Present \subseteq Present'
        /\ \A b \in Actors \ {a} : Spares(b)
        /\ call'[a].pc = "move"
    BY <1>1, <1>2, <1>5, MoveSpares
  <2>2. DiskOK(a)'
    BY <2>1, EarlyCall DEF Renaming
  <2>3. \A b \in Actors \ {a} : DiskOK(b)'
    BY <1>1, <1>2, <2>1, SparedCall
  <2> QED
    BY <1>3, <2>1, <2>2, <2>3 DEF DInv, Apart
<1>6. CASE DiskStep(a) /\ call[a].pc \in Locked
  <2>1. ASSUME NEW b \in Actors \ {a} PROVE DiskOK(b)'
    <3>1. Spares(b)
      BY <1>1, <1>2, <1>6, InsideAlone DEF DiskStep
    <3> QED
      BY <1>1, <1>2, <3>1, SparedCall
  <2> QED
    BY <1>3, <1>6, <2>1 DEF DInv, DiskStep, Apart
<1>7. CASE Pin(a) \/ ReadDigest(a) \/ ChooseName(a) \/ Recheck(a)
  BY <1>1, <1>3, <1>6, <1>7, RecordChecked, LastLook
     DEF Pin, ReadDigest, ChooseName, Recheck, At, Locked
<1>8. CASE RenameExclusive(a) \/ Reserve(a) \/ CheckReserved(a) \/ Replace(a)
  BY <1>1, <1>3, <1>6, <1>8, Renamed
     DEF RenameExclusive, Reserve, CheckReserved, Replace, At, Locked, Renaming
<1>9. CASE CheckParents(a) \/ WriteFails(a)
  BY <1>3, <1>6, <1>9, Undone DEF CheckParents, WriteFails, At, Locked
<1>10. CASE ~(Move(a) \/ Pin(a) \/ ReadDigest(a) \/ ChooseName(a) \/ Recheck(a)
              \/ RenameExclusive(a) \/ Reserve(a) \/ CheckReserved(a) \/ Replace(a)
              \/ CheckParents(a) \/ WriteFails(a))
  BY <1>4, <1>10, Unseeing DEF Work
<1> QED
  BY <1>5, <1>7, <1>8, <1>9, <1>10

\* What a spared call has to be spared of, where the disk is concerned.
Hands(b) ==
  (IF call[b].pc \in Renaming THEN {call[b].from} ELSE {}) \cup
  (IF call[b].pc \in {"reserved", "replace"} THEN {call[b].to} ELSE {})

LEMMA OutOfHand ==
  ASSUME Closed, NEW s, ~InWindow(s), NEW b \in Actors
  PROVE  s \notin Hands(b)
BY DEF InWindow, Hands

\* Nobody else reaches into the windows: every step of the machine spares every
\* call.
LEMMA MachineSpares ==
  ASSUME Closed, Typed, IInv, DInv, Meddle
  PROVE  OnePlace' /\ Apart' /\ \A b \in Actors : Spares(b)
<1>1. call' = call /\ OnePlace /\ Apart
  BY DEF Meddle, DInv
<1>2. ASSUME NEW b \in Actors
      PROVE  /\ CallOK(b) /\ DiskOK(b) /\ call'[b] = call[b]
             /\ Hands(b) \subseteq Spots
  <2>1. CallOK(b) /\ DiskOK(b)
    BY DEF IInv, DInv
  <2> QED
    BY <1>1, <2>1 DEF CallOK, KnowsItem, Hands, Locked, Renaming
<1>3. ASSUME NEW b \in Actors, Ages, dirAt' = dirAt,
             \A s \in Hands(b) : entry'[s] = entry[s],
             \A s \in Hands(b) : IsObject(s) => stamp'[entry[s]] = stamp[entry[s]]
      PROVE  Spares(b)
  <2>1. ASSUME call[b].pc \in Renaming, ~call[b].back
        PROVE  /\ entry'[call[b].from] = entry[call[b].from]
               /\ stamp'[call[b].expect.object] = stamp[call[b].expect.object]
               /\ call[b].from[1] # dirAt'["home"]
    <3>1. call[b].from \in Hands(b)
      BY <2>1 DEF Hands
    <3>2. /\ entry[call[b].from] = call[b].expect.object
          /\ call[b].expect \in Identity /\ call[b].from[1] # dirAt["home"]
      BY <1>2, <2>1 DEF DiskOK, Targeted, Vouched
    <3>3. IsObject(call[b].from)
      BY <3>2 DEF IsObject, Identity
    <3> QED
      BY <1>3, <3>1, <3>2, <3>3
  <2>2. call[b].pc \in {"reserved", "replace"} => entry'[call[b].to] = entry[call[b].to]
    BY <1>3 DEF Hands
  <2> QED
    BY <1>2, <1>3, <2>1, <2>2 DEF Spares
<1>4. CASE Appear
  <2>1. PICK o \in Objects, s \in Spots :
          /\ Absent(o) /\ ~InWindow(s) /\ entry[s] \in {Nothing, Stub}
          /\ entry' = [entry EXCEPT ![s] = o]
          /\ stamp' = [stamp EXCEPT ![o] = @ + 1]
          /\ content' = [content EXCEPT ![o] = @ + 1]
          /\ UNCHANGED <<dirAt, rename>>
    BY <1>4 DEF Appear
  <2>2. /\ entry'[s] = o /\ \A t \in Spots \ {s} : entry'[t] = entry[t]
        /\ stamp'[o] = stamp[o] + 1 /\ content'[o] = content[o] + 1
        /\ \A e \in Objects \ {o} : stamp'[e] = stamp[e] /\ content'[e] = content[e]
        /\ \A e \in Objects : stamp[e] \in Nat
    BY <2>1 DEF Typed, DiskTyped
  <2>3. Ages
    BY <2>2 DEF Ages
  <2>4. OnePlace'
    BY <1>1, <2>1, <2>2 DEF OnePlace, IsObject, Absent, Holds
  <2>5. ASSUME NEW b \in Actors PROVE Spares(b)
    <3>1. s \notin Hands(b) /\ Hands(b) \subseteq Spots
      BY <1>2, <2>1, OutOfHand
    <3>2. \A t \in Hands(b) : entry'[t] = entry[t] /\ entry[t] # o
      BY <2>1, <2>2, <3>1 DEF Absent, Holds
    <3> QED
      BY <1>3, <2>1, <2>2, <2>3, <3>2 DEF IsObject
  <2> QED
    BY <1>1, <2>1, <2>4, <2>5 DEF Apart
<1>5. CASE Vanish
  <2>1. PICK s \in Spots : IsObject(s) /\ ~InWindow(s) /\ Unlink(s)
    BY <1>5 DEF Vanish
  <2>2. /\ entry'[s] = Nothing /\ \A t \in Spots \ {s} : entry'[t] = entry[t]
        /\ stamp' = stamp /\ content' = content /\ dirAt' = dirAt
    BY <2>1 DEF Typed, DiskTyped, Unlink
  <2>3. Ages
    BY <2>2 DEF Ages, Typed, DiskTyped
  <2>4. OnePlace'
    BY <1>1, <2>2, HistoryAssumption DEF OnePlace, IsObject
  <2>5. ASSUME NEW b \in Actors PROVE Spares(b)
    <3>1. s \notin Hands(b) /\ Hands(b) \subseteq Spots
      BY <1>2, <2>1, OutOfHand
    <3> QED
      BY <1>3, <2>2, <2>3, <3>1
  <2> QED
    BY <1>1, <2>2, <2>4, <2>5 DEF Apart
<1>6. CASE Shift
  <2>1. PICK s \in Spots, t \in Spots :
          /\ IsObject(s) /\ Holds(t, Nothing) /\ ~InWindow(s) /\ ~InWindow(t)
          /\ Rename(s, t)
    BY <1>6 DEF Shift
  <2>2. ~IsObject(t)
    BY <2>1, HistoryAssumption DEF IsObject, Holds
  <2>3. /\ OnePlace' /\ Ages
        /\ \A x \in Spots \ {s, t} : entry'[x] = entry[x]
        /\ \A o \in Objects : o # entry[s] => stamp'[o] = stamp[o]
    BY <1>1, <2>1, <2>2, ObjectMoves
  <2>4. dirAt' = dirAt
    BY <2>1 DEF Rename
  <2>5. ASSUME NEW b \in Actors PROVE Spares(b)
    <3>1. s \notin Hands(b) /\ t \notin Hands(b) /\ Hands(b) \subseteq Spots
      BY <1>2, <2>1, OutOfHand
    <3>2. \A x \in Hands(b) : IsObject(x) => entry[x] # entry[s]
      BY <1>1, <2>1, <3>1 DEF OnePlace
    <3> QED
      BY <1>3, <2>3, <2>4, <3>1, <3>2 DEF IsObject
  <2> QED
    BY <1>1, <2>3, <2>4, <2>5 DEF Apart
<1>7. CASE Edit
  <2>1. PICK o \in Objects :
          /\ \A s \in Spots : Holds(s, o) => ~InWindow(s)
          /\ stamp' = [stamp EXCEPT ![o] = @ + 1]
          /\ content' = [content EXCEPT ![o] = @ + 1]
          /\ UNCHANGED <<entry, dirAt, rename>>
    BY <1>7 DEF Edit
  <2>2. /\ stamp'[o] = stamp[o] + 1 /\ content'[o] = content[o] + 1
        /\ \A e \in Objects \ {o} : stamp'[e] = stamp[e] /\ content'[e] = content[e]
        /\ \A e \in Objects : stamp[e] \in Nat
    BY <2>1 DEF Typed, DiskTyped
  <2>3. Ages
    BY <2>2 DEF Ages
  <2>4. OnePlace'
    BY <1>1, <2>1 DEF OnePlace, IsObject
  <2>5. ASSUME NEW b \in Actors PROVE Spares(b)
    <3>1. Hands(b) \subseteq Spots
      BY <1>2
    <3>2. \A x \in Hands(b) : entry[x] # o
      BY <2>1, <3>1, OutOfHand DEF Holds
    <3> QED
      BY <1>3, <2>1, <2>2, <2>3, <3>2 DEF IsObject
  <2> QED
    BY <1>1, <2>1, <2>4, <2>5 DEF Apart
<1>8. CASE SwapDirectory
  <2>1. PICK f \in {"home", "trash"}, d \in Dirs :
          /\ d \notin {dirAt["home"], dirAt["trash"]}
          /\ \A n \in Names : Holds(<<d, n>>, Nothing)
          /\ dirAt' = [dirAt EXCEPT ![f] = d]
          /\ UNCHANGED <<entry, stamp, content, rename>>
    BY <1>8 DEF SwapDirectory
  <2>2. dirAt'["home"] \in {dirAt["home"], d} /\ dirAt'["home"] # dirAt'["trash"]
    BY <1>1, <2>1 DEF Typed, DiskTyped, Apart
  <2>3. Ages /\ OnePlace'
    BY <1>1, <2>1 DEF Ages, OnePlace, IsObject, Typed, DiskTyped
  <2>4. ASSUME NEW b \in Actors PROVE Spares(b)
    <3>1. ASSUME call[b].pc \in Renaming, ~call[b].back
          PROVE  call[b].from[1] # dirAt'["home"]
      <4>1. /\ entry[call[b].from] = call[b].expect.object
            /\ call[b].expect \in Identity /\ call[b].from[1] # dirAt["home"]
        BY <1>2, <3>1 DEF DiskOK, Targeted, Vouched
      <4>2. call[b].from \in Spots /\ entry[call[b].from] \in Objects
        BY <1>2, <3>1, <4>1 DEF Hands, Identity
      <4>3. call[b].from[1] # d
        BY <2>1, <4>2, HistoryAssumption DEF Spots, Holds
      <4> QED
        BY <2>2, <4>1, <4>3
    <3> QED
      BY <1>2, <2>1, <2>3, <3>1 DEF Spares
  <2> QED
    BY <2>2, <2>3, <2>4 DEF Apart
<1> QED
  BY <1>4, <1>5, <1>6, <1>7, <1>8 DEF Meddle

LEMMA MachineDisk ==
  ASSUME Closed, Typed, IInv, DInv, Meddle
  PROVE  DInv'
<1>1. Typed'
  BY MeddleStep
<1>2. \A b \in Actors : DiskOK(b)'
  BY <1>1, MachineSpares, SparedCall DEF DInv
<1> QED
  BY <1>2, MachineSpares DEF DInv

\* Nothing is in hand when the first call begins.
LEMMA InitDisk == Init => DInv
<1> SUFFICES ASSUME Init PROVE DInv
  OBVIOUS
<1>1. PICK at \in [Paths -> Objects \cup {Nothing}] :
      \E gone \in {{}, {p \in Paths : at[p] # Nothing}} :
        /\ \A p, q \in Paths : at[p] # Nothing /\ at[p] = at[q] => p = q
        /\ entry = [s \in Spots |->
                      LET p == s[2][1]
                      IN  IF s[2][2] = 0 /\ s[1] = (IF p \in gone THEN 2 ELSE 1)
                            THEN at[p] ELSE Nothing]
  BY DEF Init
<1>2. OnePlace
  BY <1>1, HistoryAssumption DEF OnePlace, IsObject, Spots, Names
<1>3. Apart
  BY DEF Init, Apart
<1>4. \A a \in Actors : DiskOK(a)
  BY DEF Init, DiskOK, Vouched, Targeted, StubHeld, NoCall, Renaming
<1> QED
  BY <1>2, <1>3, <1>4 DEF DInv

-----------------------------------------------------------------------------
(* The theorems about the disk *)

\* The inductive invariant with what it says of the disk.
LEMMA DiskInvariant ==
  ASSUME Closed
  PROVE  Spec => [](Typed /\ IInv /\ DInv)
<1>1. Init => Typed /\ IInv /\ DInv
  BY InitOK, InitDisk
<1>2. Typed /\ IInv /\ DInv /\ [Next]_vars => (Typed /\ IInv /\ DInv)'
  <2> SUFFICES ASSUME Typed, IInv, DInv, [Next]_vars
               PROVE  Typed' /\ IInv' /\ DInv'
    OBVIOUS
  <2>1. CASE UNCHANGED vars
    <3>1. /\ Typed' /\ \A a \in Actors : CallOK(a)'
          /\ ValidStore(journal') /\ Numbered'
      <4>1. UNCHANGED <<disk, journal, lock, lastId, call, requests, meddles>>
        BY <2>1 DEF vars, disk
      <4>2. ASSUME NEW a \in Actors PROVE CallOK(a)'
        BY <4>1 DEF IInv, CallOK, HoldsLock, KnowsItem, KnowsMoved, Current
      <4> QED
        BY <4>1, <4>2 DEF Typed, DiskTyped, disk, IInv, Numbered
    <3>2. UNCHANGED disk /\ call' = call
      BY <2>1 DEF vars, disk
    <3>3. OnePlace' /\ Apart'
      BY <3>2, StillStep DEF DInv, Apart, disk
    <3>4. \A a \in Actors : DiskOK(a)'
      BY <3>1, <3>2, DiskAlone, SparedCall DEF DInv
    <3> QED
      BY <3>1, <3>3, <3>4 DEF IInv, DInv
  <2>2. CASE Meddle
    BY <2>2, MeddleStep, MachineDisk
  <2>3. CASE \E a \in Actors : Ask(a) \/ Work(a) \/ Crash(a)
    BY <2>3, ActorStep, ActorDisk
  <2> QED
    BY <2>1, <2>2, <2>3 DEF Next
<1> QED
  BY <1>1, <1>2, PTL DEF Spec

\* No step of the program takes the last name of an object: a restore never
\* puts one on top of another, a rollback included, nor does a removal, as long
\* as nobody else acts in the windows.
THEOREM RestoreLosesNothing ==
  ASSUME Closed
  PROVE  Spec => NothingLost
<1> DEFINE A == meddles' = meddles => Present \subseteq Present'
<1>1. Typed /\ IInv /\ DInv /\ [Next]_vars => [A]_vars
  <2> SUFFICES ASSUME Typed, IInv, DInv, Next, meddles' = meddles
               PROVE  Present \subseteq Present'
    OBVIOUS
  <2>1. ~Meddle
    BY DEF Meddle, Typed
  <2> QED
    BY <2>1, ActorDisk DEF Next
<1> QED
  BY <1>1, DiskInvariant, PTL DEF Spec, NothingLost

\* What a restore publishes is the recorded object, with the recorded content,
\* in whatever order other instances, removals and other programs act between
\* the record, the checks and the rename.
THEOREM RestoreIsRecorded ==
  ASSUME Closed
  PROVE  Spec => RestoresRecorded
<1> DEFINE A == \A a \in Actors :
                  call[a].pc \in Renaming /\ call'[a].pc = "parents" =>
                    HasProof(Current(a)) /\ Matches(Current(a), entry[call[a].from])
<1>1. Typed /\ IInv /\ DInv /\ [Next]_vars => [A]_vars
  <2> SUFFICES ASSUME Typed, IInv, DInv, Next, NEW a \in Actors,
                      call[a].pc \in Renaming, call'[a].pc = "parents"
               PROVE  HasProof(Current(a)) /\ Matches(Current(a), entry[call[a].from])
    OBVIOUS
  <2>1. CallOK(a) /\ DiskOK(a)
    BY DEF IInv, DInv
  <2>2. HasProof(Current(a))
    BY <2>1 DEF CallOK, KnowsItem, Locked, Renaming
  <2>3. ~call[a].back
    <3>1. call'[a] # call[a]
      BY DEF Renaming
    <3>2. Ask(a) \/ Work(a) \/ Crash(a)
      <4>1. ~Meddle
        BY <3>1 DEF Meddle
      <4>2. PICK b \in Actors : Ask(b) \/ Work(b) \/ Crash(b)
        BY <4>1 DEF Next
      <4>3. \A c \in Actors \ {b} : call'[c] = call[c]
        BY <4>2, OthersAlone DEF Alone
      <4> QED
        BY <3>1, <4>2, <4>3
    <3>3. Work(a)
      BY <3>2, LeftIdle DEF Ask, AskRemove, AskRestore, AskRestoreAll, Ready, At, Renaming
    <3>4. \/ RenameExclusive(a) \/ Reserve(a) \/ CheckReserved(a) \/ Replace(a)
      BY <3>3 DEF Work, Move, MoveFails, Moved, Locate, Identify, EnterAppend,
         AppendOperation, AppendFails, Preflight, PreflightDone, Unlisted,
         EnterRestore, Pin, ReadDigest, ChooseName, Recheck, CheckParents,
         WriteRestored, WriteFails, At, Renaming
    <3>5. ~Leave(a)
      BY LeftIdle
    <3>6. call[a] \in Calls
      BY DEF Typed
    <3>7. ~Go(a, "reserved") /\ ~Go(a, "replace")
      BY <3>6 DEF Go, Typed, Calls
    <3> QED
      BY <3>4, <3>5, <3>7
         DEF RenameExclusive, Reserve, CheckReserved, Replace, Publish
  <2> DEFINE id == call[a].expect
             item == Current(a)
  <2>4. /\ id \in Identity /\ id.stamp = stamp[id.object]
        /\ entry[call[a].from] = id.object
        /\ item.id # Nothing => item.id = id
        /\ item.digest # Nothing => content[id.object] = item.digest
    BY <2>1, <2>3 DEF DiskOK, Vouched, Targeted
  <2>5. id = Id(id.object)
    BY <2>4 DEF Id, Identity
  <2> QED
    BY <2>2, <2>4, <2>5 DEF Matches
<1> QED
  BY <1>1, DiskInvariant, PTL DEF Spec, RestoresRecorded
=============================================================================
