------------------------- MODULE SessionStoreProofs -------------------------
(***************************************************************************)
(* The store of sessions, for any number of instances, sessions and kills. *)
(***************************************************************************)
EXTENDS SessionStore, FiniteSums

-----------------------------------------------------------------------------
(* The inductive invariant *)

\* Where the actor holds an id it is about to remove or to complete, and where
\* the payload of that id has been removed.
Aiming == Sidecars \cup {"delete", "undo", "migrate"}

\* The critical section has one actor at most.
LockHeld ==
  \A a \in Actors : pc[a] \in Publishing \cup Pruning \cup Compacting => lock = a

\* Every save that waits will find a name.
Room == clock + Cardinality({b \in Actors : pc[b] = "waitSave"}) <= MaxNs

\* Nobody knows a name that was not given yet.
Known ==
  /\ payload \subseteq 1..clock
  /\ \A a \in Actors : /\ own[a] <= clock /\ victim[a] <= clock
                       /\ todo[a] \subseteq 1..clock

Distinct == \A a, b \in Actors : (own[a] = own[b] /\ a # b) => own[a] = NoId

\* Until its payload is there, nobody but its writer knows a session.
Unpublished ==
  \A a \in Actors : pc[a] \in Publishing =>
    /\ own[a] # NoId /\ own[a] \notin payload
    /\ \A b \in Actors : own[a] \notin todo[b] /\ own[a] # victim[b]

Ready == \A a \in Actors : pc[a] = "payload" => own[a] \in meta

Aimed == \A a \in Actors : pc[a] \in Aiming => victim[a] # NoId

\* The sidecar is next only when the payload is gone, or was refused.
HalfGone ==
  \A a \in Actors : pc[a] \in Sidecars =>
    victim[a] \notin payload \/ victim[a] \in spared[a]

Undone ==
  \A a \in Actors : pc[a] = "undo" => victim[a] = own[a] /\ own[a] \notin payload

\* What a pruning or a compaction has left to remove spares the preserved.
Spared ==
  \A a \in Actors : pc[a] \in {"prune", "pruneMeta", "drop", "dropMeta"} =>
    todo[a] \cap preserve[a] = {}

\* A session newer than all a compaction will remove stays.
NewerStays ==
  \A a \in Actors : (pc[a] \in {"drop", "dropMeta"} /\ ~disturbed[a] /\ todo[a] # {}) =>
    \E newer \in payload \ todo[a] : \A id \in todo[a] : id < newer

\* What a pruning may leave behind.
Exempt(a) == preserve[a] \cup spared[a]

\* What the pruning by bytes has passed although it did not go.
Passed(a) == (spared[a] \ preserve[a]) \ todo[a]

\* The pruning by count, done or to do.
CountKeptAt(a) ==
  /\ pc[a] \in {"prune", "pruneMeta"} =>
       Cardinality((payload \ Exempt(a)) \ todo[a]) <= Keep
  /\ pc[a] \in {"bytesList", "bytesSum", "bytes", "bytesMeta", "return"} =>
       Cardinality(payload \ Exempt(a)) <= Keep

CountKept == \A a \in Actors : CountKeptAt(a)

\* The running total never falls short of what is still to be looked at ...
Enough ==
  \A a \in Actors : pc[a] \in {"bytes", "bytesMeta"} => SumOver(size, todo[a]) <= total[a]

\* ... and is exact unless somebody deletes meanwhile.
BytesKeptAt(a) ==
  ~disturbed[a] =>
    /\ pc[a] = "bytesSum" => todo[a] = payload
    /\ pc[a] \in {"bytes", "bytesMeta"} =>
         /\ total[a] = SumOver(size, payload \ Passed(a))
         /\ todo[a] \subseteq payload /\ payload \subseteq todo[a] \cup Exempt(a)
    /\ pc[a] = "return" =>
         \/ SumOver(size, payload \ spared[a]) <= MaxBytes
         \/ payload \subseteq Exempt(a)

BytesKept == \A a \in Actors : BytesKeptAt(a)

Inv ==
  /\ TypeOK
  /\ LockHeld /\ Room /\ Known /\ Distinct
  /\ Unpublished /\ Ready /\ Aimed /\ HalfGone /\ Undone
  /\ Spared /\ NewerStays /\ CountKept /\ Enough /\ BytesKept

-----------------------------------------------------------------------------
(* Ids, and the operators on sets of them *)

USE StoreAssumption DEF Ids, NoId

\* The names of sessions are finitely many, and so is every set of them.
LEMMA IdsFinite == \A S \in SUBSET Ids : IsFiniteSet(S) /\ Cardinality(S) \in Nat
<1> SUFFICES ASSUME NEW S \in SUBSET Ids
             PROVE  IsFiniteSet(S) /\ Cardinality(S) \in Nat
  OBVIOUS
<1>1. IsFiniteSet(1..MaxNs)
  BY FS_Interval
<1>2. IsFiniteSet(S)
  BY <1>1, FS_Subset
<1> QED
  BY <1>2, FS_CardinalityType

\* What the pruning takes next is the oldest of what it has left.
LEMMA OldestIn ==
  ASSUME NEW S \in SUBSET Ids, S # {}
  PROVE  Oldest(S) \in S /\ \A id \in S : Oldest(S) <= id
<1>1. S \in SUBSET Nat
  OBVIOUS
<1>2. \E n \in S : \A m \in S : n <= m
  BY <1>1, HasLeast
<1> QED
  BY <1>2 DEF Oldest

\* A set of sessions that is not empty has a newest one.
LEMMA NewestIn ==
  ASSUME NEW S \in SUBSET Ids, S # {}
  PROVE  \E id \in Newest(S) : id \in S /\ \A other \in S : id >= other
<1>1. S \in SUBSET Nat /\ \A n \in S : n <= MaxNs
  OBVIOUS
<1>2. PICK n \in S : \A m \in S : m <= n
  BY <1>1, HasGreatest
<1>3. n \in Newest(S)
  BY <1>1, <1>2 DEF Newest
<1> QED
  BY <1>1, <1>2, <1>3

\* Retention by count leaves Keep sessions or fewer.
LEMMA KeepStay ==
  ASSUME NEW S \in SUBSET Ids
  PROVE  Cardinality(S \ BeyondCount(S)) <= Keep
<1> DEFINE Above(n) == {other \in S : other > n}
           Rest == S \ BeyondCount(S)
<1>1. \A n \in S : n \in Rest => ~ (Cardinality(Above(n)) >= Keep)
  BY DEF BeyondCount
<1>2. CASE Rest = {}
  BY <1>2, FS_EmptySet
<1>3. CASE Rest # {}
  <2>a. Rest \subseteq S
    OBVIOUS
  <2> HIDE DEF Rest
  <2>1. Rest \in SUBSET Nat /\ Rest \in SUBSET Ids
    BY <2>a
  <2>2. PICK n \in Rest : \A m \in Rest : n <= m
    BY <1>3, <2>1, HasLeast
  <2>3. n \in S /\ n \in Nat
    BY <2>1 DEF Rest
  <2>4. Above(n) \in SUBSET Ids
    OBVIOUS
  <2>5. Rest \subseteq Above(n) \cup {n}
    BY <2>1, <2>2 DEF Rest
  <2>6. ~ (Cardinality(Above(n)) >= Keep)
    BY <1>1, <2>3
  <2> DEFINE T == Above(n)
  <2>7. IsFiniteSet(T) /\ Cardinality(T) \in Nat
    BY <2>4, IdsFinite
  <2>8. Rest \in SUBSET (T \cup {n}) /\ Cardinality(T) < Keep
    BY <2>5, <2>6, <2>7
  <2> HIDE DEF T
  <2>9. IsFiniteSet(T \cup {n}) /\ Cardinality(T \cup {n}) <= Cardinality(T) + 1
    <3>1. /\ IsFiniteSet(T \cup {n})
          /\ Cardinality(T \cup {n}) = IF n \in T THEN Cardinality(T)
                                      ELSE Cardinality(T) + 1
      BY <2>7, FS_AddElement, Zenon
    <3> QED
      BY <2>7, <3>1
  <2>10. Cardinality(Rest) <= Cardinality(T \cup {n})
    BY <2>8, <2>9, FS_Subset
  <2>11. Cardinality(Rest) \in Nat /\ Cardinality(T \cup {n}) \in Nat
    BY <2>1, <2>9, IdsFinite, FS_CardinalityType
  <2>12. Cardinality(Rest) <= Keep
    BY <2>7, <2>8, <2>9, <2>10, <2>11
  <2> QED
    BY <2>12 DEF Rest
<1> QED
  BY <1>2, <1>3

\* Fewer sessions, or the same, are no more.
LEMMA SmallerStill ==
  ASSUME NEW S \in SUBSET Ids, NEW T \in SUBSET S, Cardinality(S) <= Keep
  PROVE  Cardinality(T) <= Keep
<1>1. IsFiniteSet(S) /\ Cardinality(S) \in Nat
  BY IdsFinite
<1>2. Cardinality(T) <= Cardinality(S) /\ Cardinality(T) \in Nat
  BY <1>1, FS_Subset, IdsFinite
<1> QED
  BY <1>1, <1>2

\* A compaction's plan is of stored sessions, none of them preserved, and one
\* that it leaves is newer than all of them.
LEMMA DoomedSpares ==
  ASSUME TypeOK, NEW a \in Actors, NEW aged \in SUBSET payload
  PROVE  /\ Doomed(a, aged) \subseteq payload
         /\ Doomed(a, aged) \cap preserve[a] = {}
         /\ Doomed(a, aged) # {} => \E newer \in payload \ Doomed(a, aged) :
                                       \A id \in Doomed(a, aged) : id < newer
<1> DEFINE D == Doomed(a, aged)
<1>1. D \subseteq payload /\ D \cap preserve[a] = {} /\ D \cap Newest(payload) = {}
  BY DEF Doomed, BeyondBytes
<1>2. ASSUME D # {} PROVE \E newer \in payload \ D : \A id \in D : id < newer
  <2> HIDE DEF D
  <2>1. payload \in SUBSET Ids /\ payload # {}
    BY <1>1, <1>2 DEF TypeOK
  <2>2. PICK newer \in Newest(payload) :
          newer \in payload /\ \A other \in payload : newer >= other
    BY <2>1, NewestIn
  <2>3. newer \notin D
    BY <1>1, <2>2
  <2>4. \A id \in D : id < newer
    BY <1>1, <2>1, <2>2, <2>3
  <2> QED
    BY <2>2, <2>3, <2>4
<1> QED
  BY <1>1, <1>2

-----------------------------------------------------------------------------
(* The bytes of a set of sessions *)

\* The bytes of the model are the sum the lemmas of FiniteSums are about.
LEMMA BytesIsSum == \A S : Bytes(S) = SumOver(size, S)
BY DEF Bytes, SumOver

\* Every session has a size, the ones not stored have the size 0.
LEMMA SizesNat ==
  ASSUME TypeOK
  PROVE  \A S \in SUBSET Ids : IsFiniteSet(S) /\ \A id \in S : size[id] \in Nat
<1>1. \A id \in Ids : size[id] \in Nat
  <2>1. size \in [Ids -> Sizes \cup {0}] /\ Sizes \cup {0} \subseteq Nat
    BY DEF TypeOK
  <2> HIDE DEF Ids
  <2> QED
    BY <2>1
<1> QED
  BY <1>1, IdsFinite

\* The bytes of a set of sessions are a number.
LEMMA BytesNat ==
  ASSUME TypeOK, NEW S \in SUBSET Ids
  PROVE  Bytes(S) \in Nat
BY SizesNat, SumIsNat, BytesIsSum

\* The bytes of a set are those of one session and those of the others.
LEMMA BytesWithout ==
  ASSUME TypeOK, NEW S \in SUBSET Ids, NEW id \in S
  PROVE  /\ size[id] \in Nat /\ Bytes(S \ {id}) \in Nat
         /\ Bytes(S) = size[id] + Bytes(S \ {id})
<1>1. IsFiniteSet(S) /\ \A x \in S : size[x] \in Nat
  BY SizesNat
<1>2. SumOver(size, S) = size[id] + SumOver(size, S \ {id})
  <2> HIDE StoreAssumption DEF Ids, NoId
  <2> QED
    BY <1>1, SumWithout
<1> QED
  BY <1>1, <1>2, BytesIsSum, BytesNat

\* The bytes of sessions whose sizes stay as they are stay as they are ...
LEMMA BytesSame ==
  ASSUME TypeOK, NEW S \in SUBSET Ids, \A id \in S : size'[id] = size[id]
  PROVE  SumOver(size', S) = Bytes(S)
<1>1. IsFiniteSet(S) /\ \A id \in S : size[id] \in Nat
  BY SizesNat
<1>2. \A id \in S : size[id] \in Nat /\ size'[id] = size[id]
  BY <1>1
<1>3. SumOver(size, S) = SumOver(size', S)
  <2> HIDE StoreAssumption DEF Ids, NoId
  <2> QED
    BY <1>1, <1>2, SumCongruent
<1> QED
  BY <1>3, BytesIsSum

\* ... and no removal makes a sum greater.
LEMMA BytesShrink ==
  ASSUME TypeOK, NEW S \in SUBSET Ids,
         \A id \in S : size'[id] = size[id] \/ size'[id] = 0
  PROVE  SumOver(size', S) \in Nat /\ SumOver(size', S) <= Bytes(S)
<1>1. IsFiniteSet(S) /\ \A id \in S : size[id] \in Nat
  BY SizesNat
<1>2. \A id \in S : size[id] \in Nat /\ size'[id] \in Nat /\ size'[id] <= size[id]
  BY <1>1
<1>3. SumOver(size', S) <= SumOver(size, S) /\ SumOver(size', S) \in Nat
  <2> HIDE StoreAssumption DEF Ids, NoId
  <2> QED
    BY <1>1, <1>2, SumMonotone, SumIsNat
<1> QED
  BY <1>3, BytesIsSum

-----------------------------------------------------------------------------
(* The steps, in groups *)

Publishes(a) ==
  \/ EnterSave(a)
  \/ WriteMeta(a)
  \/ \E bytes \in Sizes : WritePayload(a, bytes)
  \/ WriteFails(a)

Plans(a) ==
  \/ PruneList(a)
  \/ CountDone(a)
  \/ BytesList(a)
  \/ BytesSum(a)
  \/ BytesDone(a)
  \/ \E aged \in SUBSET Ids : EnterCompact(a, aged)

Removes(a) ==
  \/ RemoveNext(a)
  \/ RemoveSidecar(a)
  \/ BytesNext(a)
  \/ DeletePayload(a)
  \/ UndoPayload(a)

Lists(a) ==
  \/ \E id \in Ids : ListName(a, id)
  \/ Migrate(a)
  \/ ListDone(a)

Ends(a) ==
  \/ Return(a)
  \/ CompactDone(a)
  \/ Crash(a)

\* Every step is a stutter or a step of one of six groups of actions.
LEMMA Steps ==
  ASSUME [Next]_vars
  PROVE  \/ UNCHANGED vars
         \/ \E a \in Actors : \/ UserAsks(a) \/ Publishes(a) \/ Plans(a)
                             \/ Removes(a) \/ Lists(a) \/ Ends(a)
BY DEF Next, Works, Publishes, Plans, Removes, Lists, Ends

USE DEF Go, files, locals, user, failed, vars

\* What becomes of a payload that is to be removed: it goes, or it is refused and
\* the operation has one session more that it failed to remove.
PayloadHalf(a, id) ==
  \/ /\ payload' = payload \ {id} /\ size' = [size EXCEPT ![id] = 0]
     /\ legacy' = legacy \ {id} /\ meta' = meta
     /\ spared' = spared /\ faults' = faults
  \/ /\ id \in payload /\ payload' = payload /\ size' = size
     /\ legacy' = legacy /\ meta' = meta
     /\ spared' = [spared EXCEPT ![a] = spared[a] \cup {id}]
     /\ faults' = faults + 1 /\ faults < MaxFaults

\* The first half of a removal does one of the two.
LEMMA HalfEffect ==
  ASSUME TypeOK, NEW a \in Actors, NEW id, RemoveHalf(id, "payload"), Spare(a, id)
  PROVE  PayloadHalf(a, id)
<1>0. spared \in [Actors -> SUBSET Ids]
  BY DEF TypeOK
<1>1. CASE Gone(id, "payload") /\ UNCHANGED faults
  <2>1. {id} \cap payload' = {}
    BY <1>1 DEF Gone
  <2>2. spared' = spared
    BY <1>0, <2>1 DEF Spare
  <2> QED
    BY <1>1, <2>2 DEF Gone, PayloadHalf
<1>2. CASE Refused(id, "payload")
  <2>1. id \in payload /\ payload' = payload
    BY <1>2 DEF Refused
  <2>2. {id} \cap payload' = {id}
    BY <2>1
  <2>3. spared' = [spared EXCEPT ![a] = spared[a] \cup {id}]
    BY <2>2 DEF Spare
  <2> QED
    BY <1>2, <2>1, <2>3 DEF Refused, PayloadHalf
<1> QED
  BY <1>1, <1>2 DEF RemoveHalf

\* The two removals the lock protects, each of the oldest that is left.
LEMMA RemoveNextEffect ==
  ASSUME TypeOK, NEW a \in Actors, RemoveNext(a)
  PROVE  \E id \in todo[a] :
           /\ id \in Ids
           /\ PayloadHalf(a, id)
           /\ todo' = [todo EXCEPT ![a] = todo[a] \ {id}]
           /\ victim' = [victim EXCEPT ![a] = id]
           /\ UNCHANGED <<lock, clock, own, preserve, total, disturbed>>
           /\ \/ pc[a] = "prune" /\ pc' = [pc EXCEPT ![a] = "pruneMeta"]
              \/ pc[a] = "drop" /\ pc' = [pc EXCEPT ![a] = "dropMeta"]
<1> DEFINE id == Oldest(todo[a])
<1>1. todo[a] \in SUBSET Ids /\ todo[a] # {}
  BY DEF TypeOK, RemoveNext
<1>2. id \in todo[a] /\ id \in Ids
  BY <1>1, OldestIn
<1>3. /\ RemoveHalf(id, "payload") /\ Spare(a, id)
      /\ victim' = [victim EXCEPT ![a] = id]
      /\ todo' = [todo EXCEPT ![a] = todo[a] \ {id}]
  BY DEF RemoveNext
<1>4. /\ UNCHANGED <<lock, clock, own, preserve, total, disturbed>>
      /\ \/ pc[a] = "prune" /\ pc' = [pc EXCEPT ![a] = "pruneMeta"]
         \/ pc[a] = "drop" /\ pc' = [pc EXCEPT ![a] = "dropMeta"]
  BY DEF RemoveNext
<1> HIDE DEF id
<1>5. PayloadHalf(a, id)
  BY <1>3, HalfEffect
<1> QED
  BY <1>2, <1>3, <1>4, <1>5

\* The pruning by bytes drops the oldest of its list: it keeps the file and what
\* it counts, or removes the file and subtracts its bytes, gone or not.
LEMMA BytesNextEffect ==
  ASSUME TypeOK, NEW a \in Actors, BytesNext(a)
  PROVE  \E id \in todo[a] :
           /\ id \in Ids /\ pc[a] = "bytes" /\ total[a] > MaxBytes
           /\ todo' = [todo EXCEPT ![a] = todo[a] \ {id}]
           /\ UNCHANGED <<lock, clock, own, preserve, disturbed>>
           /\ \/ /\ id \in preserve[a]
                 /\ UNCHANGED <<files, failed, total, victim, pc>>
              \/ /\ id \notin preserve[a]
                 /\ PayloadHalf(a, id)
                 /\ total' = [total EXCEPT ![a] = total[a] - size[id]]
                 /\ victim' = [victim EXCEPT ![a] = id]
                 /\ pc' = [pc EXCEPT ![a] = "bytesMeta"]
<1> DEFINE id == Oldest(todo[a])
<1>1. todo[a] \in SUBSET Ids /\ todo[a] # {}
  BY DEF TypeOK, BytesNext
<1>2. id \in todo[a] /\ id \in Ids
  BY <1>1, OldestIn
<1>3. /\ pc[a] = "bytes" /\ total[a] > MaxBytes
      /\ todo' = [todo EXCEPT ![a] = todo[a] \ {id}]
      /\ UNCHANGED <<lock, clock, own, preserve, disturbed>>
  BY DEF BytesNext
<1>4. \/ /\ id \in preserve[a]
         /\ UNCHANGED <<files, failed, total, victim, pc>>
      \/ /\ id \notin preserve[a]
         /\ RemoveHalf(id, "payload") /\ Spare(a, id)
         /\ total' = [total EXCEPT ![a] = total[a] - size[id]]
         /\ victim' = [victim EXCEPT ![a] = id]
         /\ pc' = [pc EXCEPT ![a] = "bytesMeta"]
  BY DEF BytesNext
<1> HIDE DEF id
<1>5. (RemoveHalf(id, "payload") /\ Spare(a, id)) => PayloadHalf(a, id)
  BY HalfEffect
<1> QED
  BY <1>2, <1>3, <1>4, <1>5

\* The two it does not protect.
LEMMA UserPayloadEffect ==
  ASSUME TypeOK, NEW a \in Actors, DeletePayload(a) \/ UndoPayload(a)
  PROVE  /\ PayloadHalf(a, victim[a])
         /\ UNCHANGED <<lock, clock, own, preserve, total, victim, todo>>
         /\ UNCHANGED <<loaded, ops, crashes>>
         /\ \/ /\ pc[a] = "delete" /\ pc' = [pc EXCEPT ![a] = "deleteMeta"]
               /\ disturbed' = [b \in Actors |->
                                  disturbed[b] \/ (lock = b /\ payload' # payload)]
            \/ /\ pc[a] = "undo" /\ pc' = [pc EXCEPT ![a] = "undoMeta"]
               /\ disturbed' = disturbed
<1>1. CASE DeletePayload(a)
  BY <1>1, HalfEffect DEF DeletePayload
<1>2. CASE UndoPayload(a)
  BY <1>2, HalfEffect DEF UndoPayload
<1> QED
  BY <1>1, <1>2

\* The second half leaves the payloads alone.
LEMMA SidecarEffect ==
  ASSUME TypeOK, NEW a \in Actors, RemoveSidecar(a)
  PROVE  /\ pc[a] \in Sidecars /\ pc'[a] \notin Sidecars
         /\ UNCHANGED <<payload, size, legacy, lock, clock, own, preserve, todo, total>>
         /\ UNCHANGED user
         /\ meta' = meta \ {victim[a]} \/ meta' = meta
         /\ faults' \in 0..MaxFaults
         /\ victim' = [victim EXCEPT ![a] = NoId]
         /\ \E label \in {"prune", "drop", "bytes", "idle"} :
              /\ pc' = [pc EXCEPT ![a] = label]
              /\ label # "idle" => spared' = spared
              /\ label = "idle" => pc[a] \in {"deleteMeta", "undoMeta"}
              /\ label = "prune" => pc[a] = "pruneMeta"
              /\ label = "drop" => pc[a] = "dropMeta"
              /\ label = "bytes" => pc[a] = "bytesMeta"
         /\ spared' = spared \/ spared' = [spared EXCEPT ![a] = {}]
<1> USE DEF TypeOK
<1>1. /\ pc[a] \in Sidecars
      /\ UNCHANGED <<lock, clock, own, preserve, todo, total>> /\ UNCHANGED user
      /\ victim' = [victim EXCEPT ![a] = NoId]
  BY DEF RemoveSidecar
<1>2. /\ UNCHANGED <<payload, size, legacy>>
      /\ meta' = meta \ {victim[a]} \/ meta' = meta
      /\ faults' \in 0..MaxFaults
  BY DEF RemoveSidecar, RemoveHalf, Gone, Refused
<1>3. PICK label \in {"prune", "drop", "bytes", "idle"} :
         /\ pc' = [pc EXCEPT ![a] = label]
         /\ label = "idle" => pc[a] \in {"deleteMeta", "undoMeta"}
         /\ label = "prune" => pc[a] = "pruneMeta"
         /\ label = "drop" => pc[a] = "dropMeta"
         /\ label = "bytes" => pc[a] = "bytesMeta"
  BY <1>1 DEF RemoveSidecar, Sidecars
<1>4. pc'[a] = label
  BY <1>3
<1>5. /\ label # "idle" => spared' = spared
      /\ spared' = spared \/ spared' = [spared EXCEPT ![a] = {}]
  BY <1>4 DEF RemoveSidecar
<1> QED
  BY <1>1, <1>2, <1>3, <1>4, <1>5 DEF Sidecars

\* The lock is taken only when nobody has it, and given back only by its owner.
LEMMA StepLockHeld ==
  ASSUME TypeOK, LockHeld, [Next]_vars
  PROVE  LockHeld'
<1> USE DEF TypeOK, LockHeld, Publishing, Pruning, Compacting
<1>1. ASSUME NEW a \in Actors, UserAsks(a)
      PROVE  LockHeld'
  <2>1. ASSUME NEW id \in Ids, Open(a, id) PROVE LockHeld'
    BY <2>1 DEF Open, Ask
  <2>2. ASSUME NEW id \in Ids, Delete(a, id) PROVE LockHeld'
    BY <2>2 DEF Delete, Ask
  <2>3. ASSUME NEW kept \in SUBSET Ids, Save(a, kept) PROVE LockHeld'
    BY <2>3 DEF Save, Ask, Preserving
  <2>4. ASSUME NEW kept \in SUBSET Ids, Compact(a, kept) PROVE LockHeld'
    BY <2>4 DEF Compact, Ask, Preserving
  <2>5. ASSUME List(a) PROVE LockHeld'
    BY <2>5 DEF List, Ask
  <2> QED
    BY <1>1, <2>1, <2>2, <2>3, <2>4, <2>5 DEF UserAsks
<1>2. ASSUME NEW a \in Actors, Publishes(a)
      PROVE  LockHeld'
  BY <1>2 DEF Publishes, EnterSave, TakeLock, WriteMeta, WritePayload,
          WriteFails
<1>3. ASSUME NEW a \in Actors, Plans(a)
      PROVE  LockHeld'
  BY <1>3 DEF Plans, PruneList, CountDone, BytesList, BytesSum, BytesDone,
          EnterCompact, TakeLock
<1>4. ASSUME NEW a \in Actors, Removes(a)
      PROVE  LockHeld'
  BY <1>4 DEF Removes, RemoveNext, RemoveHalf, Gone, Refused, Spare, RemoveSidecar, BytesNext,
          DeletePayload, UndoPayload
<1>5. ASSUME NEW a \in Actors, Lists(a)
      PROVE  LockHeld'
  BY <1>5 DEF Lists, ListName, Migrate, ListDone
<1>6. ASSUME NEW a \in Actors, Ends(a)
      PROVE  LockHeld'
  BY <1>6 DEF Ends, Return, Forget, CompactDone, Crash
<1>7. CASE UNCHANGED vars
  BY <1>7
<1> QED
  BY <1>1, <1>2, <1>3, <1>4, <1>5, <1>6, <1>7, Steps

\* A name is known only after the clock gave it.
LEMMA StepKnown ==
  ASSUME TypeOK, Known, Unpublished, [Next]_vars
  PROVE  Known'
<1> USE DEF TypeOK, Known
<1>1. ASSUME NEW a \in Actors, UserAsks(a)
      PROVE  Known'
  <2>1. ASSUME NEW id \in Ids, Open(a, id) PROVE Known'
    BY <2>1 DEF Open, Ask
  <2>2. ASSUME NEW id \in Ids, Delete(a, id) PROVE Known'
    BY <2>2 DEF Delete, Ask
  <2>3. ASSUME NEW kept \in SUBSET Ids, Save(a, kept) PROVE Known'
    BY <2>3 DEF Save, Ask, Preserving
  <2>4. ASSUME NEW kept \in SUBSET Ids, Compact(a, kept) PROVE Known'
    BY <2>4 DEF Compact, Ask, Preserving
  <2>5. ASSUME List(a) PROVE Known'
    BY <2>5 DEF List, Ask
  <2> QED
    BY <1>1, <2>1, <2>2, <2>3, <2>4, <2>5 DEF UserAsks
<1>2. ASSUME NEW a \in Actors, Publishes(a)
      PROVE  Known'
  <2>1. ASSUME EnterSave(a) PROVE Known'
    <3>1. /\ payload' = payload /\ todo' = todo /\ victim' = victim
          /\ clock' = clock + 1 /\ own' = [own EXCEPT ![a] = clock + 1]
      BY <2>1 DEF EnterSave
    <3>2. clock \in Nat /\ \A b \in Actors : own[b] \in Nat /\ victim[b] \in Nat
      OBVIOUS
    <3> HIDE DEF Ids
    <3> QED
      BY <3>1, <3>2
  <2>2. ASSUME WriteMeta(a) PROVE Known'
    BY <2>2 DEF WriteMeta
  <2>3. ASSUME NEW bytes \in Sizes, WritePayload(a, bytes) PROVE Known'
    <3>1. own[a] \in 1..clock
      BY <2>3 DEF WritePayload, Unpublished, Publishing
    <3> QED
      BY <2>3, <3>1 DEF WritePayload
  <2>4. ASSUME WriteFails(a) PROVE Known'
    BY <2>4 DEF WriteFails
  <2> QED
    BY <1>2, <2>1, <2>2, <2>3, <2>4 DEF Publishes
<1>3. ASSUME NEW a \in Actors, Plans(a)
      PROVE  Known'
  <2>1. ASSUME PruneList(a) PROVE Known'
    BY <2>1 DEF PruneList, BeyondCount
  <2>2. ASSUME CountDone(a) PROVE Known'
    BY <2>2 DEF CountDone
  <2>3. ASSUME BytesList(a) PROVE Known'
    BY <2>3 DEF BytesList
  <2>4. ASSUME BytesSum(a) PROVE Known'
    BY <2>4 DEF BytesSum
  <2>5. ASSUME BytesDone(a) PROVE Known'
    BY <2>5 DEF BytesDone
  <2>6. ASSUME NEW aged \in SUBSET Ids, EnterCompact(a, aged) PROVE Known'
    <3>1. aged \in SUBSET payload
      BY <2>6 DEF EnterCompact
    <3>2. Doomed(a, aged) \subseteq payload
      BY <3>1, DoomedSpares
    <3> QED
      BY <2>6, <3>2 DEF EnterCompact, TakeLock
  <2> QED
    BY <1>3, <2>1, <2>2, <2>3, <2>4, <2>5, <2>6 DEF Plans
<1>4. ASSUME NEW a \in Actors, Removes(a)
      PROVE  Known'
  <2>1. ASSUME RemoveNext(a) PROVE Known'
    <3>1. PICK id \in todo[a] :
            /\ payload' \subseteq payload /\ clock' = clock /\ own' = own
            /\ todo' = [todo EXCEPT ![a] = todo[a] \ {id}]
            /\ victim' = victim \/ victim' = [victim EXCEPT ![a] = id]
      BY <2>1, RemoveNextEffect DEF PayloadHalf
    <3>2. id \in 1..clock
      OBVIOUS
    <3> HIDE DEF Ids
    <3> QED
      BY <3>1, <3>2
  <2>2. ASSUME RemoveSidecar(a) PROVE Known'
    BY <2>2 DEF RemoveSidecar, RemoveHalf, Gone, Refused, Spare
  <2>3. ASSUME BytesNext(a) PROVE Known'
    <3>1. PICK id \in todo[a] :
            /\ payload' \subseteq payload /\ clock' = clock /\ own' = own
            /\ todo' = [todo EXCEPT ![a] = todo[a] \ {id}]
            /\ victim' = victim \/ victim' = [victim EXCEPT ![a] = id]
      BY <2>3, BytesNextEffect DEF PayloadHalf
    <3>2. id \in 1..clock
      OBVIOUS
    <3> HIDE DEF Ids
    <3> QED
      BY <3>1, <3>2
  <2>4. ASSUME DeletePayload(a) PROVE Known'
    BY <2>4 DEF DeletePayload, RemoveHalf, Gone, Refused, Spare
  <2>5. ASSUME UndoPayload(a) PROVE Known'
    BY <2>5 DEF UndoPayload, RemoveHalf, Gone, Refused, Spare
  <2> QED
    BY <1>4, <2>1, <2>2, <2>3, <2>4, <2>5 DEF Removes
<1>5. ASSUME NEW a \in Actors, Lists(a)
      PROVE  Known'
  <2>1. ASSUME NEW id \in Ids, ListName(a, id) PROVE Known'
    BY <2>1 DEF ListName
  <2>2. ASSUME Migrate(a) PROVE Known'
    BY <2>2 DEF Migrate
  <2>3. ASSUME ListDone(a) PROVE Known'
    BY <2>3 DEF ListDone
  <2> QED
    BY <1>5, <2>1, <2>2, <2>3 DEF Lists
<1>6. ASSUME NEW a \in Actors, Ends(a)
      PROVE  Known'
  <2>1. ASSUME Return(a) PROVE Known'
    BY <2>1 DEF Return, Forget
  <2>2. ASSUME CompactDone(a) PROVE Known'
    BY <2>2 DEF CompactDone, Forget
  <2>3. ASSUME Crash(a) PROVE Known'
    BY <2>3 DEF Crash, Forget
  <2> QED
    BY <1>6, <2>1, <2>2, <2>3 DEF Ends
<1>7. CASE UNCHANGED vars
  BY <1>7
<1> QED
  BY <1>1, <1>2, <1>3, <1>4, <1>5, <1>6, <1>7, Steps

\* No two saves get one name.
LEMMA StepDistinct ==
  ASSUME TypeOK, Known, Distinct, [Next]_vars
  PROVE  Distinct'
<1> USE DEF TypeOK, Known, Distinct
<1>1. ASSUME NEW a \in Actors, UserAsks(a)
      PROVE  Distinct'
  BY <1>1 DEF UserAsks, Open, Ask, Delete, Save, Preserving, Compact, List
<1>2. ASSUME NEW a \in Actors, Publishes(a)
      PROVE  Distinct'
  <2>1. ASSUME EnterSave(a) PROVE Distinct'
    BY <2>1 DEF EnterSave, TakeLock
  <2>2. ASSUME WriteMeta(a) PROVE Distinct'
    BY <2>2 DEF WriteMeta
  <2>3. ASSUME NEW bytes \in Sizes, WritePayload(a, bytes) PROVE Distinct'
    BY <2>3 DEF WritePayload
  <2>4. ASSUME WriteFails(a) PROVE Distinct'
    BY <2>4 DEF WriteFails
  <2> QED
    BY <1>2, <2>1, <2>2, <2>3, <2>4 DEF Publishes
<1>3. ASSUME NEW a \in Actors, Plans(a)
      PROVE  Distinct'
  BY <1>3 DEF Plans, PruneList, CountDone, BytesList, BytesSum, BytesDone,
          EnterCompact, TakeLock
<1>4. ASSUME NEW a \in Actors, Removes(a)
      PROVE  Distinct'
  BY <1>4 DEF Removes, RemoveNext, RemoveHalf, Gone, Refused, Spare, RemoveSidecar, BytesNext,
          DeletePayload, UndoPayload
<1>5. ASSUME NEW a \in Actors, Lists(a)
      PROVE  Distinct'
  BY <1>5 DEF Lists, ListName, Migrate, ListDone
<1>6. ASSUME NEW a \in Actors, Ends(a)
      PROVE  Distinct'
  BY <1>6 DEF Ends, Return, Forget, CompactDone, Crash
<1>7. CASE UNCHANGED vars
  BY <1>7
<1> QED
  BY <1>1, <1>2, <1>3, <1>4, <1>5, <1>6, <1>7, Steps

\* Nobody learns of a session before its payload is in place.
LEMMA StepUnpublished ==
  ASSUME TypeOK, LockHeld, Known, Distinct, Unpublished, Undone, [Next]_vars
  PROVE  Unpublished'
<1> USE DEF TypeOK, LockHeld, Known, Distinct, Unpublished, Undone,
          Publishing, Pruning, Compacting
<1>1. ASSUME NEW a \in Actors, UserAsks(a)
      PROVE  Unpublished'
  <2>1. ASSUME NEW id \in Ids, Open(a, id) PROVE Unpublished'
    BY <2>1 DEF Open, Ask
  <2>2. ASSUME NEW id \in Ids, Delete(a, id) PROVE Unpublished'
    BY <2>2 DEF Delete, Ask
  <2>3. ASSUME NEW kept \in SUBSET Ids, Save(a, kept) PROVE Unpublished'
    BY <2>3 DEF Save, Ask, Preserving
  <2>4. ASSUME NEW kept \in SUBSET Ids, Compact(a, kept) PROVE Unpublished'
    BY <2>4 DEF Compact, Ask, Preserving
  <2>5. ASSUME List(a) PROVE Unpublished'
    BY <2>5 DEF List, Ask
  <2> QED
    BY <1>1, <2>1, <2>2, <2>3, <2>4, <2>5 DEF UserAsks
<1>2. ASSUME NEW a \in Actors, Publishes(a)
      PROVE  Unpublished'
  BY <1>2 DEF Publishes, EnterSave, TakeLock, WriteMeta, WritePayload,
          WriteFails
<1>3. ASSUME NEW a \in Actors, Plans(a)
      PROVE  Unpublished'
  BY <1>3 DEF Plans, PruneList, CountDone, BytesList, BytesSum, BytesDone,
          EnterCompact, TakeLock
<1>4. ASSUME NEW a \in Actors, Removes(a)
      PROVE  Unpublished'
  <2>1. ASSUME RemoveNext(a) PROVE Unpublished'
    BY <2>1 DEF RemoveNext, RemoveHalf, Gone, Refused, Spare
  <2>2. ASSUME RemoveSidecar(a) PROVE Unpublished'
    BY <2>2 DEF RemoveSidecar, RemoveHalf, Gone, Refused, Spare
  <2>3. ASSUME BytesNext(a) PROVE Unpublished'
    BY <2>3 DEF BytesNext, RemoveHalf, Gone, Refused, Spare
  <2>4. ASSUME DeletePayload(a) PROVE Unpublished'
    BY <2>4 DEF DeletePayload, RemoveHalf, Gone, Refused, Spare
  <2>5. ASSUME UndoPayload(a) PROVE Unpublished'
    BY <2>5 DEF UndoPayload, RemoveHalf, Gone, Refused, Spare
  <2> QED
    BY <1>4, <2>1, <2>2, <2>3, <2>4, <2>5 DEF Removes
<1>5. ASSUME NEW a \in Actors, Lists(a)
      PROVE  Unpublished'
  BY <1>5 DEF Lists, ListName, Migrate, ListDone
<1>6. ASSUME NEW a \in Actors, Ends(a)
      PROVE  Unpublished'
  <2>1. ASSUME Return(a) PROVE Unpublished'
    BY <2>1 DEF Return, Forget
  <2>2. ASSUME CompactDone(a) PROVE Unpublished'
    BY <2>2 DEF CompactDone, Forget
  <2>3. ASSUME Crash(a) PROVE Unpublished'
    BY <2>3 DEF Crash, Forget
  <2> QED
    BY <1>6, <2>1, <2>2, <2>3 DEF Ends
<1>7. CASE UNCHANGED vars
  BY <1>7
<1> QED
  BY <1>1, <1>2, <1>3, <1>4, <1>5, <1>6, <1>7, Steps

\* The sidecar of a save is in place when its payload is about to be.
LEMMA StepReady ==
  ASSUME TypeOK, Unpublished, Ready, [Next]_vars
  PROVE  Ready'
<1> USE DEF TypeOK, Ready, Unpublished, Publishing
<1>1. ASSUME NEW a \in Actors, UserAsks(a)
      PROVE  Ready'
  <2>1. ASSUME NEW id \in Ids, Open(a, id) PROVE Ready'
    BY <2>1 DEF Open, Ask
  <2>2. ASSUME NEW id \in Ids, Delete(a, id) PROVE Ready'
    BY <2>2 DEF Delete, Ask
  <2>3. ASSUME NEW kept \in SUBSET Ids, Save(a, kept) PROVE Ready'
    BY <2>3 DEF Save, Ask, Preserving
  <2>4. ASSUME NEW kept \in SUBSET Ids, Compact(a, kept) PROVE Ready'
    BY <2>4 DEF Compact, Ask, Preserving
  <2>5. ASSUME List(a) PROVE Ready'
    BY <2>5 DEF List, Ask
  <2> QED
    BY <1>1, <2>1, <2>2, <2>3, <2>4, <2>5 DEF UserAsks
<1>2. ASSUME NEW a \in Actors, Publishes(a)
      PROVE  Ready'
  BY <1>2 DEF Publishes, EnterSave, TakeLock, WriteMeta, WritePayload,
          WriteFails
<1>3. ASSUME NEW a \in Actors, Plans(a)
      PROVE  Ready'
  BY <1>3 DEF Plans, PruneList, CountDone, BytesList, BytesSum, BytesDone,
          EnterCompact, TakeLock
<1>4. ASSUME NEW a \in Actors, Removes(a)
      PROVE  Ready'
  BY <1>4 DEF Removes, RemoveNext, RemoveHalf, Gone, Refused, Spare, RemoveSidecar, BytesNext,
          DeletePayload, UndoPayload
<1>5. ASSUME NEW a \in Actors, Lists(a)
      PROVE  Ready'
  BY <1>5 DEF Lists, ListName, Migrate, ListDone
<1>6. ASSUME NEW a \in Actors, Ends(a)
      PROVE  Ready'
  BY <1>6 DEF Ends, Return, Forget, CompactDone, Crash
<1>7. CASE UNCHANGED vars
  BY <1>7
<1> QED
  BY <1>1, <1>2, <1>3, <1>4, <1>5, <1>6, <1>7, Steps

\* Whoever removes or completes a session holds its name.
LEMMA StepAimed ==
  ASSUME TypeOK, Unpublished, Aimed, [Next]_vars
  PROVE  Aimed'
<1> USE DEF TypeOK, Unpublished, Aimed, Aiming, Sidecars, Publishing
<1>1. ASSUME NEW a \in Actors, UserAsks(a)
      PROVE  Aimed'
  <2>1. ASSUME NEW id \in Ids, Open(a, id) PROVE Aimed'
    BY <2>1 DEF Open, Ask
  <2>2. ASSUME NEW id \in Ids, Delete(a, id) PROVE Aimed'
    BY <2>2 DEF Delete, Ask
  <2>3. ASSUME NEW kept \in SUBSET Ids, Save(a, kept) PROVE Aimed'
    BY <2>3 DEF Save, Ask, Preserving
  <2>4. ASSUME NEW kept \in SUBSET Ids, Compact(a, kept) PROVE Aimed'
    BY <2>4 DEF Compact, Ask, Preserving
  <2>5. ASSUME List(a) PROVE Aimed'
    BY <2>5 DEF List, Ask
  <2> QED
    BY <1>1, <2>1, <2>2, <2>3, <2>4, <2>5 DEF UserAsks
<1>2. ASSUME NEW a \in Actors, Publishes(a)
      PROVE  Aimed'
  BY <1>2 DEF Publishes, EnterSave, TakeLock, WriteMeta, WritePayload,
          WriteFails
<1>3. ASSUME NEW a \in Actors, Plans(a)
      PROVE  Aimed'
  BY <1>3 DEF Plans, PruneList, CountDone, BytesList, BytesSum, BytesDone,
          EnterCompact, TakeLock
<1>4. ASSUME NEW a \in Actors, Removes(a)
      PROVE  Aimed'
  <2>1. ASSUME RemoveNext(a) PROVE Aimed'
    <3>1. Oldest(todo[a]) \in todo[a] /\ todo[a] \in SUBSET Ids
      BY <2>1, OldestIn DEF RemoveNext
    <3> QED
      BY <2>1, <3>1 DEF RemoveNext, RemoveHalf, Gone, Refused, Spare
  <2>2. ASSUME RemoveSidecar(a) PROVE Aimed'
    BY <2>2 DEF RemoveSidecar, RemoveHalf, Gone, Refused, Spare
  <2>3. ASSUME BytesNext(a) PROVE Aimed'
    <3>1. Oldest(todo[a]) \in todo[a] /\ todo[a] \in SUBSET Ids
      BY <2>3, OldestIn DEF BytesNext
    <3> QED
      BY <2>3, <3>1 DEF BytesNext, RemoveHalf, Gone, Refused, Spare
  <2>4. ASSUME DeletePayload(a) PROVE Aimed'
    BY <2>4 DEF DeletePayload, RemoveHalf, Gone, Refused, Spare
  <2>5. ASSUME UndoPayload(a) PROVE Aimed'
    BY <2>5 DEF UndoPayload, RemoveHalf, Gone, Refused, Spare
  <2> QED
    BY <1>4, <2>1, <2>2, <2>3, <2>4, <2>5 DEF Removes
<1>5. ASSUME NEW a \in Actors, Lists(a)
      PROVE  Aimed'
  BY <1>5 DEF Lists, ListName, Migrate, ListDone
<1>6. ASSUME NEW a \in Actors, Ends(a)
      PROVE  Aimed'
  BY <1>6 DEF Ends, Return, Forget, CompactDone, Crash
<1>7. CASE UNCHANGED vars
  BY <1>7
<1> QED
  BY <1>1, <1>2, <1>3, <1>4, <1>5, <1>6, <1>7, Steps

\* A sidecar is removed only after the payload it describes.
LEMMA StepHalfGone ==
  ASSUME TypeOK, LockHeld, Unpublished, HalfGone, [Next]_vars
  PROVE  HalfGone'
<1> USE DEF TypeOK, LockHeld, Unpublished, HalfGone, Publishing, Sidecars
<1>1. ASSUME NEW a \in Actors, UserAsks(a)
      PROVE  HalfGone'
  <2>1. ASSUME NEW id \in Ids, Open(a, id) PROVE HalfGone'
    BY <2>1 DEF Open, Ask
  <2>2. ASSUME NEW id \in Ids, Delete(a, id) PROVE HalfGone'
    BY <2>2 DEF Delete, Ask
  <2>3. ASSUME NEW kept \in SUBSET Ids, Save(a, kept) PROVE HalfGone'
    BY <2>3 DEF Save, Ask, Preserving
  <2>4. ASSUME NEW kept \in SUBSET Ids, Compact(a, kept) PROVE HalfGone'
    BY <2>4 DEF Compact, Ask, Preserving
  <2>5. ASSUME List(a) PROVE HalfGone'
    BY <2>5 DEF List, Ask
  <2> QED
    BY <1>1, <2>1, <2>2, <2>3, <2>4, <2>5 DEF UserAsks
<1>2. ASSUME NEW a \in Actors, Publishes(a)
      PROVE  HalfGone'
  <2>1. ASSUME EnterSave(a) PROVE HalfGone'
    BY <2>1 DEF EnterSave, TakeLock
  <2>2. ASSUME WriteMeta(a) PROVE HalfGone'
    BY <2>2 DEF WriteMeta
  <2>3. ASSUME NEW bytes \in Sizes, WritePayload(a, bytes) PROVE HalfGone'
    BY <2>3 DEF WritePayload
  <2>4. ASSUME WriteFails(a) PROVE HalfGone'
    BY <2>4 DEF WriteFails
  <2> QED
    BY <1>2, <2>1, <2>2, <2>3, <2>4 DEF Publishes
<1>3. ASSUME NEW a \in Actors, Plans(a)
      PROVE  HalfGone'
  BY <1>3 DEF Plans, PruneList, CountDone, BytesList, BytesSum, BytesDone,
          EnterCompact, TakeLock
<1>4. ASSUME NEW a \in Actors, Removes(a)
      PROVE  HalfGone'
  <2>1. ASSUME RemoveNext(a) PROVE HalfGone'
    BY <2>1 DEF RemoveNext, RemoveHalf, Gone, Refused, Spare
  <2>2. ASSUME RemoveSidecar(a) PROVE HalfGone'
    BY <2>2 DEF RemoveSidecar, RemoveHalf, Gone, Refused, Spare
  <2>3. ASSUME BytesNext(a) PROVE HalfGone'
    BY <2>3 DEF BytesNext, RemoveHalf, Gone, Refused, Spare
  <2>4. ASSUME DeletePayload(a) PROVE HalfGone'
    BY <2>4 DEF DeletePayload, RemoveHalf, Gone, Refused, Spare
  <2>5. ASSUME UndoPayload(a) PROVE HalfGone'
    BY <2>5 DEF UndoPayload, RemoveHalf, Gone, Refused, Spare
  <2> QED
    BY <1>4, <2>1, <2>2, <2>3, <2>4, <2>5 DEF Removes
<1>5. ASSUME NEW a \in Actors, Lists(a)
      PROVE  HalfGone'
  BY <1>5 DEF Lists, ListName, Migrate, ListDone
<1>6. ASSUME NEW a \in Actors, Ends(a)
      PROVE  HalfGone'
  <2>1. ASSUME Return(a) PROVE HalfGone'
    BY <2>1 DEF Return, Forget
  <2>2. ASSUME CompactDone(a) PROVE HalfGone'
    BY <2>2 DEF CompactDone, Forget
  <2>3. ASSUME Crash(a) PROVE HalfGone'
    BY <2>3 DEF Crash, Forget
  <2> QED
    BY <1>6, <2>1, <2>2, <2>3 DEF Ends
<1>7. CASE UNCHANGED vars
  BY <1>7
<1> QED
  BY <1>1, <1>2, <1>3, <1>4, <1>5, <1>6, <1>7, Steps

\* A save undoes only what it has not published.
LEMMA StepUndone ==
  ASSUME TypeOK, Distinct, Unpublished, Undone, [Next]_vars
  PROVE  Undone'
<1> USE DEF TypeOK, Distinct, Unpublished, Undone, Publishing
<1>1. ASSUME NEW a \in Actors, UserAsks(a)
      PROVE  Undone'
  <2>1. ASSUME NEW id \in Ids, Open(a, id) PROVE Undone'
    BY <2>1 DEF Open, Ask
  <2>2. ASSUME NEW id \in Ids, Delete(a, id) PROVE Undone'
    BY <2>2 DEF Delete, Ask
  <2>3. ASSUME NEW kept \in SUBSET Ids, Save(a, kept) PROVE Undone'
    BY <2>3 DEF Save, Ask, Preserving
  <2>4. ASSUME NEW kept \in SUBSET Ids, Compact(a, kept) PROVE Undone'
    BY <2>4 DEF Compact, Ask, Preserving
  <2>5. ASSUME List(a) PROVE Undone'
    BY <2>5 DEF List, Ask
  <2> QED
    BY <1>1, <2>1, <2>2, <2>3, <2>4, <2>5 DEF UserAsks
<1>2. ASSUME NEW a \in Actors, Publishes(a)
      PROVE  Undone'
  BY <1>2 DEF Publishes, EnterSave, TakeLock, WriteMeta, WritePayload,
          WriteFails
<1>3. ASSUME NEW a \in Actors, Plans(a)
      PROVE  Undone'
  BY <1>3 DEF Plans, PruneList, CountDone, BytesList, BytesSum, BytesDone,
          EnterCompact, TakeLock
<1>4. ASSUME NEW a \in Actors, Removes(a)
      PROVE  Undone'
  <2>1. ASSUME RemoveNext(a) PROVE Undone'
    <3>1. PICK id \in todo[a] :
            /\ payload' \subseteq payload /\ own' = own
            /\ victim' = [victim EXCEPT ![a] = id]
            /\ \/ pc' = [pc EXCEPT ![a] = "pruneMeta"]
               \/ pc' = [pc EXCEPT ![a] = "dropMeta"]
      BY <2>1, RemoveNextEffect DEF PayloadHalf
    <3> QED
      BY <3>1
  <2>2. ASSUME RemoveSidecar(a) PROVE Undone'
    BY <2>2, SidecarEffect DEF Sidecars
  <2>3. ASSUME BytesNext(a) PROVE Undone'
    <3>1. PICK id \in todo[a] :
            /\ payload' \subseteq payload /\ own' = own
            /\ \/ victim' = victim /\ pc' = pc
               \/ /\ victim' = [victim EXCEPT ![a] = id]
                  /\ pc' = [pc EXCEPT ![a] = "bytesMeta"]
      <4>1. PICK id \in todo[a] :
              /\ own' = own
              /\ \/ UNCHANGED <<files, failed, total, victim, pc>>
                 \/ /\ PayloadHalf(a, id)
                    /\ victim' = [victim EXCEPT ![a] = id]
                    /\ pc' = [pc EXCEPT ![a] = "bytesMeta"]
        BY <2>3, BytesNextEffect
      <4>2. payload' \subseteq payload
        BY <4>1 DEF PayloadHalf
      <4> QED
        BY <4>1, <4>2
    <3> QED
      BY <3>1
  <2>4. ASSUME DeletePayload(a) PROVE Undone'
    BY <2>4, UserPayloadEffect DEF PayloadHalf
  <2>5. ASSUME UndoPayload(a) PROVE Undone'
    BY <2>5, UserPayloadEffect DEF PayloadHalf
  <2> QED
    BY <1>4, <2>1, <2>2, <2>3, <2>4, <2>5 DEF Removes
<1>5. ASSUME NEW a \in Actors, Lists(a)
      PROVE  Undone'
  BY <1>5 DEF Lists, ListName, Migrate, ListDone
<1>6. ASSUME NEW a \in Actors, Ends(a)
      PROVE  Undone'
  <2>1. ASSUME Return(a) PROVE Undone'
    BY <2>1 DEF Return, Forget
  <2>2. ASSUME CompactDone(a) PROVE Undone'
    BY <2>2 DEF CompactDone, Forget
  <2>3. ASSUME Crash(a) PROVE Undone'
    BY <2>3 DEF Crash, Forget
  <2> QED
    BY <1>6, <2>1, <2>2, <2>3 DEF Ends
<1>7. CASE UNCHANGED vars
  BY <1>7
<1> QED
  BY <1>1, <1>2, <1>3, <1>4, <1>5, <1>6, <1>7, Steps

\* No step puts a preserved session on the list of a pruning.
LEMMA StepSpared ==
  ASSUME TypeOK, Spared, [Next]_vars
  PROVE  Spared'
<1> USE DEF TypeOK, Spared
<1>1. ASSUME NEW a \in Actors, UserAsks(a)
      PROVE  Spared'
  <2>1. ASSUME NEW id \in Ids, Open(a, id) PROVE Spared'
    BY <2>1 DEF Open, Ask
  <2>2. ASSUME NEW id \in Ids, Delete(a, id) PROVE Spared'
    BY <2>2 DEF Delete, Ask
  <2>3. ASSUME NEW kept \in SUBSET Ids, Save(a, kept) PROVE Spared'
    BY <2>3 DEF Save, Ask, Preserving
  <2>4. ASSUME NEW kept \in SUBSET Ids, Compact(a, kept) PROVE Spared'
    BY <2>4 DEF Compact, Ask, Preserving
  <2>5. ASSUME List(a) PROVE Spared'
    BY <2>5 DEF List, Ask
  <2> QED
    BY <1>1, <2>1, <2>2, <2>3, <2>4, <2>5 DEF UserAsks
<1>2. ASSUME NEW a \in Actors, Publishes(a)
      PROVE  Spared'
  <2>1. ASSUME EnterSave(a) PROVE Spared'
    BY <2>1 DEF EnterSave, TakeLock
  <2>2. ASSUME WriteMeta(a) PROVE Spared'
    BY <2>2 DEF WriteMeta
  <2>3. ASSUME NEW bytes \in Sizes, WritePayload(a, bytes) PROVE Spared'
    BY <2>3 DEF WritePayload
  <2>4. ASSUME WriteFails(a) PROVE Spared'
    BY <2>4 DEF WriteFails
  <2> QED
    BY <1>2, <2>1, <2>2, <2>3, <2>4 DEF Publishes
<1>3. ASSUME NEW a \in Actors, Plans(a)
      PROVE  Spared'
  <2>1. ASSUME PruneList(a) PROVE Spared'
    BY <2>1 DEF PruneList
  <2>2. ASSUME CountDone(a) PROVE Spared'
    BY <2>2 DEF CountDone
  <2>3. ASSUME BytesList(a) PROVE Spared'
    BY <2>3 DEF BytesList
  <2>4. ASSUME BytesSum(a) PROVE Spared'
    BY <2>4, SMTT(30) DEF BytesSum
  <2>5. ASSUME BytesDone(a) PROVE Spared'
    BY <2>5 DEF BytesDone
  <2>6. ASSUME NEW aged \in SUBSET Ids, EnterCompact(a, aged) PROVE Spared'
    <3>1. aged \in SUBSET payload
      BY <2>6 DEF EnterCompact
    <3>2. Doomed(a, aged) \cap preserve[a] = {}
      BY <3>1, DoomedSpares
    <3> QED
      BY <2>6, <3>2 DEF EnterCompact, TakeLock
  <2> QED
    BY <1>3, <2>1, <2>2, <2>3, <2>4, <2>5, <2>6 DEF Plans
<1>4. ASSUME NEW a \in Actors, Removes(a)
      PROVE  Spared'
  <2>1. ASSUME RemoveNext(a) PROVE Spared'
    BY <2>1 DEF RemoveNext, RemoveHalf, Gone, Refused, Spare
  <2>2. ASSUME RemoveSidecar(a) PROVE Spared'
    BY <2>2 DEF RemoveSidecar, RemoveHalf, Gone, Refused, Spare
  <2>3. ASSUME BytesNext(a) PROVE Spared'
    BY <2>3 DEF BytesNext, RemoveHalf, Gone, Refused, Spare
  <2>4. ASSUME DeletePayload(a) PROVE Spared'
    BY <2>4 DEF DeletePayload, RemoveHalf, Gone, Refused, Spare
  <2>5. ASSUME UndoPayload(a) PROVE Spared'
    BY <2>5 DEF UndoPayload, RemoveHalf, Gone, Refused, Spare
  <2> QED
    BY <1>4, <2>1, <2>2, <2>3, <2>4, <2>5 DEF Removes
<1>5. ASSUME NEW a \in Actors, Lists(a)
      PROVE  Spared'
  <2>1. ASSUME NEW id \in Ids, ListName(a, id) PROVE Spared'
    BY <2>1 DEF ListName
  <2>2. ASSUME Migrate(a) PROVE Spared'
    BY <2>2 DEF Migrate
  <2>3. ASSUME ListDone(a) PROVE Spared'
    BY <2>3 DEF ListDone
  <2> QED
    BY <1>5, <2>1, <2>2, <2>3 DEF Lists
<1>6. ASSUME NEW a \in Actors, Ends(a)
      PROVE  Spared'
  BY <1>6 DEF Ends, Return, Forget, CompactDone, Crash
<1>7. CASE UNCHANGED vars
  BY <1>7
<1> QED
  BY <1>1, <1>2, <1>3, <1>4, <1>5, <1>6, <1>7, Steps

\* A step of another actor that takes the newer session disturbs the compaction.
LEMMA StepNewerStays ==
  ASSUME TypeOK, LockHeld, Undone, NewerStays, [Next]_vars
  PROVE  NewerStays'
<1> USE DEF TypeOK, LockHeld, Undone, NewerStays, Pruning, Compacting,
          Publishing
<1>1. ASSUME NEW a \in Actors, UserAsks(a)
      PROVE  NewerStays'
  <2>1. ASSUME NEW id \in Ids, Open(a, id) PROVE NewerStays'
    BY <2>1 DEF Open, Ask
  <2>2. ASSUME NEW id \in Ids, Delete(a, id) PROVE NewerStays'
    BY <2>2 DEF Delete, Ask
  <2>3. ASSUME NEW kept \in SUBSET Ids, Save(a, kept) PROVE NewerStays'
    BY <2>3 DEF Save, Ask, Preserving
  <2>4. ASSUME NEW kept \in SUBSET Ids, Compact(a, kept) PROVE NewerStays'
    BY <2>4 DEF Compact, Ask, Preserving
  <2>5. ASSUME List(a) PROVE NewerStays'
    BY <2>5 DEF List, Ask
  <2> QED
    BY <1>1, <2>1, <2>2, <2>3, <2>4, <2>5 DEF UserAsks
<1>2. ASSUME NEW a \in Actors, Publishes(a)
      PROVE  NewerStays'
  <2>1. ASSUME EnterSave(a) PROVE NewerStays'
    BY <2>1 DEF EnterSave, TakeLock
  <2>2. ASSUME WriteMeta(a) PROVE NewerStays'
    BY <2>2 DEF WriteMeta
  <2>3. ASSUME NEW bytes \in Sizes, WritePayload(a, bytes) PROVE NewerStays'
    BY <2>3 DEF WritePayload
  <2>4. ASSUME WriteFails(a) PROVE NewerStays'
    BY <2>4 DEF WriteFails
  <2> QED
    BY <1>2, <2>1, <2>2, <2>3, <2>4 DEF Publishes
<1>3. ASSUME NEW a \in Actors, Plans(a)
      PROVE  NewerStays'
  <2>1. ASSUME PruneList(a) PROVE NewerStays'
    BY <2>1 DEF PruneList
  <2>2. ASSUME CountDone(a) PROVE NewerStays'
    BY <2>2 DEF CountDone
  <2>3. ASSUME BytesList(a) PROVE NewerStays'
    BY <2>3 DEF BytesList
  <2>4. ASSUME BytesSum(a) PROVE NewerStays'
    <3>1. /\ payload' = payload /\ disturbed' = disturbed /\ todo' = todo
          /\ pc[a] = "bytesSum"
          /\ pc' = [pc EXCEPT ![a] = "bytes"] \/ pc' = [pc EXCEPT ![a] = "return"]
      BY <2>4 DEF BytesSum
    <3> QED
      BY <3>1
  <2>5. ASSUME BytesDone(a) PROVE NewerStays'
    BY <2>5 DEF BytesDone
  <2>6. ASSUME NEW aged \in SUBSET Ids, EnterCompact(a, aged) PROVE NewerStays'
    <3>1. aged \in SUBSET payload
      BY <2>6 DEF EnterCompact
    <3> DEFINE D == Doomed(a, aged)
    <3>2. D # {} => \E newer \in payload \ D : \A id \in D : id < newer
      BY <3>1, DoomedSpares
    <3>3. lock = Nobody /\ pc[a] = "waitCompact"
      BY <2>6 DEF EnterCompact, TakeLock
    <3>4. /\ payload' = payload /\ todo' = [todo EXCEPT ![a] = D]
          /\ pc' = [pc EXCEPT ![a] = "drop"]
          /\ disturbed' = [disturbed EXCEPT ![a] = FALSE]
      BY <2>6 DEF EnterCompact, TakeLock
    <3> HIDE DEF D
    <3> QED
      BY <3>2, <3>4
  <2> QED
    BY <1>3, <2>1, <2>2, <2>3, <2>4, <2>5, <2>6 DEF Plans
<1>4. ASSUME NEW a \in Actors, Removes(a)
      PROVE  NewerStays'
  <2>1. ASSUME RemoveNext(a) PROVE NewerStays'
    <3>1. PICK id \in todo[a] :
            /\ payload' = payload \ {id} \/ payload' = payload
            /\ disturbed' = disturbed /\ lock' = lock
            /\ todo' = [todo EXCEPT ![a] = todo[a] \ {id}]
            /\ \/ pc[a] = "prune" /\ pc' = [pc EXCEPT ![a] = "pruneMeta"]
               \/ pc[a] = "drop" /\ pc' = [pc EXCEPT ![a] = "dropMeta"]
      BY <2>1, RemoveNextEffect DEF PayloadHalf
    <3>2. \A b \in Actors \ {a} : pc'[b] \notin Compacting
      BY <3>1
    <3>3. CASE pc[a] = "prune"
      BY <3>1, <3>2, <3>3
    <3>4. CASE pc[a] = "drop" /\ ~disturbed[a]
      <4>1. PICK newer \in payload \ todo[a] : \A other \in todo[a] : other < newer
        BY <3>4
      <4>2. newer \in payload' \ todo'[a] /\ \A other \in todo'[a] : other < newer
        BY <3>1, <4>1
      <4> QED
        BY <3>1, <3>2, <4>2
    <3>5. CASE pc[a] = "drop" /\ disturbed[a]
      BY <3>1, <3>2, <3>5
    <3> QED
      BY <3>1, <3>3, <3>4, <3>5
  <2>2. ASSUME RemoveSidecar(a) PROVE NewerStays'
    BY <2>2 DEF RemoveSidecar, RemoveHalf, Gone, Refused, Spare
  <2>3. ASSUME BytesNext(a) PROVE NewerStays'
    BY <2>3 DEF BytesNext, RemoveHalf, Gone, Refused, Spare
  <2>4. ASSUME DeletePayload(a) PROVE NewerStays'
    BY <2>4 DEF DeletePayload, RemoveHalf, Gone, Refused, Spare
  <2>5. ASSUME UndoPayload(a) PROVE NewerStays'
    <3>1. /\ payload' = payload \ {victim[a]} \/ payload' = payload
          /\ todo' = todo
          /\ pc[a] = "undo" /\ pc' = [pc EXCEPT ![a] = "undoMeta"]
          /\ disturbed' = disturbed
      <4>1. pc[a] = "undo"
        BY <2>5 DEF UndoPayload
      <4> QED
        BY <2>5, <4>1, UserPayloadEffect DEF PayloadHalf
    <3>2. payload' = payload
      <4>1. victim[a] \notin payload
        BY <3>1
      <4>2. payload \ {victim[a]} = payload
        BY <4>1
      <4> QED
        BY <3>1, <4>2
    <3> QED
      BY <3>1, <3>2
  <2> QED
    BY <1>4, <2>1, <2>2, <2>3, <2>4, <2>5 DEF Removes
<1>5. ASSUME NEW a \in Actors, Lists(a)
      PROVE  NewerStays'
  <2>1. ASSUME NEW id \in Ids, ListName(a, id) PROVE NewerStays'
    BY <2>1, SMTT(30) DEF ListName
  <2>2. ASSUME Migrate(a) PROVE NewerStays'
    BY <2>2 DEF Migrate
  <2>3. ASSUME ListDone(a) PROVE NewerStays'
    BY <2>3 DEF ListDone
  <2> QED
    BY <1>5, <2>1, <2>2, <2>3 DEF Lists
<1>6. ASSUME NEW a \in Actors, Ends(a)
      PROVE  NewerStays'
  <2>1. ASSUME Return(a) PROVE NewerStays'
    BY <2>1 DEF Return, Forget
  <2>2. ASSUME CompactDone(a) PROVE NewerStays'
    BY <2>2 DEF CompactDone, Forget
  <2>3. ASSUME Crash(a) PROVE NewerStays'
    BY <2>3 DEF Crash, Forget
  <2> QED
    BY <1>6, <2>1, <2>2, <2>3 DEF Ends
<1>7. CASE UNCHANGED vars
  BY <1>7
<1> QED
  BY <1>1, <1>2, <1>3, <1>4, <1>5, <1>6, <1>7, Steps

\* A step of an actor leaves the locals of the others alone.
LEMMA OthersRest ==
  ASSUME TypeOK, NEW a \in Actors, NEW b \in Actors, b # a,
         \/ UserAsks(a) \/ Publishes(a) \/ Plans(a) \/ Removes(a) \/ Lists(a) \/ Ends(a)
  PROVE  /\ pc'[b] = pc[b] /\ preserve'[b] = preserve[b] /\ todo'[b] = todo[b]
         /\ spared'[b] = spared[b] /\ total'[b] = total[b]
<1> USE DEF TypeOK
<1>1. CASE UserAsks(a)
  BY <1>1 DEF UserAsks, Open, Delete, Save, Compact, List, Ask, Preserving
<1>2. CASE Publishes(a)
  BY <1>2 DEF Publishes, EnterSave, TakeLock, WriteMeta, WritePayload, WriteFails
<1>3. CASE Plans(a)
  BY <1>3 DEF Plans, PruneList, CountDone, BytesList, BytesSum, BytesDone,
          EnterCompact, TakeLock
<1>4. CASE Removes(a)
  <2>1. CASE RemoveNext(a)
    <3>1. PICK id \in todo[a] :
            /\ todo' = [todo EXCEPT ![a] = todo[a] \ {id}]
            /\ UNCHANGED <<preserve, total>>
            /\ spared' = spared \/ spared' = [spared EXCEPT ![a] = spared[a] \cup {id}]
            /\ \/ pc' = [pc EXCEPT ![a] = "pruneMeta"]
               \/ pc' = [pc EXCEPT ![a] = "dropMeta"]
      BY <2>1, RemoveNextEffect DEF PayloadHalf
    <3> QED
      BY <3>1
  <2>2. CASE RemoveSidecar(a)
    <3>1. /\ UNCHANGED <<preserve, todo, total>>
          /\ spared' = spared \/ spared' = [spared EXCEPT ![a] = {}]
          /\ \E label \in {"prune", "drop", "bytes", "idle"} :
               pc' = [pc EXCEPT ![a] = label]
      BY <2>2, SidecarEffect
    <3> QED
      BY <3>1
  <2>3. CASE BytesNext(a)
    BY <2>3, BytesNextEffect DEF PayloadHalf
  <2>4. CASE DeletePayload(a) \/ UndoPayload(a)
    <3>1. /\ UNCHANGED <<preserve, total, todo>>
          /\ \/ spared' = spared
             \/ spared' = [spared EXCEPT ![a] = spared[a] \cup {victim[a]}]
          /\ \/ pc' = [pc EXCEPT ![a] = "deleteMeta"]
             \/ pc' = [pc EXCEPT ![a] = "undoMeta"]
      BY <2>4, UserPayloadEffect DEF PayloadHalf
    <3> QED
      BY <3>1
  <2> QED
    BY <1>4, <2>1, <2>2, <2>3, <2>4 DEF Removes
<1>5. CASE Lists(a)
  BY <1>5 DEF Lists, ListName, Migrate, ListDone
<1>6. CASE Ends(a)
  BY <1>6 DEF Ends, Return, Forget, CompactDone, Crash
<1> QED
  BY <1>1, <1>2, <1>3, <1>4, <1>5, <1>6

\* While an actor prunes, a step of another one leaves the stored sessions as they
\* are, but for a deletion, which the actor is told of.
LEMMA StoreRests ==
  ASSUME TypeOK, LockHeld, Undone, NEW a \in Actors, NEW b \in Actors, b # a,
         pc[b] \in Pruning,
         \/ UserAsks(a) \/ Publishes(a) \/ Plans(a) \/ Removes(a) \/ Lists(a) \/ Ends(a)
  PROVE  \/ disturbed'[b] = TRUE /\ payload' \subseteq payload
         \/ /\ disturbed'[b] = disturbed[b] /\ payload' = payload
            /\ \A id \in payload : size'[id] = size[id]
<1> USE DEF TypeOK, LockHeld, Undone, Publishing, Pruning, Compacting
<1>0. lock = b
  OBVIOUS
<1>1. CASE UserAsks(a)
  BY <1>1 DEF UserAsks, Open, Delete, Save, Compact, List, Ask, Preserving
<1>2. CASE Publishes(a)
  BY <1>0, <1>2 DEF Publishes, EnterSave, TakeLock, WriteMeta, WritePayload, WriteFails
<1>3. CASE Plans(a)
  BY <1>0, <1>3 DEF Plans, PruneList, CountDone, BytesList, BytesSum, BytesDone,
          EnterCompact, TakeLock
<1>4. CASE Removes(a)
  <2>1. CASE RemoveNext(a)
    BY <1>0, <2>1 DEF RemoveNext
  <2>2. CASE RemoveSidecar(a)
    BY <2>2, SidecarEffect
  <2>3. CASE BytesNext(a)
    BY <1>0, <2>3 DEF BytesNext
  <2>4. CASE DeletePayload(a)
    <3>1. PayloadHalf(a, victim[a])
      BY <2>4, UserPayloadEffect
    <3>2. disturbed' = [c \in Actors |-> disturbed[c] \/ (lock = c /\ payload' # payload)]
      BY <2>4 DEF DeletePayload
    <3>3. payload' \subseteq payload /\ (payload' = payload =>
                                           \A id \in payload : size'[id] = size[id])
      BY <3>1 DEF PayloadHalf
    <3>4. CASE payload' = payload
      BY <3>2, <3>3, <3>4
    <3>5. CASE payload' # payload
      <4>1. disturbed'[b] = TRUE
        BY <1>0, <3>2, <3>5
      <4> QED
        BY <3>3, <4>1
    <3> QED
      BY <3>4, <3>5
  <2>5. CASE UndoPayload(a)
    <3>1. pc[a] = "undo"
      BY <2>5 DEF UndoPayload
    <3>2. victim[a] \notin payload
      BY <3>1
    <3>3. PayloadHalf(a, victim[a]) /\ disturbed' = disturbed
      BY <2>5, <3>1, UserPayloadEffect
    <3>4. payload' = payload \ {victim[a]} /\ size' = [size EXCEPT ![victim[a]] = 0]
      BY <3>2, <3>3 DEF PayloadHalf
    <3>5. payload' = payload /\ \A id \in payload : size'[id] = size[id]
      BY <3>2, <3>4
    <3> QED
      BY <3>3, <3>5
  <2> QED
    BY <1>4, <2>1, <2>2, <2>3, <2>4, <2>5 DEF Removes
<1>5. CASE Lists(a)
  BY <1>5 DEF Lists, ListName, Migrate, ListDone
<1>6. CASE Ends(a)
  BY <1>6 DEF Ends, Return, Forget, CompactDone, Crash
<1> QED
  BY <1>1, <1>2, <1>3, <1>4, <1>5, <1>6

\* Where an actor is after a step of its own that is not one of a pruning.
LEMMA Elsewhere ==
  ASSUME TypeOK, NEW a \in Actors,
         \/ UserAsks(a) \/ Publishes(a) \/ Lists(a) \/ Ends(a)
         \/ DeletePayload(a) \/ UndoPayload(a) \/ \E aged \in SUBSET Ids : EnterCompact(a, aged)
  PROVE  pc'[a] \notin Pruning \ {"list"}
<1> USE DEF TypeOK, Pruning
<1>1. CASE UserAsks(a)
  BY <1>1 DEF UserAsks, Open, Delete, Save, Compact, List, Ask, Preserving
<1>2. CASE Publishes(a)
  BY <1>2 DEF Publishes, EnterSave, TakeLock, WriteMeta, WritePayload, WriteFails
<1>3. CASE Lists(a)
  BY <1>3 DEF Lists, ListName, Migrate, ListDone
<1>4. CASE Ends(a)
  BY <1>4 DEF Ends, Return, Forget, CompactDone, Crash
<1>5. CASE DeletePayload(a) \/ UndoPayload(a)
  BY <1>5 DEF DeletePayload, UndoPayload
<1>6. ASSUME NEW aged \in SUBSET Ids, EnterCompact(a, aged)
      PROVE  pc'[a] \notin Pruning \ {"list"}
  BY <1>6 DEF EnterCompact, TakeLock
<1> QED
  BY <1>1, <1>2, <1>3, <1>4, <1>5, <1>6

\* No step undoes what the pruning by count has reached.
LEMMA StepCountKept ==
  ASSUME TypeOK, LockHeld, Undone, CountKept, [Next]_vars
  PROVE  CountKept'
<1> USE DEF TypeOK
<1>1. ASSUME NEW a \in Actors, NEW b \in Actors, b # a,
             \/ UserAsks(a) \/ Publishes(a) \/ Plans(a) \/ Removes(a) \/ Lists(a) \/ Ends(a)
      PROVE  CountKeptAt(b)'
  <2>1. /\ pc'[b] = pc[b] /\ preserve'[b] = preserve[b] /\ todo'[b] = todo[b]
        /\ spared'[b] = spared[b]
    BY <1>1, OthersRest
  <2>2. CASE pc[b] \in Pruning
    <3>1. payload' \subseteq payload
      BY <1>1, <2>2, StoreRests
    <3>2. CountKeptAt(b)
      BY DEF CountKept
    <3> DEFINE E == Exempt(b)
    <3>3. Exempt(b)' = E
      BY <2>1 DEF Exempt
    <3>4. ASSUME Cardinality((payload \ E) \ todo[b]) <= Keep
          PROVE  Cardinality((payload' \ E) \ todo[b]) <= Keep
      <4> DEFINE S == (payload \ E) \ todo[b]
                 T == (payload' \ E) \ todo[b]
      <4>1. S \in SUBSET Ids /\ T \in SUBSET S
        BY <3>1
      <4> HIDE DEF S, T, E
      <4>2. Cardinality(S) <= Keep => Cardinality(T) <= Keep
        BY <4>1, SmallerStill
      <4> QED
        BY <3>4, <4>2 DEF S, T
    <3>5. ASSUME Cardinality(payload \ E) <= Keep
          PROVE  Cardinality(payload' \ E) <= Keep
      <4> DEFINE S == payload \ E
                 T == payload' \ E
      <4>1. S \in SUBSET Ids /\ T \in SUBSET S
        BY <3>1
      <4> HIDE DEF S, T, E
      <4>2. Cardinality(S) <= Keep => Cardinality(T) <= Keep
        BY <4>1, SmallerStill
      <4> QED
        BY <3>5, <4>2 DEF S, T
    <3> HIDE DEF E
    <3> QED
      BY <2>1, <3>2, <3>3, <3>4, <3>5 DEF CountKeptAt, E
  <2>3. CASE pc[b] \notin Pruning
    BY <2>1, <2>3 DEF CountKeptAt, Pruning
  <2> QED
    BY <2>2, <2>3
<1>2. ASSUME NEW a \in Actors, pc'[a] \notin Pruning \ {"list"} PROVE CountKeptAt(a)'
  BY <1>2 DEF CountKeptAt, Pruning
<1>3. ASSUME NEW a \in Actors, Plans(a)
      PROVE  CountKeptAt(a)'
  <2>0. CountKeptAt(a)
    BY DEF CountKept
  <2>1. CASE PruneList(a)
    <3> DEFINE T == BeyondCount(payload) \ preserve[a]
               R == payload \ BeyondCount(payload)
               K == (payload \ (preserve[a] \cup spared[a])) \ T
    <3>1. K \in SUBSET R /\ R \in SUBSET Ids
      OBVIOUS
    <3>2. Cardinality(R) <= Keep
      BY KeepStay
    <3>3. Cardinality(K) <= Keep
      <4> HIDE DEF T, R, K
      <4> QED
        BY <3>1, <3>2, SmallerStill
    <3>4. /\ payload' = payload /\ preserve' = preserve /\ spared' = spared
          /\ todo' = [todo EXCEPT ![a] = T] /\ pc' = [pc EXCEPT ![a] = "prune"]
      BY <2>1 DEF PruneList
    <3>5. ((payload \ Exempt(a)) \ todo[a])' = K
      <4> HIDE DEF T
      <4> QED
        BY <3>4 DEF Exempt, K
    <3> HIDE DEF T, K
    <3> QED
      BY <3>3, <3>4, <3>5 DEF CountKeptAt
  <2>2. CASE CountDone(a)
    <3>1. /\ todo[a] = {} /\ pc[a] = "prune" /\ pc' = [pc EXCEPT ![a] = "bytesList"]
          /\ payload' = payload /\ preserve' = preserve /\ spared' = spared
      BY <2>2 DEF CountDone
    <3>2. (payload \ Exempt(a)) \ todo[a] = payload \ Exempt(a)
      BY <3>1
    <3> QED
      BY <2>0, <3>1, <3>2 DEF CountKeptAt, Exempt
  <2>3. CASE BytesList(a) \/ BytesSum(a) \/ BytesDone(a)
    <3>1. /\ payload' = payload /\ preserve' = preserve /\ spared' = spared
          /\ pc[a] \in {"bytesList", "bytesSum", "bytes"}
          /\ pc'[a] \in {"bytesSum", "bytes", "return"}
      BY <2>3 DEF BytesList, BytesSum, BytesDone
    <3> QED
      BY <2>0, <3>1 DEF CountKeptAt, Exempt
  <2>4. ASSUME NEW aged \in SUBSET Ids, EnterCompact(a, aged) PROVE CountKeptAt(a)'
    BY <1>2, <2>4, Elsewhere
  <2> QED
    BY <1>3, <2>1, <2>2, <2>3, <2>4 DEF Plans
<1>4. ASSUME NEW a \in Actors, Removes(a)
      PROVE  CountKeptAt(a)'
  <2>0. CountKeptAt(a)
    BY DEF CountKept
  <2>1. CASE RemoveNext(a)
    <3>1. PICK id \in todo[a] :
            /\ PayloadHalf(a, id) /\ preserve' = preserve
            /\ todo' = [todo EXCEPT ![a] = todo[a] \ {id}]
            /\ \/ pc[a] = "prune" /\ pc' = [pc EXCEPT ![a] = "pruneMeta"]
               \/ pc[a] = "drop" /\ pc' = [pc EXCEPT ![a] = "dropMeta"]
      BY <2>1, RemoveNextEffect
    <3>2. CASE pc[a] = "drop"
      BY <1>2, <3>1, <3>2 DEF Pruning
    <3>3. CASE pc[a] = "prune"
      <4> DEFINE S == (payload \ Exempt(a)) \ todo[a]
                 T == ((payload \ Exempt(a)) \ todo[a])'
      <4>0. /\ todo'[a] = todo[a] \ {id} /\ preserve'[a] = preserve[a]
            /\ \/ payload' = payload \ {id} /\ spared'[a] = spared[a]
               \/ payload' = payload /\ spared'[a] = spared[a] \cup {id}
        BY <3>1 DEF PayloadHalf
      <4>1. T \in SUBSET S /\ S \in SUBSET Ids
        BY <4>0 DEF Exempt
      <4>2. Cardinality(S) <= Keep
        BY <2>0, <3>3 DEF CountKeptAt
      <4>3. Cardinality(T) <= Keep
        <5> HIDE DEF S, T
        <5> QED
          BY <4>1, <4>2, SmallerStill
      <4>4. pc'[a] = "pruneMeta"
        BY <3>1, <3>3
      <4> QED
        BY <4>3, <4>4 DEF CountKeptAt
    <3> QED
      BY <3>1, <3>2, <3>3
  <2>2. CASE RemoveSidecar(a)
    <3>1. PICK label \in {"prune", "drop", "bytes", "idle"} :
            /\ pc' = [pc EXCEPT ![a] = label]
            /\ label # "idle" => spared' = spared
            /\ label = "prune" => pc[a] = "pruneMeta"
            /\ label = "bytes" => pc[a] = "bytesMeta"
      BY <2>2, SidecarEffect
    <3>2. UNCHANGED <<payload, preserve, todo>>
      BY <2>2, SidecarEffect
    <3> QED
      BY <2>0, <3>1, <3>2 DEF CountKeptAt, Exempt
  <2>3. CASE BytesNext(a)
    <3>1. /\ payload' \subseteq payload /\ preserve' = preserve /\ pc[a] = "bytes"
          /\ spared[a] \subseteq spared'[a]
          /\ pc'[a] \in {"bytes", "bytesMeta"}
      BY <2>3, BytesNextEffect DEF PayloadHalf
    <3> DEFINE S == payload \ Exempt(a)
               T == (payload \ Exempt(a))'
    <3>2. T \in SUBSET S /\ S \in SUBSET Ids
      BY <3>1 DEF Exempt
    <3>3. Cardinality(S) <= Keep
      BY <2>0, <3>1 DEF CountKeptAt
    <3>4. Cardinality(T) <= Keep
      <4> HIDE DEF S, T
      <4> QED
        BY <3>2, <3>3, SmallerStill
    <3> QED
      BY <3>1, <3>4 DEF CountKeptAt
  <2>4. CASE DeletePayload(a) \/ UndoPayload(a)
    BY <1>2, <2>4, Elsewhere
  <2> QED
    BY <1>4, <2>1, <2>2, <2>3, <2>4 DEF Removes
<1>5. ASSUME NEW a \in Actors, UserAsks(a) \/ Publishes(a) \/ Lists(a) \/ Ends(a)
      PROVE  CountKeptAt(a)'
  BY <1>2, <1>5, Elsewhere
<1>6. CASE UNCHANGED vars
  BY <1>6 DEF CountKept, CountKeptAt, Exempt
<1>7. ASSUME NEW a \in Actors, NEW b \in Actors,
             \/ UserAsks(a) \/ Publishes(a) \/ Plans(a) \/ Removes(a) \/ Lists(a) \/ Ends(a)
      PROVE  CountKeptAt(b)'
  BY <1>1, <1>3, <1>4, <1>5, <1>7
<1> QED
  BY <1>6, <1>7, Steps DEF CountKept

\* The running total stays at least the bytes of what is left to look at.
LEMMA StepEnough ==
  ASSUME TypeOK, LockHeld, Enough, [Next]_vars
  PROVE  Enough'
<1> USE DEF TypeOK, LockHeld, Enough, Publishing, Pruning, Compacting
<1>1. ASSUME NEW a \in Actors, UserAsks(a)
      PROVE  Enough'
  <2>1. ASSUME NEW id \in Ids, Open(a, id) PROVE Enough'
    BY <2>1 DEF Open, Ask
  <2>2. ASSUME NEW id \in Ids, Delete(a, id) PROVE Enough'
    BY <2>2 DEF Delete, Ask
  <2>3. ASSUME NEW kept \in SUBSET Ids, Save(a, kept) PROVE Enough'
    BY <2>3 DEF Save, Ask, Preserving
  <2>4. ASSUME NEW kept \in SUBSET Ids, Compact(a, kept) PROVE Enough'
    BY <2>4 DEF Compact, Ask, Preserving
  <2>5. ASSUME List(a) PROVE Enough'
    BY <2>5 DEF List, Ask
  <2> QED
    BY <1>1, <2>1, <2>2, <2>3, <2>4, <2>5 DEF UserAsks
<1>2. ASSUME NEW a \in Actors, Publishes(a)
      PROVE  Enough'
  BY <1>2 DEF Publishes, EnterSave, TakeLock, WriteMeta, WritePayload,
          WriteFails
<1>3. ASSUME NEW a \in Actors, Plans(a)
      PROVE  Enough'
  <2>1. ASSUME PruneList(a) PROVE Enough'
    BY <2>1 DEF PruneList
  <2>2. ASSUME CountDone(a) PROVE Enough'
    BY <2>2 DEF CountDone
  <2>3. ASSUME BytesList(a) PROVE Enough'
    BY <2>3 DEF BytesList
  <2>4. ASSUME BytesSum(a) PROVE Enough'
    <3>1. /\ size' = size /\ todo' = todo /\ pc[a] = "bytesSum"
          /\ \/ /\ total' = [total EXCEPT ![a] = SumOver(size, todo[a])]
                /\ pc' = [pc EXCEPT ![a] = "bytes"]
             \/ total' = total /\ pc' = [pc EXCEPT ![a] = "return"]
      BY <2>4, BytesIsSum DEF BytesSum
    <3>2. SumOver(size, todo[a]) \in Nat
      <4>1. todo[a] \in SUBSET Ids
        OBVIOUS
      <4> QED
        BY <4>1, BytesNat, BytesIsSum
    <3> QED
      BY <3>1, <3>2
  <2>5. ASSUME BytesDone(a) PROVE Enough'
    BY <2>5 DEF BytesDone
  <2>6. ASSUME NEW aged \in SUBSET Ids, EnterCompact(a, aged) PROVE Enough'
    BY <2>6 DEF EnterCompact, TakeLock
  <2> QED
    BY <1>3, <2>1, <2>2, <2>3, <2>4, <2>5, <2>6 DEF Plans
<1>4. ASSUME NEW a \in Actors, Removes(a)
      PROVE  Enough'
  <2>1. ASSUME RemoveNext(a) PROVE Enough'
    BY <2>1 DEF RemoveNext, RemoveHalf, Gone, Refused, Spare
  <2>2. ASSUME RemoveSidecar(a) PROVE Enough'
    BY <2>2 DEF RemoveSidecar, RemoveHalf, Gone, Refused, Spare
  <2>3. ASSUME BytesNext(a) PROVE Enough'
    <3> DEFINE S == todo[a]
    <3>1. PICK id \in S :
            /\ id \in Ids /\ pc[a] = "bytes" /\ lock' = lock
            /\ todo' = [todo EXCEPT ![a] = S \ {id}]
            /\ \/ UNCHANGED <<size, total, pc>>
               \/ /\ size' = [size EXCEPT ![id] = 0] \/ size' = size
                  /\ total' = [total EXCEPT ![a] = total[a] - size[id]]
                  /\ pc' = [pc EXCEPT ![a] = "bytesMeta"]
      BY <2>3, BytesNextEffect DEF PayloadHalf
    <3>2. \A b \in Actors \ {a} : pc'[b] \notin Pruning
      BY <3>1
    <3>3. S \in SUBSET Ids /\ S \ {id} \in SUBSET Ids /\ total[a] \in Nat
      OBVIOUS
    <3>4. /\ size[id] \in Nat /\ SumOver(size, S \ {id}) \in Nat
          /\ SumOver(size, S) = size[id] + SumOver(size, S \ {id})
      BY <3>3, BytesWithout, BytesIsSum
    <3>5. SumOver(size, S) <= total[a]
      BY <3>1
    <3>6. CASE UNCHANGED <<size, total, pc>>
      <4>1. SumOver(size, S \ {id}) <= total[a]
        BY <3>3, <3>4, <3>5
      <4> HIDE DEF S
      <4> QED
        BY <3>1, <3>2, <3>6, <4>1
    <3>7. CASE /\ size' = [size EXCEPT ![id] = 0] \/ size' = size
               /\ total' = [total EXCEPT ![a] = total[a] - size[id]]
               /\ pc' = [pc EXCEPT ![a] = "bytesMeta"]
      <4>1. \A x \in S \ {id} : size'[x] = size[x]
        BY <3>3, <3>7
      <4>2. SumOver(size', S \ {id}) = SumOver(size, S \ {id})
        BY <3>3, <4>1, BytesSame, BytesIsSum
      <4>3. SumOver(size', S \ {id}) <= total[a] - size[id]
        BY <3>3, <3>4, <3>5, <4>2
      <4> HIDE DEF S
      <4> QED
        BY <3>1, <3>2, <3>7, <4>3
    <3> QED
      BY <3>1, <3>6, <3>7
  <2>4. ASSUME DeletePayload(a) PROVE Enough'
    <3>1. /\ size' = [size EXCEPT ![victim[a]] = 0] \/ size' = size
          /\ total' = total /\ todo' = todo
          /\ \A b \in Actors : pc'[b] \in {"bytes", "bytesMeta"} => pc'[b] = pc[b]
      BY <2>4, UserPayloadEffect DEF PayloadHalf
    <3>2. ASSUME NEW b \in Actors, SumOver(size, todo[b]) <= total[b]
          PROVE  SumOver(size', todo[b]) <= total[b]
      <4>1. todo[b] \in SUBSET Ids /\ total[b] \in Nat
        OBVIOUS
      <4>2. \A id \in todo[b] : size'[id] = size[id] \/ size'[id] = 0
        BY <3>1
      <4>3. /\ SumOver(size', todo[b]) \in Nat
            /\ SumOver(size', todo[b]) <= SumOver(size, todo[b])
        BY <4>1, <4>2, BytesShrink, BytesIsSum
      <4>4. SumOver(size, todo[b]) \in Nat
        BY <4>1, BytesNat, BytesIsSum
      <4> QED
        BY <3>2, <4>1, <4>3, <4>4
    <3> QED
      BY <3>1, <3>2
  <2>5. ASSUME UndoPayload(a) PROVE Enough'
    <3>1. /\ size' = [size EXCEPT ![victim[a]] = 0] \/ size' = size
          /\ total' = total /\ todo' = todo
          /\ \A b \in Actors : pc'[b] \in {"bytes", "bytesMeta"} => pc'[b] = pc[b]
      BY <2>5, UserPayloadEffect DEF PayloadHalf
    <3>2. ASSUME NEW b \in Actors, SumOver(size, todo[b]) <= total[b]
          PROVE  SumOver(size', todo[b]) <= total[b]
      <4>1. todo[b] \in SUBSET Ids /\ total[b] \in Nat
        OBVIOUS
      <4>2. \A id \in todo[b] : size'[id] = size[id] \/ size'[id] = 0
        BY <3>1
      <4>3. /\ SumOver(size', todo[b]) \in Nat
            /\ SumOver(size', todo[b]) <= SumOver(size, todo[b])
        BY <4>1, <4>2, BytesShrink, BytesIsSum
      <4>4. SumOver(size, todo[b]) \in Nat
        BY <4>1, BytesNat, BytesIsSum
      <4> QED
        BY <3>2, <4>1, <4>3, <4>4
    <3> QED
      BY <3>1, <3>2
  <2> QED
    BY <1>4, <2>1, <2>2, <2>3, <2>4, <2>5 DEF Removes
<1>5. ASSUME NEW a \in Actors, Lists(a)
      PROVE  Enough'
  BY <1>5 DEF Lists, ListName, Migrate, ListDone
<1>6. ASSUME NEW a \in Actors, Ends(a)
      PROVE  Enough'
  BY <1>6 DEF Ends, Return, Forget, CompactDone, Crash
<1>7. CASE UNCHANGED vars
  BY <1>7
<1> QED
  BY <1>1, <1>2, <1>3, <1>4, <1>5, <1>6, <1>7, Steps

\* The running total stays exact, unless a deletion disturbs the pruning.
LEMMA StepBytesKept ==
  ASSUME TypeOK, LockHeld, Undone, BytesKept, [Next]_vars
  PROVE  BytesKept'
<1> USE DEF TypeOK
<1>1. ASSUME NEW a \in Actors, NEW b \in Actors, b # a,
             \/ UserAsks(a) \/ Publishes(a) \/ Plans(a) \/ Removes(a) \/ Lists(a) \/ Ends(a)
      PROVE  BytesKeptAt(b)'
  <2>1. /\ pc'[b] = pc[b] /\ preserve'[b] = preserve[b] /\ todo'[b] = todo[b]
        /\ spared'[b] = spared[b] /\ total'[b] = total[b]
    BY <1>1, OthersRest
  <2>2. CASE pc[b] \in Pruning
    <3>1. CASE disturbed'[b] = TRUE
      BY <3>1 DEF BytesKeptAt
    <3>2. CASE /\ disturbed'[b] = disturbed[b] /\ payload' = payload
               /\ \A id \in payload : size'[id] = size[id]
      <4>1. \A S \in SUBSET payload : SumOver(size', S) = SumOver(size, S)
        <5> SUFFICES ASSUME NEW S \in SUBSET payload
                     PROVE  SumOver(size', S) = SumOver(size, S)
          OBVIOUS
        <5>1. S \in SUBSET Ids /\ \A id \in S : size'[id] = size[id]
          BY <3>2
        <5> QED
          BY <5>1, BytesSame, BytesIsSum
      <4>2. /\ SumOver(size', payload \ Passed(b)) = SumOver(size, payload \ Passed(b))
            /\ SumOver(size', payload \ spared[b]) = SumOver(size, payload \ spared[b])
        BY <4>1
      <4>3. Passed(b)' = Passed(b) /\ Exempt(b)' = Exempt(b)
        BY <2>1 DEF Passed, Exempt
      <4>4. BytesKeptAt(b)
        BY DEF BytesKept
      <4> QED
        BY <2>1, <3>2, <4>2, <4>3, <4>4 DEF BytesKeptAt
    <3> QED
      BY <1>1, <2>2, <3>1, <3>2, StoreRests
  <2>3. CASE pc[b] \notin Pruning
    BY <2>1, <2>3 DEF BytesKeptAt, Pruning
  <2> QED
    BY <2>2, <2>3
<1>2. ASSUME NEW a \in Actors, pc'[a] \notin Pruning \ {"list"} PROVE BytesKeptAt(a)'
  BY <1>2 DEF BytesKeptAt, Pruning
<1>3. ASSUME NEW a \in Actors, Plans(a)
      PROVE  BytesKeptAt(a)'
  <2>0. BytesKeptAt(a)
    BY DEF BytesKept
  <2>1. CASE PruneList(a) \/ CountDone(a)
    <3>1. pc'[a] \in {"prune", "bytesList"}
      BY <2>1 DEF PruneList, CountDone
    <3> QED
      BY <3>1 DEF BytesKeptAt
  <2>2. CASE BytesList(a)
    <3>1. pc'[a] = "bytesSum" /\ todo'[a] = payload /\ payload' = payload
      BY <2>2 DEF BytesList
    <3> QED
      BY <3>1 DEF BytesKeptAt
  <2>3. CASE BytesSum(a)
    <3>1. /\ size' = size /\ payload' = payload /\ todo' = todo /\ pc[a] = "bytesSum"
          /\ preserve' = preserve /\ disturbed' = disturbed /\ spared' = spared
          /\ IF todo[a] \subseteq payload
               THEN /\ total' = [total EXCEPT ![a] = SumOver(size, todo[a])]
                    /\ pc' = [pc EXCEPT ![a] = "bytes"]
               ELSE total' = total /\ pc' = [pc EXCEPT ![a] = "return"]
      BY <2>3, BytesIsSum DEF BytesSum
    <3>2. CASE disturbed[a]
      BY <3>1, <3>2 DEF BytesKeptAt
    <3>3. CASE ~disturbed[a]
      <4>1. todo[a] = payload
        BY <2>0, <3>1, <3>3 DEF BytesKeptAt
      <4>2. /\ total'[a] = SumOver(size', payload') /\ pc'[a] = "bytes"
            /\ todo'[a] = payload'
        BY <3>1, <4>1
      <4>3. payload' \ Passed(a)' = payload'
        BY <4>2 DEF Passed
      <4> QED
        BY <4>2, <4>3 DEF BytesKeptAt
    <3> QED
      BY <3>2, <3>3
  <2>4. CASE BytesDone(a)
    <3>1. /\ UNCHANGED <<size, payload, spared, preserve, disturbed>>
          /\ pc[a] = "bytes" /\ pc'[a] = "return"
          /\ todo[a] = {} \/ total[a] <= MaxBytes
      BY <2>4 DEF BytesDone
    <3>2. CASE disturbed[a]
      BY <3>1, <3>2 DEF BytesKeptAt
    <3>3. CASE ~disturbed[a] /\ todo[a] = {}
      <4>1. payload \subseteq Exempt(a)
        BY <2>0, <3>1, <3>3 DEF BytesKeptAt
      <4> QED
        BY <3>1, <4>1 DEF BytesKeptAt, Exempt
    <3>4. CASE ~disturbed[a] /\ total[a] <= MaxBytes
      <4> DEFINE P == payload \ Passed(a)
                 Q == payload \ spared[a]
      <4>1. total[a] = SumOver(size, P)
        BY <2>0, <3>1, <3>4 DEF BytesKeptAt
      <4>2. P \in SUBSET Ids /\ Q \in SUBSET P
        BY DEF Passed
      <4>3. IsFiniteSet(P) /\ \A id \in P : size[id] \in Nat
        <5> HIDE DEF P
        <5> QED
          BY <4>2, SizesNat
      <4>4. SumOver(size, Q) <= SumOver(size, P)
        <5> HIDE StoreAssumption DEF Ids, NoId, P, Q, TypeOK
        <5> QED
          BY <4>2, <4>3, SumSubset
      <4>5. SumOver(size, P) \in Nat /\ SumOver(size, Q) \in Nat
        <5>1. Q \in SUBSET Ids
          BY <4>2
        <5> HIDE DEF P, Q
        <5> QED
          BY <4>2, <5>1, BytesNat, BytesIsSum
      <4>6. SumOver(size, Q) <= MaxBytes
        <5> HIDE DEF P, Q
        <5> QED
          BY <3>4, <4>1, <4>4, <4>5
      <4> QED
        BY <3>1, <4>6 DEF BytesKeptAt
    <3> QED
      BY <3>1, <3>2, <3>3, <3>4
  <2>5. ASSUME NEW aged \in SUBSET Ids, EnterCompact(a, aged) PROVE BytesKeptAt(a)'
    BY <1>2, <2>5, Elsewhere
  <2> QED
    BY <1>3, <2>1, <2>2, <2>3, <2>4, <2>5 DEF Plans
<1>4. ASSUME NEW a \in Actors, Removes(a)
      PROVE  BytesKeptAt(a)'
  <2>0. BytesKeptAt(a)
    BY DEF BytesKept
  <2>1. CASE RemoveNext(a)
    <3>1. pc'[a] \in {"pruneMeta", "dropMeta"}
      BY <2>1, RemoveNextEffect
    <3> QED
      BY <3>1 DEF BytesKeptAt
  <2>2. CASE RemoveSidecar(a)
    <3>1. PICK label \in {"prune", "drop", "bytes", "idle"} :
            /\ pc' = [pc EXCEPT ![a] = label]
            /\ label # "idle" => spared' = spared
            /\ label = "bytes" => pc[a] = "bytesMeta"
      BY <2>2, SidecarEffect
    <3>2. UNCHANGED <<payload, size, preserve, todo, total, disturbed>>
      BY <2>2, SidecarEffect
    <3> QED
      BY <2>0, <3>1, <3>2 DEF BytesKeptAt, Exempt, Passed
  <2>3. CASE BytesNext(a)
    <3>1. PICK id \in todo[a] :
            /\ id \in Ids /\ pc[a] = "bytes"
            /\ UNCHANGED <<preserve, disturbed>>
            /\ todo' = [todo EXCEPT ![a] = todo[a] \ {id}]
            /\ \/ /\ id \in preserve[a]
                  /\ UNCHANGED <<payload, size, spared, total, pc>>
               \/ /\ id \notin preserve[a] /\ PayloadHalf(a, id)
                  /\ total' = [total EXCEPT ![a] = total[a] - size[id]]
                  /\ pc' = [pc EXCEPT ![a] = "bytesMeta"]
      BY <2>3, BytesNextEffect
    <3>2. CASE disturbed[a]
      BY <3>1, <3>2 DEF BytesKeptAt
    <3>3. CASE ~disturbed[a]
      <4> DEFINE P == payload \ Passed(a)
      <4>1. /\ total[a] = SumOver(size, P)
            /\ todo[a] \subseteq payload /\ payload \subseteq todo[a] \cup Exempt(a)
        BY <2>0, <3>1, <3>3 DEF BytesKeptAt
      <4>2. todo'[a] = todo[a] \ {id}
        BY <3>1
      <4>3. CASE id \in preserve[a] /\ UNCHANGED <<payload, size, spared, total, pc>>
        <5>1. Passed(a)' = Passed(a) /\ Exempt(a)' = Exempt(a)
          BY <3>1, <4>2, <4>3 DEF Passed, Exempt
        <5>2. payload \subseteq todo'[a] \cup Exempt(a)
          BY <4>1, <4>2, <4>3 DEF Exempt
        <5> QED
          BY <3>1, <4>1, <4>2, <4>3, <5>1, <5>2 DEF BytesKeptAt
      <4>4. CASE /\ id \notin preserve[a] /\ PayloadHalf(a, id)
                 /\ total' = [total EXCEPT ![a] = total[a] - size[id]]
                 /\ pc' = [pc EXCEPT ![a] = "bytesMeta"]
        <5>1. /\ \/ payload' = payload \ {id} /\ spared'[a] = spared[a]
                 \/ payload' = payload /\ spared'[a] = spared[a] \cup {id}
              /\ \A x \in Ids \ {id} : size'[x] = size[x]
          BY <4>4 DEF PayloadHalf
        <5>2. payload' \ Passed(a)' = P \ {id} /\ id \in P
          BY <3>1, <4>1, <4>2, <4>4, <5>1 DEF Passed
        <5>3. P \in SUBSET Ids /\ P \ {id} \in SUBSET Ids
          OBVIOUS
        <5> HIDE DEF P
        <5>4. /\ size[id] \in Nat /\ SumOver(size, P \ {id}) \in Nat
              /\ SumOver(size, P) = size[id] + SumOver(size, P \ {id})
          BY <5>2, <5>3, BytesWithout, BytesIsSum
        <5>5. \A x \in P \ {id} : size'[x] = size[x]
          BY <5>1, <5>3
        <5>6. SumOver(size', P \ {id}) = SumOver(size, P \ {id})
          BY <5>3, <5>5, BytesSame, BytesIsSum
        <5>7. total'[a] = SumOver(size', payload' \ Passed(a)')
          <6>1. PICK Q : Q = P \ {id}
            OBVIOUS
          <6>2. total'[a] = total[a] - size[id]
            BY <4>4
          <6>3. payload' \ Passed(a)' = Q /\ SumOver(size', Q) = SumOver(size, Q)
            BY <5>2, <5>6, <6>1
          <6>4. /\ SumOver(size, Q) \in Nat /\ size[id] \in Nat
                /\ total[a] = size[id] + SumOver(size, Q)
            BY <4>1, <5>4, <6>1
          <6>5. total'[a] = SumOver(size', Q)
            BY <6>2, <6>3, <6>4
          <6> QED
            BY <6>3, <6>5
        <5>8. todo'[a] \subseteq payload' /\ payload' \subseteq todo'[a] \cup Exempt(a)'
          BY <3>1, <4>1, <4>2, <5>1 DEF Exempt
        <5>9. pc'[a] = "bytesMeta"
          BY <4>4
        <5> QED
          BY <5>7, <5>8, <5>9 DEF BytesKeptAt
      <4> QED
        BY <3>1, <4>3, <4>4
    <3> QED
      BY <3>2, <3>3
  <2>4. CASE DeletePayload(a) \/ UndoPayload(a)
    BY <1>2, <2>4, Elsewhere
  <2> QED
    BY <1>4, <2>1, <2>2, <2>3, <2>4 DEF Removes
<1>5. ASSUME NEW a \in Actors, UserAsks(a) \/ Publishes(a) \/ Lists(a) \/ Ends(a)
      PROVE  BytesKeptAt(a)'
  BY <1>2, <1>5, Elsewhere
<1>6. CASE UNCHANGED vars
  BY <1>6 DEF BytesKept, BytesKeptAt, Exempt, Passed
<1>7. ASSUME NEW a \in Actors, NEW b \in Actors,
             \/ UserAsks(a) \/ Publishes(a) \/ Plans(a) \/ Removes(a) \/ Lists(a) \/ Ends(a)
      PROVE  BytesKeptAt(b)'
  BY <1>1, <1>3, <1>4, <1>5, <1>7
<1> QED
  BY <1>6, <1>7, Steps DEF BytesKept

\* A save that waits keeps a name free for itself.
LEMMA RoomForOne ==
  ASSUME TypeOK, Room, NEW a \in Actors, pc[a] = "waitSave"
  PROVE  clock + 1 \in 0..MaxNs
<1> DEFINE W == {b \in Actors : pc[b] = "waitSave"}
<1>1. IsFiniteSet(W) /\ W # {}
  BY FS_Subset
<1>2. Cardinality(W) \in Nat /\ Cardinality(W) # 0
  BY <1>1, FS_CardinalityType, FS_EmptySet
<1>3. clock \in Nat /\ clock + Cardinality(W) <= MaxNs
  BY DEF TypeOK, Room
<1> HIDE DEF W
<1> QED
  BY <1>2, <1>3

\* Every step keeps the types.
LEMMA StepTypeOK ==
  ASSUME TypeOK, Room, Unpublished, Aimed, Enough, [Next]_vars
  PROVE  TypeOK'
<1> USE DEF TypeOK, Publishing, Pruning, Compacting, Unlocked
<1>1. ASSUME NEW a \in Actors, UserAsks(a)
      PROVE  TypeOK'
  <2>1. ASSUME NEW id \in Ids, Open(a, id) PROVE TypeOK'
    BY <2>1 DEF Open, Ask
  <2>2. ASSUME NEW id \in Ids, Delete(a, id) PROVE TypeOK'
    BY <2>2 DEF Delete, Ask
  <2>3. ASSUME NEW kept \in SUBSET Ids, Save(a, kept) PROVE TypeOK'
    BY <2>3 DEF Save, Ask, Preserving
  <2>4. ASSUME NEW kept \in SUBSET Ids, Compact(a, kept) PROVE TypeOK'
    BY <2>4 DEF Compact, Ask, Preserving
  <2>5. ASSUME List(a) PROVE TypeOK'
    BY <2>5 DEF List, Ask
  <2> QED
    BY <1>1, <2>1, <2>2, <2>3, <2>4, <2>5 DEF UserAsks
<1>2. ASSUME NEW a \in Actors, Publishes(a)
      PROVE  TypeOK'
  <2>1. ASSUME EnterSave(a) PROVE TypeOK'
    <3>1. clock' \in 0..MaxNs
      BY <2>1, RoomForOne DEF EnterSave
    <3> QED
      BY <2>1, <3>1 DEF EnterSave, TakeLock
  <2>2. ASSUME WriteMeta(a) PROVE TypeOK'
    <3>1. own[a] \in Ids
      BY <2>2 DEF WriteMeta, Unpublished
    <3> QED
      BY <2>2, <3>1 DEF WriteMeta
  <2>3. ASSUME NEW bytes \in Sizes, WritePayload(a, bytes) PROVE TypeOK'
    <3>1. own[a] \in Ids
      BY <2>3 DEF WritePayload, Unpublished
    <3>2. size' \in [Ids -> Sizes \cup {0}]
      BY <2>3 DEF WritePayload
    <3> QED
      BY <2>3, <3>1, <3>2 DEF WritePayload
  <2>4. ASSUME WriteFails(a) PROVE TypeOK'
    BY <2>4 DEF WriteFails
  <2> QED
    BY <1>2, <2>1, <2>2, <2>3, <2>4 DEF Publishes
<1>3. ASSUME NEW a \in Actors, Plans(a)
      PROVE  TypeOK'
  <2>1. ASSUME PruneList(a) PROVE TypeOK'
    BY <2>1 DEF PruneList, BeyondCount
  <2>2. ASSUME CountDone(a) PROVE TypeOK'
    BY <2>2 DEF CountDone
  <2>3. ASSUME BytesList(a) PROVE TypeOK'
    BY <2>3 DEF BytesList
  <2>4. ASSUME BytesSum(a) PROVE TypeOK'
    <3>1. Bytes(todo[a]) \in Nat
      <4>1. todo[a] \in SUBSET Ids
        OBVIOUS
      <4> QED
        BY <4>1, BytesNat
    <3>2. total' \in [Actors -> Nat]
      BY <2>4, <3>1 DEF BytesSum
    <3>3. pc' = [pc EXCEPT ![a] = "bytes"] \/ pc' = [pc EXCEPT ![a] = "return"]
      BY <2>4 DEF BytesSum
    <3> QED
      BY <2>4, <3>2, <3>3 DEF BytesSum
  <2>5. ASSUME BytesDone(a) PROVE TypeOK'
    BY <2>5 DEF BytesDone
  <2>6. ASSUME NEW aged \in SUBSET Ids, EnterCompact(a, aged) PROVE TypeOK'
    <3>1. aged \in SUBSET payload
      BY <2>6 DEF EnterCompact
    <3>2. Doomed(a, aged) \subseteq payload
      BY <3>1, DoomedSpares
    <3> QED
      BY <2>6, <3>2 DEF EnterCompact, TakeLock
  <2> QED
    BY <1>3, <2>1, <2>2, <2>3, <2>4, <2>5, <2>6 DEF Plans
<1>4. ASSUME NEW a \in Actors, Removes(a)
      PROVE  TypeOK'
  <2>0. ASSUME NEW id \in Ids, PayloadHalf(a, id)
        PROVE  /\ payload' \subseteq Ids /\ meta' \subseteq Ids /\ legacy' \subseteq Ids
               /\ size' \in [Ids -> Sizes \cup {0}]
               /\ spared' \in [Actors -> SUBSET Ids] /\ faults' \in 0..MaxFaults
    <3>1. payload' \subseteq Ids /\ meta' \subseteq Ids /\ legacy' \subseteq Ids
      BY <2>0 DEF PayloadHalf
    <3>2. size' \in [Ids -> Sizes \cup {0}]
      BY <2>0 DEF PayloadHalf
    <3>3. spared' \in [Actors -> SUBSET Ids]
      <4>1. spared[a] \cup {id} \in SUBSET Ids /\ spared \in [Actors -> SUBSET Ids]
        OBVIOUS
      <4>2. spared' = spared \/ spared' = [spared EXCEPT ![a] = spared[a] \cup {id}]
        BY <2>0 DEF PayloadHalf
      <4> HIDE DEF Ids, NoId, TypeOK
      <4> QED
        BY <4>1, <4>2
    <3>4. faults' \in 0..MaxFaults
      BY <2>0 DEF PayloadHalf
    <3> QED
      BY <3>1, <3>2, <3>3, <3>4
  <2>1. ASSUME RemoveNext(a) PROVE TypeOK'
    <3>1. PICK id \in todo[a] :
            /\ id \in Ids /\ PayloadHalf(a, id)
            /\ todo' = [todo EXCEPT ![a] = todo[a] \ {id}]
            /\ victim' = [victim EXCEPT ![a] = id]
            /\ UNCHANGED <<lock, clock, own, preserve, total, disturbed>>
            /\ \/ pc[a] = "prune" /\ pc' = [pc EXCEPT ![a] = "pruneMeta"]
               \/ pc[a] = "drop" /\ pc' = [pc EXCEPT ![a] = "dropMeta"]
      BY <2>1, RemoveNextEffect
    <3>2. pc' \in [Actors -> Publishing \cup Pruning \cup Compacting \cup Unlocked]
      BY <3>1
    <3>3. todo' \in [Actors -> SUBSET Ids] /\ victim' \in [Actors -> Ids \cup {NoId}]
      BY <3>1
    <3>4. UNCHANGED <<loaded, ops, crashes>>
      BY <2>1 DEF RemoveNext
    <3> QED
      BY <2>0, <3>1, <3>2, <3>3, <3>4
  <2>2. ASSUME RemoveSidecar(a) PROVE TypeOK'
    <3>1. /\ UNCHANGED <<payload, size, legacy, lock, clock, own, preserve, todo, total>>
          /\ UNCHANGED user
          /\ meta' \subseteq meta
          /\ faults' \in 0..MaxFaults
          /\ victim' = [victim EXCEPT ![a] = NoId]
      BY <2>2, SidecarEffect
    <3>2. pc' \in [Actors -> Publishing \cup Pruning \cup Compacting \cup Unlocked]
      <4>1. PICK label \in {"prune", "drop", "bytes", "idle"} :
              pc' = [pc EXCEPT ![a] = label]
        BY <2>2, SidecarEffect
      <4> QED
        BY <4>1
    <3>3. spared' \in [Actors -> SUBSET Ids]
      <4>1. spared' = spared \/ spared' = [spared EXCEPT ![a] = {}]
        BY <2>2, SidecarEffect
      <4> QED
        BY <4>1
    <3> QED
      BY <3>1, <3>2, <3>3
  <2>3. ASSUME BytesNext(a) PROVE TypeOK'
    <3>1. PICK id \in todo[a] :
            /\ id \in Ids /\ pc[a] = "bytes"
            /\ todo' = [todo EXCEPT ![a] = todo[a] \ {id}]
            /\ UNCHANGED <<lock, clock, own, preserve, disturbed>>
            /\ \/ UNCHANGED <<files, failed, total, victim, pc>>
               \/ /\ PayloadHalf(a, id)
                  /\ total' = [total EXCEPT ![a] = total[a] - size[id]]
                  /\ victim' = [victim EXCEPT ![a] = id]
                  /\ pc' = [pc EXCEPT ![a] = "bytesMeta"]
      BY <2>3, BytesNextEffect
    <3>2. total[a] - size[id] \in Nat
      <4>1. todo[a] \in SUBSET Ids
        OBVIOUS
      <4>2. /\ size[id] \in Nat /\ SumOver(size, todo[a] \ {id}) \in Nat
            /\ SumOver(size, todo[a]) = size[id] + SumOver(size, todo[a] \ {id})
        BY <4>1, BytesWithout, BytesIsSum
      <4>3. SumOver(size, todo[a]) <= total[a] /\ total[a] \in Nat
        BY <3>1 DEF Enough
      <4> QED
        BY <4>2, <4>3
    <3>3. total' \in [Actors -> Nat]
      BY <3>1, <3>2
    <3>4. todo' \in [Actors -> SUBSET Ids] /\ victim' \in [Actors -> Ids \cup {NoId}]
      BY <3>1
    <3>5. pc' \in [Actors -> Publishing \cup Pruning \cup Compacting \cup Unlocked]
      BY <3>1
    <3>6. UNCHANGED <<loaded, ops, crashes>>
      BY <2>3 DEF BytesNext
    <3>7. /\ payload' \subseteq Ids /\ meta' \subseteq Ids /\ legacy' \subseteq Ids
          /\ size' \in [Ids -> Sizes \cup {0}]
          /\ spared' \in [Actors -> SUBSET Ids] /\ faults' \in 0..MaxFaults
      BY <2>0, <3>1
    <3> QED
      BY <3>1, <3>3, <3>4, <3>5, <3>6, <3>7
  <2>4. ASSUME DeletePayload(a) \/ UndoPayload(a) PROVE TypeOK'
    <3>1. victim[a] \in Ids
      BY <2>4 DEF Aimed, Aiming, DeletePayload, UndoPayload
    <3>2. /\ PayloadHalf(a, victim[a])
          /\ UNCHANGED <<lock, clock, own, preserve, total, victim, todo>>
          /\ UNCHANGED <<loaded, ops, crashes>>
      BY <2>4, UserPayloadEffect
    <3>3. pc' \in [Actors -> Publishing \cup Pruning \cup Compacting \cup Unlocked]
      <4>1. pc' = [pc EXCEPT ![a] = "deleteMeta"] \/ pc' = [pc EXCEPT ![a] = "undoMeta"]
        BY <2>4, UserPayloadEffect
      <4> QED
        BY <4>1
    <3>4. disturbed' \in [Actors -> BOOLEAN]
      BY <2>4, UserPayloadEffect
    <3> QED
      BY <2>0, <3>1, <3>2, <3>3, <3>4
  <2> QED
    BY <1>4, <2>1, <2>2, <2>3, <2>4 DEF Removes
<1>5. ASSUME NEW a \in Actors, Lists(a)
      PROVE  TypeOK'
  <2>1. ASSUME NEW id \in Ids, ListName(a, id) PROVE TypeOK'
    <3>1. /\ pc' = pc \/ pc' = [pc EXCEPT ![a] = "migrate"]
          /\ victim' = victim \/ victim' = [victim EXCEPT ![a] = id]
      BY <2>1 DEF ListName
    <3>2. pc' \in [Actors -> Publishing \cup Pruning \cup Compacting \cup Unlocked]
      BY <3>1
    <3>3. victim' \in [Actors -> Ids \cup {NoId}]
      BY <3>1
    <3>4. todo' \in [Actors -> SUBSET Ids]
      BY <2>1 DEF ListName
    <3> QED
      BY <2>1, <3>2, <3>3, <3>4 DEF ListName
  <2>2. ASSUME Migrate(a) PROVE TypeOK'
    <3>1. victim[a] \in Ids
      BY <2>2 DEF Migrate, Aimed, Aiming
    <3> QED
      BY <2>2, <3>1 DEF Migrate
  <2>3. ASSUME ListDone(a) PROVE TypeOK'
    BY <2>3 DEF ListDone
  <2> QED
    BY <1>5, <2>1, <2>2, <2>3 DEF Lists
<1>6. ASSUME NEW a \in Actors, Ends(a)
      PROVE  TypeOK'
  <2>1. ASSUME Return(a) PROVE TypeOK'
    BY <2>1 DEF Return, Forget
  <2>2. ASSUME CompactDone(a) PROVE TypeOK'
    BY <2>2 DEF CompactDone, Forget
  <2>3. ASSUME Crash(a) PROVE TypeOK'
    BY <2>3 DEF Crash, Forget
  <2> QED
    BY <1>6, <2>1, <2>2, <2>3 DEF Ends
<1>7. CASE UNCHANGED vars
  BY <1>7
<1> QED
  BY <1>1, <1>2, <1>3, <1>4, <1>5, <1>6, <1>7, Steps

\* Fewer waiting saves need no more names.
LEMMA RoomStays ==
  ASSUME TypeOK, Room, clock' = clock,
         \A b \in Actors : pc'[b] = "waitSave" => pc[b] = "waitSave"
  PROVE  Room'
<1> DEFINE W == {b \in Actors : pc[b] = "waitSave"}
           W1 == {b \in Actors : pc'[b] = "waitSave"}
<1>1. IsFiniteSet(W) /\ W1 \in SUBSET W
  BY FS_Subset
<1>2. /\ Cardinality(W1) <= Cardinality(W)
      /\ Cardinality(W1) \in Nat /\ Cardinality(W) \in Nat
  <2> HIDE DEF W, W1
  <2> QED
    BY <1>1, FS_Subset, FS_CardinalityType
<1>3. clock \in Nat /\ clock + Cardinality(W) <= MaxNs
  BY DEF TypeOK, Room
<1>4. clock' + Cardinality(W1) <= MaxNs
  <2> HIDE DEF W, W1
  <2> QED
    BY <1>2, <1>3
<1> QED
  BY <1>4 DEF Room

\* A save enters the queue only while a name is left for it.
LEMMA StepRoom ==
  ASSUME TypeOK, Room, [Next]_vars
  PROVE  Room'
<1> USE DEF TypeOK
<1>1. ASSUME NEW a \in Actors, UserAsks(a)
      PROVE  Room'
  <2>1. ASSUME NEW id \in Ids, Open(a, id) PROVE Room'
    BY <2>1, RoomStays DEF Open, Ask
  <2>2. ASSUME NEW id \in Ids, Delete(a, id) PROVE Room'
    BY <2>2, RoomStays DEF Delete, Ask
  <2>3. ASSUME NEW kept \in SUBSET Ids, Save(a, kept) PROVE Room'
    <3> DEFINE W == {b \in Actors : pc[b] = "waitSave"}
               W1 == {b \in Actors : pc'[b] = "waitSave"}
    <3>1. clock' = clock /\ clock \in Nat /\ W1 = W \cup {a} /\ clock + Cardinality(W) < MaxNs
      BY <2>3 DEF Save, Ask
    <3>2. IsFiniteSet(W)
      BY FS_Subset
    <3> HIDE DEF W, W1
    <3>3. /\ Cardinality(W) \in Nat /\ Cardinality(W \cup {a}) \in Nat
          /\ Cardinality(W \cup {a}) <= Cardinality(W) + 1
      <4>1. /\ IsFiniteSet(W \cup {a})
            /\ Cardinality(W \cup {a}) = IF a \in W THEN Cardinality(W)
                                        ELSE Cardinality(W) + 1
        BY <3>2, FS_AddElement, Zenon
      <4>2. Cardinality(W) \in Nat
        BY <3>2, FS_CardinalityType, Zenon
      <4> QED
        BY <4>1, <4>2
    <3>4. clock' + Cardinality(W1) <= MaxNs
      BY <3>1, <3>3
    <3> QED
      BY <3>4 DEF W1, Room
  <2>4. ASSUME NEW kept \in SUBSET Ids, Compact(a, kept) PROVE Room'
    BY <2>4, RoomStays DEF Compact, Ask, Preserving
  <2>5. ASSUME List(a) PROVE Room'
    BY <2>5, RoomStays DEF List, Ask
  <2> QED
    BY <1>1, <2>1, <2>2, <2>3, <2>4, <2>5 DEF UserAsks
<1>2. ASSUME NEW a \in Actors, Publishes(a)
      PROVE  Room'
  <2>1. ASSUME EnterSave(a) PROVE Room'
    <3> DEFINE W == {b \in Actors : pc[b] = "waitSave"}
               W1 == {b \in Actors : pc'[b] = "waitSave"}
    <3>1. /\ clock' = clock + 1 /\ clock \in Nat /\ W1 = W \ {a} /\ a \in W
          /\ clock + Cardinality(W) <= MaxNs
      BY <2>1 DEF EnterSave, Room
    <3>2. IsFiniteSet(W)
      BY FS_Subset
    <3> HIDE DEF W, W1
    <3>3. Cardinality(W) \in Nat /\ Cardinality(W \ {a}) = Cardinality(W) - 1
      BY <3>1, <3>2, FS_CardinalityType, FS_RemoveElement
    <3>4. clock' + Cardinality(W1) <= MaxNs
      BY <3>1, <3>3
    <3> QED
      BY <3>4 DEF W1, Room
  <2>2. ASSUME WriteMeta(a) PROVE Room'
    BY <2>2, RoomStays DEF WriteMeta
  <2>3. ASSUME NEW bytes \in Sizes, WritePayload(a, bytes) PROVE Room'
    BY <2>3, RoomStays DEF WritePayload
  <2>4. ASSUME WriteFails(a) PROVE Room'
    BY <2>4, RoomStays DEF WriteFails
  <2> QED
    BY <1>2, <2>1, <2>2, <2>3, <2>4 DEF Publishes
<1>3. ASSUME NEW a \in Actors, Plans(a)
      PROVE  Room'
  <2>1. ASSUME PruneList(a) PROVE Room'
    BY <2>1, RoomStays DEF PruneList
  <2>2. ASSUME CountDone(a) PROVE Room'
    BY <2>2, RoomStays DEF CountDone
  <2>3. ASSUME BytesList(a) PROVE Room'
    BY <2>3, RoomStays DEF BytesList
  <2>4. ASSUME BytesSum(a) PROVE Room'
    BY <2>4, RoomStays DEF BytesSum
  <2>5. ASSUME BytesDone(a) PROVE Room'
    BY <2>5, RoomStays DEF BytesDone
  <2>6. ASSUME NEW aged \in SUBSET Ids, EnterCompact(a, aged) PROVE Room'
    BY <2>6, RoomStays DEF EnterCompact, TakeLock
  <2> QED
    BY <1>3, <2>1, <2>2, <2>3, <2>4, <2>5, <2>6 DEF Plans
<1>4. ASSUME NEW a \in Actors, Removes(a)
      PROVE  Room'
  <2>1. ASSUME RemoveNext(a) PROVE Room'
    BY <2>1, RoomStays DEF RemoveNext, RemoveHalf, Gone, Refused, Spare
  <2>2. ASSUME RemoveSidecar(a) PROVE Room'
    BY <2>2, RoomStays DEF RemoveSidecar, RemoveHalf, Gone, Refused, Spare
  <2>3. ASSUME BytesNext(a) PROVE Room'
    BY <2>3, RoomStays DEF BytesNext, RemoveHalf, Gone, Refused, Spare
  <2>4. ASSUME DeletePayload(a) PROVE Room'
    BY <2>4, RoomStays DEF DeletePayload, RemoveHalf, Gone, Refused, Spare
  <2>5. ASSUME UndoPayload(a) PROVE Room'
    BY <2>5, RoomStays DEF UndoPayload, RemoveHalf, Gone, Refused, Spare
  <2> QED
    BY <1>4, <2>1, <2>2, <2>3, <2>4, <2>5 DEF Removes
<1>5. ASSUME NEW a \in Actors, Lists(a)
      PROVE  Room'
  <2>1. ASSUME NEW id \in Ids, ListName(a, id) PROVE Room'
    BY <2>1, RoomStays DEF ListName
  <2>2. ASSUME Migrate(a) PROVE Room'
    BY <2>2, RoomStays DEF Migrate
  <2>3. ASSUME ListDone(a) PROVE Room'
    BY <2>3, RoomStays DEF ListDone
  <2> QED
    BY <1>5, <2>1, <2>2, <2>3 DEF Lists
<1>6. ASSUME NEW a \in Actors, Ends(a)
      PROVE  Room'
  <2>1. ASSUME Return(a) PROVE Room'
    BY <2>1, RoomStays DEF Return, Forget
  <2>2. ASSUME CompactDone(a) PROVE Room'
    BY <2>2, RoomStays DEF CompactDone, Forget
  <2>3. ASSUME Crash(a) PROVE Room'
    BY <2>3, RoomStays DEF Crash, Forget
  <2> QED
    BY <1>6, <2>1, <2>2, <2>3 DEF Ends
<1>7. CASE UNCHANGED vars
  BY <1>7 DEF Room
<1> QED
  BY <1>1, <1>2, <1>3, <1>4, <1>5, <1>6, <1>7, Steps

-----------------------------------------------------------------------------
(* The invariant *)

\* The store starts with the invariant: old sessions of any age, nobody at work.
LEMMA InitInv == Init => Inv
<1> SUFFICES ASSUME Init PROVE Inv
  OBVIOUS
<1> PICK n \in 0..MaxNs : Old = 1..n
  OBVIOUS
<1>1. Cardinality(Old) = n
  BY FS_Interval
<1>2. PICK k \in 0..n : legacy = 1..k
  BY <1>1 DEF Init
<1>3. clock = n /\ payload = 1..n /\ meta = Old \ legacy
  BY <1>1 DEF Init
<1>4. TypeOK
  <2>1. Old \subseteq Ids /\ legacy \subseteq Ids /\ clock \in 0..MaxNs
    BY <1>2, <1>3
  <2>2. size \in [Ids -> Sizes \cup {0}]
    BY DEF Init
  <2> QED
    BY <2>1, <2>2 DEF Init, TypeOK, Unlocked
<1>5. Room
  <2>1. {b \in Actors : pc[b] = "waitSave"} = {}
    BY DEF Init
  <2>2. Cardinality({b \in Actors : pc[b] = "waitSave"}) = 0
    BY <2>1, FS_EmptySet
  <2> QED
    BY <1>3, <2>2 DEF Room
<1>6. LockHeld /\ Known /\ Distinct
  BY <1>3 DEF Init, LockHeld, Known, Distinct, Publishing, Pruning, Compacting
<1>7. Unpublished /\ Ready /\ Aimed /\ HalfGone /\ Undone
  BY DEF Init, Unpublished, Ready, Aimed, HalfGone, Undone, Publishing, Aiming, Sidecars
<1>9. Spared /\ NewerStays /\ CountKept /\ Enough /\ BytesKept
  BY DEF Init, Spared, NewerStays, CountKept, CountKeptAt, Enough, BytesKept, BytesKeptAt
<1> QED
  BY <1>4, <1>5, <1>6, <1>7, <1>9 DEF Inv

\* The invariant is inductive.
LEMMA StepInv == Inv /\ [Next]_vars => Inv'
<1> SUFFICES ASSUME Inv, [Next]_vars PROVE Inv'
  OBVIOUS
<1>1. TypeOK' /\ LockHeld' /\ Room' /\ Known' /\ Distinct'
  BY StepTypeOK, StepLockHeld, StepRoom, StepKnown, StepDistinct DEF Inv
<1>2. Unpublished' /\ Ready' /\ Aimed' /\ HalfGone' /\ Undone'
  BY StepUnpublished, StepReady, StepAimed, StepHalfGone, StepUndone DEF Inv
<1>3. Spared' /\ NewerStays' /\ CountKept' /\ Enough' /\ BytesKept'
  BY StepSpared, StepNewerStays, StepCountKept, StepEnough, StepBytesKept DEF Inv
<1> QED
  BY <1>1, <1>2, <1>3 DEF Inv

\* All that the lock, the names and the plans of the operations guarantee
\* together holds in every state.
THEOREM StoreInvariant == Spec => []Inv
<1>1. Init => Inv
  BY InitInv
<1>2. Inv /\ [Next]_vars => Inv'
  BY StepInv
<1> QED
  BY <1>1, <1>2, PTL DEF Spec

\* Every variable keeps its type; in particular the byte count of a pruning
\* never runs below zero, whatever is deleted meanwhile.
THEOREM StoreTypeCorrect == Spec => []TypeOK
<1>1. Inv => TypeOK
  BY DEF Inv
<1> QED
  BY <1>1, StoreInvariant, PTL

\* A save returns from a store within both limits, by count and by bytes, as far
\* as the system let it remove what is beyond them.
THEOREM RetentionIsDone == Spec => []Retained
<1>1. Inv => Retained
  <2> SUFFICES ASSUME Inv, NEW a \in Actors, pc[a] = "return"
               PROVE  /\ Cardinality(payload \ (preserve[a] \cup spared[a])) <= Keep
                      /\ \/ Bytes(payload \ spared[a]) <= MaxBytes
                         \/ payload \subseteq preserve[a] \cup spared[a]
                         \/ disturbed[a]
    BY DEF Retained
  <2>1. Cardinality(payload \ (preserve[a] \cup spared[a])) <= Keep
    BY DEF Inv, CountKept, CountKeptAt, Exempt
  <2>2. disturbed[a] \in BOOLEAN
    BY DEF Inv, TypeOK
  <2>3. ~disturbed[a] => \/ SumOver(size, payload \ spared[a]) <= MaxBytes
                        \/ payload \subseteq preserve[a] \cup spared[a]
    BY DEF Inv, BytesKept, BytesKeptAt, Exempt
  <2> QED
    BY <2>1, <2>2, <2>3, BytesIsSum
<1> QED
  BY <1>1, StoreInvariant, PTL

-----------------------------------------------------------------------------
(* What a step may never do *)

\* Only these steps move the payload of a session away, each the actor's own.
LEMMA PayloadGone ==
  ASSUME TypeOK, [Next]_vars, NEW id \in payload, id \notin payload'
  PROVE  \E a \in Actors :
           /\ \A b \in Actors \ {a} : pc'[b] = pc[b]
           /\ \/ RemoveNext(a) \/ BytesNext(a) \/ DeletePayload(a) \/ UndoPayload(a)
<1> USE DEF TypeOK
<1>1. ASSUME NEW a \in Actors, UserAsks(a) PROVE payload' = payload
  BY <1>1 DEF UserAsks, Open, Delete, Save, Compact, List
<1>2. ASSUME NEW a \in Actors, Publishes(a) PROVE payload \subseteq payload'
  BY <1>2 DEF Publishes, EnterSave, WriteMeta, WritePayload, WriteFails
<1>3. ASSUME NEW a \in Actors, Plans(a) PROVE payload' = payload
  BY <1>3 DEF Plans, PruneList, CountDone, BytesList, BytesSum, BytesDone, EnterCompact
<1>4. ASSUME NEW a \in Actors, RemoveSidecar(a) PROVE payload' = payload
  BY <1>4 DEF RemoveSidecar, RemoveHalf, Gone, Refused, Spare
<1>5. ASSUME NEW a \in Actors, Lists(a) PROVE payload' = payload
  BY <1>5 DEF Lists, ListName, Migrate, ListDone
<1>6. ASSUME NEW a \in Actors, Ends(a) PROVE payload' = payload
  BY <1>6 DEF Ends, Return, CompactDone, Crash
<1>7. ASSUME NEW a \in Actors,
             RemoveNext(a) \/ BytesNext(a) \/ DeletePayload(a) \/ UndoPayload(a)
      PROVE  \A b \in Actors \ {a} : pc'[b] = pc[b]
  BY <1>7 DEF RemoveNext, BytesNext, DeletePayload, UndoPayload
<1>8. ~ UNCHANGED vars
  OBVIOUS
<1> QED
  BY <1>1, <1>2, <1>3, <1>4, <1>5, <1>6, <1>7, <1>8, Steps DEF Removes

\* No step of a pruning or a compaction removes a session its operation
\* preserves.
THEOREM PreservedAreKept == Spec => PreservedKept
<1>1. ASSUME Inv, [Next]_vars, NEW a \in Actors, Moves(a),
             pc[a] \in Pruning \cup Compacting, NEW id \in preserve[a] \cap payload
      PROVE  id \in payload'
  <2> SUFFICES ASSUME id \notin payload' PROVE FALSE
    OBVIOUS
  <2>0. TypeOK
    BY <1>1 DEF Inv
  <2>1. PICK b \in Actors :
          /\ \A c \in Actors \ {b} : pc'[c] = pc[c]
          /\ \/ RemoveNext(b) \/ BytesNext(b) \/ DeletePayload(b) \/ UndoPayload(b)
    BY <1>1, <2>0, PayloadGone
  <2>2. b = a
    BY <1>1, <2>1 DEF Moves
  <2>3. CASE RemoveNext(a)
    <3>1. PICK gone \in todo[a] : /\ payload' = payload \ {gone}
                                  /\ pc[a] \in {"prune", "drop"}
      BY <2>0, <2>3, RemoveNextEffect DEF PayloadHalf
    <3>2. gone \notin preserve[a]
      BY <1>1, <3>1 DEF Inv, Spared
    <3> QED
      BY <3>1, <3>2
  <2>4. CASE BytesNext(a)
    <3>1. PICK gone \in todo[a] :
            \/ payload' = payload
            \/ gone \notin preserve[a] /\ payload' = payload \ {gone}
      BY <2>0, <2>4, BytesNextEffect DEF PayloadHalf
    <3> QED
      BY <3>1
  <2>5. ~ DeletePayload(a) /\ ~ UndoPayload(a)
    BY <1>1 DEF DeletePayload, UndoPayload, Pruning, Compacting
  <2> QED
    BY <2>1, <2>2, <2>3, <2>4, <2>5
<1>2. Inv /\ [Next]_vars =>
        [\A a \in Actors : (Moves(a) /\ pc[a] \in Pruning \cup Compacting) =>
           preserve[a] \cap payload \subseteq payload']_vars
  BY <1>1
<1> QED
  BY <1>2, StoreInvariant, PTL DEF Spec, PreservedKept

\* Whatever a compaction removes, unless the user deletes meanwhile, a newer
\* session stays.
THEOREM NewestIsKept == Spec => NewestKept
<1>1. ASSUME Inv, [Next]_vars, NEW a \in Actors, Moves(a), pc[a] = "drop",
             ~disturbed[a], NEW id \in payload \ payload'
      PROVE  \E other \in payload' : other > id
  <2>0. TypeOK
    BY <1>1 DEF Inv
  <2>1. PICK b \in Actors :
          /\ \A c \in Actors \ {b} : pc'[c] = pc[c]
          /\ \/ RemoveNext(b) \/ BytesNext(b) \/ DeletePayload(b) \/ UndoPayload(b)
    BY <1>1, <2>0, PayloadGone
  <2>2. b = a
    BY <1>1, <2>1 DEF Moves
  <2>3. RemoveNext(a)
    BY <1>1, <2>1, <2>2 DEF BytesNext, DeletePayload, UndoPayload
  <2>4. PICK gone \in todo[a] : gone \in Ids /\ payload' = payload \ {gone}
    BY <2>0, <2>3, RemoveNextEffect DEF PayloadHalf
  <2>5. PICK newer \in payload \ todo[a] : \A other \in todo[a] : other < newer
    BY <1>1, <2>4 DEF Inv, NewerStays
  <2>6. id = gone /\ newer \in payload' /\ newer \in Ids
    BY <1>1, <2>0, <2>4, <2>5 DEF TypeOK
  <2>7. newer > id
    BY <2>4, <2>5, <2>6
  <2> QED
    BY <2>6, <2>7
<1>2. Inv /\ [Next]_vars =>
        [\A a \in Actors : (Moves(a) /\ pc[a] = "drop" /\ ~disturbed[a]) =>
           \A id \in payload \ payload' : \E other \in payload' : other > id]_vars
  BY <1>1
<1> QED
  BY <1>2, StoreInvariant, PTL DEF Spec, NewestKept

\* While an instance prunes after a save, nobody but a user who deletes takes
\* the session it has just written.
THEOREM WriterIsAlone == Spec => WriterAlone
<1>1. ASSUME Inv, [Next]_vars, NEW a \in Actors, ~Moves(a), pc[a] \in Pruning,
             own[a] \in payload \ payload'
      PROVE  \E b \in Actors : pc[b] = "delete"
  <2>0. TypeOK
    BY <1>1 DEF Inv
  <2>1. PICK b \in Actors :
          /\ \A c \in Actors \ {b} : pc'[c] = pc[c]
          /\ \/ RemoveNext(b) \/ BytesNext(b) \/ DeletePayload(b) \/ UndoPayload(b)
    BY <1>1, <2>0, PayloadGone
  <2>2. CASE RemoveNext(b)
    <3>1. pc[b] \in {"prune", "drop"} /\ pc'[b] # pc[b]
      BY <2>0, <2>2, RemoveNextEffect DEF TypeOK, PayloadHalf
    <3>2. lock = a /\ lock = b
      BY <1>1, <3>1 DEF Inv, LockHeld, Pruning, Compacting
    <3> QED
      BY <1>1, <3>1, <3>2 DEF Moves
  <2>3. CASE BytesNext(b)
    <3>1. pc[b] = "bytes" /\ (payload' = payload \/ pc'[b] = "bytesMeta")
      BY <2>0, <2>3, BytesNextEffect DEF TypeOK, PayloadHalf
    <3>2. lock = a /\ lock = b
      BY <1>1, <3>1 DEF Inv, LockHeld, Pruning
    <3> QED
      BY <1>1, <3>1, <3>2 DEF Moves
  <2>4. CASE DeletePayload(b)
    BY <2>4 DEF DeletePayload
  <2>5. CASE UndoPayload(b)
    <3>1. pc[b] = "undo"
      BY <2>5 DEF UndoPayload
    <3>2. payload' = payload \ {victim[b]} \/ payload' = payload
      BY <2>0, <2>5, UserPayloadEffect DEF PayloadHalf
    <3>3. victim[b] \notin payload
      BY <1>1, <3>1 DEF Inv, Undone
    <3> QED
      BY <1>1, <3>2, <3>3
  <2> QED
    BY <2>1, <2>2, <2>3, <2>4, <2>5
<1>2. Inv /\ [Next]_vars =>
        [\A a \in Actors : (~Moves(a) /\ pc[a] \in Pruning) =>
           \/ own[a] \notin payload \ payload'
           \/ \E b \in Actors : pc[b] = "delete"]_vars
  BY <1>1
<1> QED
  BY <1>2, StoreInvariant, PTL DEF Spec, WriterAlone

\* A session of the current format keeps its sidecar as long as its payload is
\* there, whatever the instances do at the same time and wherever they are
\* killed; only an operation that was refused the payload takes the sidecar of a
\* session that stays.
THEOREM SessionsStayPaired == Spec => SidecarLast
<1>1. ASSUME Inv, [Next]_vars, NEW id \in payload' \ meta', id \notin payload \ meta
      PROVE  \E a \in Actors : /\ Moves(a) /\ pc[a] \in Sidecars
                               /\ victim[a] = id /\ id \in spared[a]
  <2> USE DEF Inv, TypeOK
  <2>0. TypeOK
    BY <1>1
  <2>1. ASSUME NEW a \in Actors, UserAsks(a) PROVE FALSE
    BY <1>1, <2>1 DEF UserAsks, Open, Delete, Save, Compact, List
  <2>2. ASSUME NEW a \in Actors, Publishes(a) PROVE FALSE
    <3>1. ASSUME NEW bytes \in Sizes, WritePayload(a, bytes) PROVE FALSE
      <4>1. payload' = payload \cup {own[a]} /\ meta' = meta /\ own[a] \in meta
        BY <1>1, <3>1 DEF WritePayload, Ready
      <4> QED
        BY <1>1, <4>1
    <3> QED
      BY <1>1, <2>2, <3>1 DEF Publishes, EnterSave, WriteMeta, WriteFails
  <2>3. ASSUME NEW a \in Actors, Plans(a) PROVE FALSE
    BY <1>1, <2>3 DEF Plans, PruneList, CountDone, BytesList, BytesSum, BytesDone,
            EnterCompact
  <2>4. ASSUME NEW a \in Actors, Removes(a)
        PROVE  /\ Moves(a) /\ pc[a] \in Sidecars
               /\ victim[a] = id /\ id \in spared[a]
    <3>1. CASE RemoveNext(a)
      BY <1>1, <2>0, <3>1, RemoveNextEffect DEF PayloadHalf
    <3>2. CASE BytesNext(a)
      BY <1>1, <2>0, <3>2, BytesNextEffect DEF PayloadHalf
    <3>3. CASE DeletePayload(a) \/ UndoPayload(a)
      BY <1>1, <2>0, <3>3, UserPayloadEffect DEF PayloadHalf
    <3>4. CASE RemoveSidecar(a)
      <4>1. /\ pc[a] \in Sidecars /\ pc'[a] \notin Sidecars /\ payload' = payload
            /\ meta' = meta \ {victim[a]} \/ meta' = meta
        BY <2>0, <3>4, SidecarEffect
      <4>2. id \in payload /\ id = victim[a]
        BY <1>1, <4>1
      <4>3. id \in spared[a]
        BY <1>1, <4>1, <4>2 DEF HalfGone
      <4> QED
        BY <4>1, <4>2, <4>3 DEF Moves
    <3> QED
      BY <2>4, <3>1, <3>2, <3>3, <3>4 DEF Removes
  <2>5. ASSUME NEW a \in Actors, Lists(a) PROVE FALSE
    BY <1>1, <2>5 DEF Lists, ListName, Migrate, ListDone
  <2>6. ASSUME NEW a \in Actors, Ends(a) PROVE FALSE
    BY <1>1, <2>6 DEF Ends, Return, CompactDone, Crash
  <2>7. ~ UNCHANGED vars
    BY <1>1
  <2> QED
    BY <1>1, <2>1, <2>2, <2>3, <2>4, <2>5, <2>6, <2>7, Steps
<1>2. Inv /\ [Next]_vars =>
        [\A id \in payload' \ meta' :
           \/ id \in payload \ meta
           \/ \E a \in Actors : /\ Moves(a) /\ pc[a] \in Sidecars
                                /\ victim[a] = id /\ id \in spared[a]]_vars
  BY <1>1
<1> QED
  BY <1>2, StoreInvariant, PTL DEF Spec, SidecarLast
=============================================================================
