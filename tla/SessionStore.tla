---------------------------- MODULE SessionStore ----------------------------
(***************************************************************************)
(* The history of scans: a directory of session files shared by every      *)
(* running instance of the program and by the background threads of each.  *)
(* A session is a payload and a small sidecar; saving, importing and       *)
(* compacting hold an flock, listing and deleting do not.  An instance may *)
(* be killed at any point, which releases its lock and leaves its files as *)
(* they are.                                                               *)
(*                                                                         *)
(* A session is known by the nanosecond time in its name, here 1, 2, ...   *)
(* The temporary files that os.replace publishes are never listed and are  *)
(* left out, and so is the size of a sidecar.                              *)
(***************************************************************************)
EXTENDS Naturals, FiniteSets, FiniteSetsExt

CONSTANTS
  Actors,       \* running instances and their background threads
  Nobody,       \* the lock is free
  Keep,         \* _KEEP
  MaxBytes,     \* _MAX_SESSION_STORE_BYTES
  Sizes,        \* sizes a payload may have
  Old,          \* sessions in the store at the start
  MaxNs,        \* bound: sessions ever created
  MaxOps,       \* bound: operations started
  MaxCrashes,   \* bound: kills
  MaxFaults     \* bound: files the system refuses to remove

Ids == 1..MaxNs
NoId == 0

ASSUME StoreAssumption ==
  /\ IsFiniteSet(Actors) /\ Nobody \notin Actors
  /\ Keep \in Nat /\ MaxBytes \in Nat
  /\ Sizes \subseteq Nat \ {0}
  /\ MaxNs \in Nat /\ MaxOps \in Nat /\ MaxCrashes \in Nat /\ MaxFaults \in Nat
  /\ \E n \in 0..MaxNs : Old = 1..n

VARIABLES
  payload, meta,    \* the files in the directory, by session
  size,             \* of each payload, 0 when there is none
  legacy,           \* uncompressed sessions of older versions
  lock,             \* who holds sessions/.lock
  clock,            \* the last name given
  pc, own,          \* per actor: where it is, the session it writes
  preserve,         \* its preserve_paths
  todo, total,      \* what its pruning has left to look at, the bytes it counts
  victim,           \* the pair it is removing
  loaded,           \* the session it has open
  disturbed,        \* a session was deleted since it took the lock
  spared,           \* sessions its operation failed to remove
  ops, crashes, faults

files  == <<payload, meta, size, legacy>>
locals == <<own, preserve, todo, total, victim>>
user   == <<loaded, disturbed, ops, crashes>>
failed == <<spared, faults>>
vars   == <<payload, meta, size, legacy, lock, clock, pc, own, preserve, todo,
            total, victim, loaded, disturbed, spared, ops, crashes, faults>>

\* Where a save, an import or a compaction is inside the critical section.
Publishing == {"meta", "payload"}
Pruning    == {"list", "prune", "pruneMeta", "bytesList", "bytesSum", "bytes",
               "bytesMeta", "return"}
Compacting == {"drop", "dropMeta"}

\* Where an operation is between the two files of a pair.
Sidecars   == {"pruneMeta", "dropMeta", "bytesMeta", "deleteMeta", "undoMeta"}
Unlocked   == {"idle", "waitSave", "waitCompact", "undo", "undoMeta", "delete",
               "deleteMeta", "names", "migrate"}

TypeOK ==
  /\ payload \subseteq Ids /\ meta \subseteq Ids /\ legacy \subseteq Ids
  /\ size \in [Ids -> Sizes \cup {0}]
  /\ lock \in Actors \cup {Nobody}
  /\ clock \in 0..MaxNs
  /\ pc \in [Actors -> Publishing \cup Pruning \cup Compacting \cup Unlocked]
  /\ own \in [Actors -> Ids \cup {NoId}]
  /\ preserve \in [Actors -> SUBSET Ids]
  /\ todo \in [Actors -> SUBSET Ids]
  /\ total \in [Actors -> Nat]
  /\ victim \in [Actors -> Ids \cup {NoId}]
  /\ loaded \in [Actors -> Ids \cup {NoId}]
  /\ disturbed \in [Actors -> BOOLEAN]
  /\ spared \in [Actors -> SUBSET Ids]
  /\ ops \in 0..MaxOps
  /\ crashes \in 0..MaxCrashes
  /\ faults \in 0..MaxFaults

-----------------------------------------------------------------------------
(* The directory *)

Bytes(S) == MapThenSumSet(LAMBDA id : size[id], S)

Oldest(S) == CHOOSE id \in S : \A other \in S : id <= other

Newest(S) == {id \in S : \A other \in S : id >= other}

\* Mutant: one session too many is kept.
BeyondCountLoose(S) == {id \in S : Cardinality({other \in S : other > id}) > Keep}

\* names[:-keep]: all but the Keep newest.
BeyondCount(S) == {id \in S : Cardinality({other \in S : other > id}) >= Keep}

\* Of S, the oldest, until the rest of a store of that many bytes fits.
BeyondBytes(S, bytes) ==
  {id \in S : bytes > MaxBytes + Bytes({other \in S : other < id})}

Gone(id, half) ==
  IF half = "payload"
    THEN /\ payload' = payload \ {id}
         /\ size' = [size EXCEPT ![id] = 0]
         /\ legacy' = legacy \ {id}
         /\ UNCHANGED meta
    ELSE /\ meta' = meta \ {id}
         /\ UNCHANGED <<payload, size, legacy>>

\* The system refuses to remove a file, which nobody is told.
Refused(id, half) ==
  /\ faults < MaxFaults
  /\ faults' = faults + 1
  /\ id \in IF half = "payload" THEN payload ELSE meta
  /\ UNCHANGED files

\* Mutant: the sidecar goes first.
RemoveHalfSwapped(id, half) ==
  \/ Gone(id, IF half = "payload" THEN "meta" ELSE "payload") /\ UNCHANGED faults
  \/ Refused(id, half)

\* A pair is removed in two steps, the payload first; each may fail, and the
\* other is tried all the same.
RemoveHalf(id, half) ==
  \/ Gone(id, half) /\ UNCHANGED faults
  \/ Refused(id, half)

Spare(a, id) == spared' = [spared EXCEPT ![a] = @ \cup ({id} \cap payload')]

Go(a, label) == pc' = [pc EXCEPT ![a] = label]

Init ==
  /\ payload = Old
  /\ \E n \in 0..Cardinality(Old) : legacy = 1..n
  /\ meta = Old \ legacy
  /\ size \in {s \in [Ids -> Sizes \cup {0}] :
                 \A id \in Ids : s[id] = 0 <=> id \notin Old}
  /\ lock = Nobody
  /\ clock = Cardinality(Old)
  /\ pc = [a \in Actors |-> "idle"]
  /\ own = [a \in Actors |-> NoId]
  /\ preserve = [a \in Actors |-> {}]
  /\ todo = [a \in Actors |-> {}]
  /\ total = [a \in Actors |-> 0]
  /\ victim = [a \in Actors |-> NoId]
  /\ loaded = [a \in Actors |-> NoId]
  /\ disturbed = [a \in Actors |-> FALSE]
  /\ spared = [a \in Actors |-> {}]
  /\ ops = 0 /\ crashes = 0 /\ faults = 0

-----------------------------------------------------------------------------
(* What the user asks for *)

Ask(a) == pc[a] = "idle" /\ ops < MaxOps /\ ops' = ops + 1

\* load_session: reads the payload, writes nothing.
Open(a, id) ==
  /\ Ask(a)
  /\ id \in payload
  /\ loaded' = [loaded EXCEPT ![a] = id]
  /\ UNCHANGED <<files, lock, clock, pc, locals, disturbed, crashes, failed>>

Preserving(a, kept) ==
  /\ kept = {} \/ (loaded[a] # NoId /\ kept = {loaded[a]})
  /\ preserve' = [preserve EXCEPT ![a] = kept]

\* save_session and import_session.  A scan and an import preserve nothing, a
\* refresh preserves the session it started from.
Save(a, kept) ==
  /\ Ask(a)
  /\ clock + Cardinality({b \in Actors : pc[b] = "waitSave"}) < MaxNs
  /\ Preserving(a, kept)
  /\ Go(a, "waitSave")
  /\ UNCHANGED <<files, lock, clock, own, todo, total, victim, loaded,
                 disturbed,
                 crashes, failed>>

Compact(a, kept) ==
  /\ Ask(a)
  /\ Preserving(a, kept)
  /\ Go(a, "waitCompact")
  /\ UNCHANGED <<files, lock, clock, own, todo, total, victim, loaded,
                 disturbed, crashes, failed>>

\* delete_session of a session the dialog lists.
Delete(a, id) ==
  /\ Ask(a)
  /\ id \in payload
  /\ victim' = [victim EXCEPT ![a] = id]
  /\ Go(a, "delete")
  /\ UNCHANGED <<files, lock, clock, own, preserve, todo, total, loaded,
                 disturbed, crashes, failed>>

\* list_sessions takes the names first.
List(a) ==
  /\ Ask(a)
  /\ todo' = [todo EXCEPT ![a] = payload]
  /\ Go(a, "names")
  /\ UNCHANGED <<files, lock, clock, own, preserve, total, victim, loaded,
                 disturbed, crashes, failed>>

-----------------------------------------------------------------------------
(* Writing a session *)

TakeLock(a) ==
  /\ lock = Nobody
  /\ lock' = a
  /\ disturbed' = [disturbed EXCEPT ![a] = FALSE]

\* Mutant: import_session as it was before it took the lock.
EnterSaveUnlocked(a) ==
  /\ pc[a] = "waitSave"
  /\ clock' = clock + 1
  /\ own' = [own EXCEPT ![a] = clock']
  /\ Go(a, "meta")
  /\ UNCHANGED <<files, lock, preserve, todo, total, victim, user, failed>>

\* flock, then time.time_ns() under it
EnterSave(a) ==
  /\ pc[a] = "waitSave"
  /\ TakeLock(a)
  /\ clock' = clock + 1
  /\ own' = [own EXCEPT ![a] = clock']
  /\ Go(a, "meta")
  /\ UNCHANGED <<files, preserve, todo, total, victim, loaded, ops, crashes,
                 failed>>

WriteMeta(a) ==
  /\ pc[a] = "meta"
  /\ meta' = meta \cup {own[a]}
  /\ Go(a, "payload")
  /\ UNCHANGED <<payload, size, legacy, lock, clock, locals, user, failed>>

\* The payload is the last to be published.
WritePayload(a, bytes) ==
  /\ pc[a] = "payload"
  /\ payload' = payload \cup {own[a]}
  /\ size' = [size EXCEPT ![own[a]] = bytes]
  /\ Go(a, "list")
  /\ UNCHANGED <<meta, legacy, lock, clock, locals, user, failed>>

\* A failed write leaves the critical section before it removes what it wrote.
WriteFails(a) ==
  /\ pc[a] \in Publishing
  /\ lock' = Nobody
  /\ victim' = [victim EXCEPT ![a] = own[a]]
  /\ Go(a, "undo")
  /\ UNCHANGED <<files, clock, own, preserve, todo, total, user, failed>>

-----------------------------------------------------------------------------
(* _prune_old *)

\* Retention by count lists the directory once ...
PruneList(a) ==
  /\ pc[a] = "list"
  /\ todo' = [todo EXCEPT ![a] = BeyondCount(payload) \ preserve[a]]
  /\ Go(a, "prune")
  /\ UNCHANGED <<files, lock, clock, own, preserve, total, victim, user,
                 failed>>

\* ... and removes pair after pair, like a compaction.
RemoveNext(a) ==
  /\ pc[a] \in {"prune", "drop"}
  /\ todo[a] # {}
  /\ LET id == Oldest(todo[a]) IN
     /\ RemoveHalf(id, "payload") /\ Spare(a, id)
     /\ victim' = [victim EXCEPT ![a] = id]
     /\ todo' = [todo EXCEPT ![a] = @ \ {id}]
  /\ Go(a, IF pc[a] = "prune" THEN "pruneMeta" ELSE "dropMeta")
  /\ UNCHANGED <<lock, clock, own, preserve, total, user>>

RemoveSidecar(a) ==
  /\ pc[a] \in Sidecars
  /\ RemoveHalf(victim[a], "meta")
  /\ victim' = [victim EXCEPT ![a] = NoId]
  /\ Go(a, CASE pc[a] = "pruneMeta" -> "prune"
             [] pc[a] = "dropMeta"  -> "drop"
             [] pc[a] = "bytesMeta" -> "bytes"
             [] OTHER               -> "idle")
  /\ spared' = IF pc'[a] = "idle" THEN [spared EXCEPT ![a] = {}] ELSE spared
  /\ UNCHANGED <<lock, clock, own, preserve, todo, total, user>>

CountDone(a) ==
  /\ pc[a] = "prune" /\ todo[a] = {}
  /\ Go(a, "bytesList")
  /\ UNCHANGED <<files, lock, clock, locals, user, failed>>

\* Retention by bytes lists it again ...
BytesList(a) ==
  /\ pc[a] = "bytesList"
  /\ todo' = [todo EXCEPT ![a] = payload]
  /\ Go(a, "bytesSum")
  /\ UNCHANGED <<files, lock, clock, own, preserve, total, victim, user,
                 failed>>

\* ... takes the sizes, where a file that is gone by now ends the pruning ...
BytesSum(a) ==
  /\ pc[a] = "bytesSum"
  /\ IF todo[a] \subseteq payload
       THEN total' = [total EXCEPT ![a] = Bytes(todo[a])] /\ Go(a, "bytes")
       ELSE Go(a, "return") /\ UNCHANGED total
  /\ UNCHANGED <<files, lock, clock, own, preserve, todo, victim, user, failed>>

\* Mutant: the payload is counted for both files of the pair.
BytesNextTwice(a) ==
  LET id == Oldest(todo[a]) IN
  /\ pc[a] = "bytes"
  /\ todo[a] # {} /\ total[a] > MaxBytes
  /\ todo' = [todo EXCEPT ![a] = @ \ {id}]
  /\ \/ id \in preserve[a] /\ UNCHANGED <<files, failed, total, victim, pc>>
     \/ /\ id \notin preserve[a]
        /\ total' = [total EXCEPT ![a] = @ - 2 * size[id]]
        /\ RemoveHalf(id, "payload") /\ Spare(a, id)
        /\ victim' = [victim EXCEPT ![a] = id]
        /\ Go(a, "bytesMeta")
  /\ UNCHANGED <<lock, clock, own, preserve, user>>

\* Mutant: the byte budget takes the protected sessions too.
BytesNextUnprotected(a) ==
  LET id == Oldest(todo[a]) IN
  /\ pc[a] = "bytes"
  /\ todo[a] # {} /\ total[a] > MaxBytes
  /\ todo' = [todo EXCEPT ![a] = @ \ {id}]
  /\ total' = [total EXCEPT ![a] = @ - size[id]]
  /\ RemoveHalf(id, "payload") /\ Spare(a, id)
  /\ victim' = [victim EXCEPT ![a] = id]
  /\ Go(a, "bytesMeta")
  /\ UNCHANGED <<lock, clock, own, preserve, user>>

\* ... and walks from the oldest until the rest fits, past protected sessions.
BytesNext(a) ==
  LET id == Oldest(todo[a]) IN
  /\ pc[a] = "bytes"
  /\ todo[a] # {} /\ total[a] > MaxBytes
  /\ todo' = [todo EXCEPT ![a] = @ \ {id}]
  /\ \/ id \in preserve[a] /\ UNCHANGED <<files, failed, total, victim, pc>>
     \/ /\ id \notin preserve[a]
        /\ total' = [total EXCEPT ![a] = @ - size[id]]
        /\ RemoveHalf(id, "payload") /\ Spare(a, id)
        /\ victim' = [victim EXCEPT ![a] = id]
        /\ Go(a, "bytesMeta")
  /\ UNCHANGED <<lock, clock, own, preserve, user>>

BytesDone(a) ==
  /\ pc[a] = "bytes"
  /\ todo[a] = {} \/ total[a] <= MaxBytes
  /\ Go(a, "return")
  /\ UNCHANGED <<files, lock, clock, locals, user, failed>>

\* The locals of an operation end with it.
Forget(a) ==
  /\ own' = [own EXCEPT ![a] = NoId]
  /\ preserve' = [preserve EXCEPT ![a] = {}]
  /\ todo' = [todo EXCEPT ![a] = {}]
  /\ total' = [total EXCEPT ![a] = 0]
  /\ victim' = [victim EXCEPT ![a] = NoId]
  /\ disturbed' = [disturbed EXCEPT ![a] = FALSE]
  /\ spared' = [spared EXCEPT ![a] = {}]

\* The saved session becomes the live result; no stored one is open any more.
Return(a) ==
  /\ pc[a] = "return"
  /\ lock' = Nobody
  /\ loaded' = [loaded EXCEPT ![a] = NoId]
  /\ Forget(a)
  /\ Go(a, "idle")
  /\ UNCHANGED <<files, clock, ops, crashes, faults>>

-----------------------------------------------------------------------------
(* compact_store, delete_session, list_sessions, the undo of a failed write *)

\* Mutant: only the explicitly preserved sessions are protected.
DoomedUnguarded(a, aged) ==
  LET safe == preserve[a]
      byAge == aged \ safe
  IN byAge \cup BeyondBytes(payload \ (safe \cup byAge), Bytes(payload \ byAge))

\* Uncompressed sessions past the age limit, then the oldest over the budget;
\* the newest and the preserved ones are out of reach.
Doomed(a, aged) ==
  LET safe == preserve[a] \cup Newest(payload)
      byAge == aged \ safe
  IN byAge \cup BeyondBytes(payload \ (safe \cup byAge), Bytes(payload \ byAge))

\* It lists, measures and decides; the age limit may fall anywhere.
EnterCompact(a, aged) ==
  /\ pc[a] = "waitCompact"
  /\ TakeLock(a)
  /\ aged \subseteq legacy \cap payload
  /\ todo' = [todo EXCEPT ![a] = Doomed(a, aged)]
  /\ Go(a, "drop")
  /\ UNCHANGED <<files, clock, own, preserve, total, victim, loaded, ops,
                 crashes, failed>>

CompactDone(a) ==
  /\ pc[a] = "drop" /\ todo[a] = {}
  /\ lock' = Nobody
  /\ Forget(a)
  /\ Go(a, "idle")
  /\ UNCHANGED <<files, clock, loaded, ops, crashes, faults>>

DeletePayload(a) ==
  /\ pc[a] = "delete"
  /\ RemoveHalf(victim[a], "payload") /\ Spare(a, victim[a])
  /\ disturbed' = [b \in Actors |-> disturbed[b] \/ (lock = b /\ payload' # payload)]
  /\ Go(a, "deleteMeta")
  /\ UNCHANGED <<lock, clock, locals, loaded, ops, crashes>>

UndoPayload(a) ==
  /\ pc[a] = "undo"
  /\ RemoveHalf(victim[a], "payload") /\ Spare(a, victim[a])
  /\ Go(a, "undoMeta")
  /\ UNCHANGED <<lock, clock, locals, user>>

\* One listed name: a session without a sidecar is read to make one.
ListName(a, id) ==
  /\ pc[a] = "names"
  /\ id \in todo[a]
  /\ todo' = [todo EXCEPT ![a] = @ \ {id}]
  /\ IF id \notin meta /\ id \in payload
       THEN victim' = [victim EXCEPT ![a] = id] /\ Go(a, "migrate")
       ELSE UNCHANGED <<victim, pc>>
  /\ UNCHANGED <<files, lock, clock, own, preserve, total, user, failed>>

Migrate(a) ==
  /\ pc[a] = "migrate"
  /\ meta' = meta \cup {victim[a]}
  /\ victim' = [victim EXCEPT ![a] = NoId]
  /\ Go(a, "names")
  /\ UNCHANGED <<payload, size, legacy, lock, clock, own, preserve, todo,
                 total, user, failed>>

ListDone(a) ==
  /\ pc[a] = "names" /\ todo[a] = {}
  /\ Go(a, "idle")
  /\ UNCHANGED <<files, lock, clock, locals, user, failed>>

-----------------------------------------------------------------------------
(* A kill *)

\* Mutant: a lock file that outlives its owner.
CrashHoldingLock(a) ==
  /\ pc[a] # "idle"
  /\ crashes < MaxCrashes
  /\ crashes' = crashes + 1
  /\ loaded' = [loaded EXCEPT ![a] = NoId]
  /\ Forget(a)
  /\ Go(a, "idle")
  /\ UNCHANGED <<files, lock, clock, ops, faults>>

\* The kernel drops the flock of a dead process; its files stay.
Crash(a) ==
  /\ pc[a] # "idle"
  /\ crashes < MaxCrashes
  /\ crashes' = crashes + 1
  /\ lock' = IF lock = a THEN Nobody ELSE lock
  /\ loaded' = [loaded EXCEPT ![a] = NoId]
  /\ Forget(a)
  /\ Go(a, "idle")
  /\ UNCHANGED <<files, clock, ops, faults>>

-----------------------------------------------------------------------------

UserAsks(a) ==
  \/ \E id \in Ids : Open(a, id) \/ Delete(a, id)
  \/ \E kept \in SUBSET Ids : Save(a, kept) \/ Compact(a, kept)
  \/ List(a)

\* What the program does on its own once asked.
Works(a) ==
  \/ EnterSave(a) \/ WriteMeta(a) \/ \E bytes \in Sizes : WritePayload(a, bytes)
  \/ WriteFails(a)
  \/ PruneList(a) \/ RemoveNext(a) \/ RemoveSidecar(a) \/ CountDone(a)
  \/ BytesList(a) \/ BytesSum(a) \/ BytesNext(a) \/ BytesDone(a) \/ Return(a)
  \/ \E aged \in SUBSET Ids : EnterCompact(a, aged)
  \/ CompactDone(a) \/ DeletePayload(a) \/ UndoPayload(a)
  \/ \E id \in Ids : ListName(a, id)
  \/ Migrate(a) \/ ListDone(a)

Next == \E a \in Actors : UserAsks(a) \/ Works(a) \/ Crash(a)

\* Every started operation is a running thread, which the system schedules.
Spec == Init /\ [][Next]_vars /\ \A a \in Actors : WF_vars(Works(a))

-----------------------------------------------------------------------------
(* Properties *)

Moves(a) == pc'[a] # pc[a]

\* A session is published with its sidecar and loses it last: whatever the
\* interleaving and wherever an instance is killed, no step leaves a stored
\* session without the sidecar it had, but one whose own operation was refused
\* the payload.
SidecarLast ==
  [][\A id \in payload' \ meta' :
       \/ id \in payload \ meta
       \/ \E a \in Actors : /\ Moves(a) /\ pc[a] \in Sidecars
                            /\ victim[a] = id /\ id \in spared[a]]_vars

\* When a save returns, retention has done its work: besides the sessions it
\* preserves and those it failed to remove, at most Keep of them, and no more
\* bytes than the budget unless nothing else is left or somebody deleted files
\* meanwhile.
Retained ==
  \A a \in Actors : pc[a] = "return" =>
    /\ Cardinality(payload \ (preserve[a] \cup spared[a])) <= Keep
    /\ \/ Bytes(payload \ spared[a]) <= MaxBytes
       \/ payload \subseteq preserve[a] \cup spared[a]
       \/ disturbed[a]

\* A refresh never prunes the session it started from, a compaction never the
\* one its window has open.
PreservedKept ==
  [][\A a \in Actors : (Moves(a) /\ pc[a] \in Pruning \cup Compacting) =>
       preserve[a] \cap payload \subseteq payload']_vars

\* A compaction leaves the last work of the user: whatever it removes, a newer
\* session stays.
NewestKept ==
  [][\A a \in Actors : (Moves(a) /\ pc[a] = "drop" /\ ~disturbed[a]) =>
       \A id \in payload \ payload' : \E other \in payload' : other > id]_vars

\* While a session is being published and the store pruned, no other instance
\* takes it away, short of the user deleting it.
WriterAlone ==
  [][\A a \in Actors : (~Moves(a) /\ pc[a] \in Pruning) =>
       \/ own[a] \notin payload \ payload'
       \/ \E b \in Actors : pc[b] = "delete"]_vars

Returns(a) == pc[a] = "return" /\ pc'[a] = "idle" /\ crashes' = crashes

\* What save_session's docstring says of its result: the path of the session
\* it has stored, or nothing when that failed.
SavedIsStored ==
  [][\A a \in Actors : (Returns(a) /\ ~disturbed[a]) => own[a] \in payload']_vars

\* Nobody waits for the lock for ever, also when its holder was killed.
AllEnd == \A a \in Actors : pc[a] # "idle" ~> pc[a] = "idle"
=============================================================================
