--------------------------- MODULE RemovalHistory ---------------------------
(***************************************************************************)
(* Removals put on record and undone.  to_trash moves objects to the Trash *)
(* and appends what it did to the journal; restore_item moves one object   *)
(* back and marks its item.  Several instances of the program share the    *)
(* journal, under an flock that a killed instance gives up, and the rest   *)
(* of the machine (Finder, other programs) changes the same directories    *)
(* between any two system calls.                                           *)
(*                                                                         *)
(* A directory is an inode that a path may cease to name.  An object is    *)
(* known by its identity, its inode and a stamp for what else              *)
(* _stat_identity compares: size, mtime and ctime.  Whether a move is      *)
(* authorised is the subject of TrashGate: here the paths have passed.     *)
(***************************************************************************)
EXTENDS RemovalJournal

CONSTANTS
  Actors,        \* running instances and their background threads
  Nobody,        \* the lock is free
  Objects,       \* inodes of the files removed and restored
  Stub,          \* the empty file that reserves a name
  Dirs,          \* inodes of directories
  Numbers,       \* 0 is the name itself, n "name (restored n)" or "name n"
  Renames,       \* what the volume offers: "exclusive" rename or "reserve"
  Closed,        \* the rest of the machine keeps out of the windows,
                 \* see InWindow
  RenameTouches, \* a rename moves the ctime of the object
  MaxRequests,   \* bound: calls made
  MaxMeddles     \* bound: changes by the rest of the machine

ASSUME HistoryAssumption ==
  /\ Nobody \notin Actors
  /\ Nothing \notin Objects /\ Stub \notin Objects /\ Stub # Nothing
  /\ Dirs \subseteq Nat /\ {1, 2} \subseteq Dirs
  /\ Numbers \subseteq Nat /\ 0 \in Numbers
  /\ Renames \subseteq {"exclusive", "reserve"}
  /\ Closed \in BOOLEAN /\ RenameTouches \in BOOLEAN
  /\ MaxRequests \in Nat /\ MaxMeddles \in Nat

VARIABLES
  entry,             \* the directory entries: what a name in a directory is
  dirAt,             \* the directories that the original parent and the
                     \* Trash now name
  stamp, content,    \* of each object
  rename,            \* the kind of rename of the volume
  journal,           \* history.json
  lock,              \* who holds removal_history/.lock
  lastId,            \* the last operation id given
  call,              \* per actor, the call it is in
  requests, meddles

disk   == <<entry, dirAt, stamp, content, rename>>
limits == <<requests, meddles>>
vars   == <<entry, dirAt, stamp, content, rename, journal, lock, lastId, call,
            requests, meddles>>

-----------------------------------------------------------------------------
(* Types *)

Names    == Paths \X Numbers
Spots    == Dirs \X Names
Identity == [object : Objects, stamp : Nat]

ItemType == [status : {"trashed", "failed", "restored"},
             bin    : Names \cup {Nothing},
             id     : Identity \cup {Nothing},
             digest : Nat \cup {Nothing}]

IsItems(f) == \E S \in SUBSET Paths : f \in [S -> ItemType]

IsJournal(ops) ==
  /\ ops \in Seq(Range(ops))
  /\ \A k \in DOMAIN ops :
       /\ ops[k].id \in Nat
       /\ ops[k].status \in {"completed", "partial", "failed", "restored"}
       /\ IsItems(ops[k].items)

Removing  == {"move", "locate", "identify", "append"}
Renaming  == {"rename", "reserved", "replace"}
Restoring == {"preflight", "enterRestore", "pin", "read", "choose", "recheck",
              "parents", "write"} \cup Renaming

\* No call, with the locals as a call begins with them.
NoCall == [pc     |-> "idle",
           todo   |-> {},        \* paths it has still to move, locate, check
           rest   |-> {},        \* paths of the operation to restore next
           built  |-> <<>>,      \* items of the operation it will append
           seen   |-> [p \in Paths |-> Nothing],  \* objects it has moved
           store  |-> <<>>,      \* the journal it has read
           opId   |-> 0,         \* the item it restores
           path   |-> Nothing,
           from   |-> Nothing,   \* the rename it makes: the two spots
           to     |-> Nothing,
           expect |-> Nothing,   \* the identity expected at the source
           back   |-> FALSE]     \* the rename undoes an earlier one

IsCall(c) ==
  /\ DOMAIN c = DOMAIN NoCall
  /\ c.pc \in {"idle"} \cup Removing \cup Restoring
  /\ c.todo \subseteq Paths /\ c.rest \subseteq Paths
  /\ IsItems(c.built)
  /\ c.seen \in [Paths -> Objects \cup {Nothing}]
  /\ IsJournal(c.store)
  /\ c.opId \in Nat /\ c.path \in Paths \cup {Nothing}
  /\ c.from \in Spots \cup {Nothing} /\ c.to \in Spots \cup {Nothing}
  /\ c.expect \in Identity \cup {Nothing}
  /\ c.back \in BOOLEAN

TypeOK ==
  /\ entry \in [Spots -> Objects \cup {Nothing, Stub}]
  /\ dirAt \in [{"home", "trash"} -> Dirs]
  /\ stamp \in [Objects -> Nat] /\ content \in [Objects -> Nat]
  /\ rename \in Renames
  /\ IsJournal(journal)
  /\ lock \in Actors \cup {Nobody}
  /\ lastId \in Nat
  /\ DOMAIN call = Actors /\ \A a \in Actors : IsCall(call[a])
  /\ requests \in 0..MaxRequests
  /\ meddles \in 0..MaxMeddles

-----------------------------------------------------------------------------
(* The file system *)

Id(o) == [object |-> o, stamp |-> stamp[o]]

Home(p)    == <<dirAt["home"], <<p, 0>>>>
InTrash(n) == <<dirAt["trash"], n>>

Holds(spot, o) == entry[spot] = o

IsObject(spot) == entry[spot] \in Objects

Absent(o) == \A s \in Spots : ~Holds(s, o)

\* The object at one spot moves to another; a stub there is overwritten.
Rename(src, dst) ==
  /\ entry' = [entry EXCEPT ![dst] = entry[src], ![src] = Nothing]
  /\ stamp' = IF RenameTouches
                THEN [stamp EXCEPT ![entry[src]] = @ + 1]
                ELSE stamp
  /\ UNCHANGED <<dirAt, content, rename>>

Unlink(spot) ==
  /\ entry' = [entry EXCEPT ![spot] = Nothing]
  /\ UNCHANGED <<dirAt, stamp, content, rename>>

\* The item as recorded describes this object.
Matches(item, o) ==
  /\ item.id # Nothing => item.id = Id(o)
  /\ item.digest # Nothing => item.digest = content[o]

\* The item of an object in the Trash, with a digest or without.
Trashed(bin, id, digest) ==
  [status |-> "trashed", bin |-> bin, id |-> id, digest |-> digest]

\* Objects at some of the paths, or all removed by one earlier call.
Init ==
  /\ dirAt = [home |-> 1, trash |-> 2]
  /\ stamp = [o \in Objects |-> 0] /\ content = [o \in Objects |-> 0]
  /\ \E at \in [Paths -> Objects \cup {Nothing}], digest \in {Nothing, 0} :
     \E gone \in {{}, {p \in Paths : at[p] # Nothing}} :
       /\ \A p, q \in Paths : at[p] # Nothing /\ at[p] = at[q] => p = q
       /\ entry = [s \in Spots |->
                     LET p == s[2][1]
                     IN  IF s[2][2] = 0 /\ s[1] = (IF p \in gone THEN 2 ELSE 1)
                           THEN at[p] ELSE Nothing]
       /\ journal = IF gone = {} THEN <<>> ELSE
                      <<Operation(1, [p \in gone |->
                                        Trashed(<<p, 0>>, Id(at[p]), digest)])>>
       /\ WeightOf(journal) <= MaxWeight
  /\ lastId = Len(journal)
  /\ rename \in Renames
  /\ lock = Nobody
  /\ call = [a \in Actors |-> NoCall]
  /\ requests = 0 /\ meddles = 0

-----------------------------------------------------------------------------
(* Starting and ending a call *)

At(a, label) == call[a].pc = label

Ready(a) == At(a, "idle") /\ requests < MaxRequests

Begin(a, c) ==
  /\ call' = [call EXCEPT ![a] = c]
  /\ requests' = requests + 1
  /\ UNCHANGED <<disk, journal, lock, lastId, meddles>>

Go(a, label) == call' = [call EXCEPT ![a].pc = label] /\ UNCHANGED lock

\* A call ends: the lock it held is free, its locals are gone.
Leave(a) ==
  /\ lock' = IF lock = a THEN Nobody ELSE lock
  /\ call' = [call EXCEPT ![a] = NoCall]

\* Mutant: the journal is read without waiting for the lock.
EnterUnlocked(a, label) ==
  /\ lock' = a
  /\ call' = [call EXCEPT ![a].pc = label, ![a].store = journal]

\* flock(LOCK_EX) and _read; the journal is always valid, see Readable.
Enter(a, label) ==
  /\ lock = Nobody /\ lock' = a
  /\ call' = [call EXCEPT ![a].pc = label, ![a].store = journal]

-----------------------------------------------------------------------------
(* to_trash: moves, then the record of them *)

AskRemove(a) ==
  /\ Ready(a)
  /\ \E S \in (SUBSET Paths) \ {{}} :
       Begin(a, [NoCall EXCEPT !.pc = "move", !.todo = S])

\* The items with one more.
With(items, p, item) ==
  [q \in DOMAIN items \cup {p} |-> IF q = p THEN item ELSE items[q]]

\* send2trash gives the object a free name; a proven file has a digest.
Move(a) ==
  /\ At(a, "move")
  /\ \E p \in call[a].todo, k \in Numbers :
       LET bin == <<p, k>>
           o   == entry[Home(p)]
       IN  /\ IsObject(Home(p)) /\ Holds(InTrash(bin), Nothing)
           /\ Rename(Home(p), InTrash(bin))
           /\ \E digest \in {Nothing, content[o]} :
                LET item == Trashed(Nothing, Nothing, digest)
                IN  call' = [call EXCEPT ![a].seen[p] = o,
                                         ![a].built = With(@, p, item),
                                         ![a].todo = @ \ {p}]
  /\ UNCHANGED <<limits, journal, lock, lastId>>

\* send2trash fails; of a path with no object there is no item.
MoveFails(a) ==
  /\ At(a, "move")
  /\ \E p \in call[a].todo :
       LET item == [Trashed(Nothing, Nothing, Nothing) EXCEPT
                      !.status = "failed"]
       IN  call' = [call EXCEPT ![a].built = IF IsObject(Home(p))
                                               THEN With(@, p, item) ELSE @,
                                ![a].todo = @ \ {p}]
  /\ UNCHANGED <<limits, disk, journal, lock, lastId>>

\* The journal is not written when there is no item.
Moved(a) ==
  /\ At(a, "move") /\ call[a].todo = {}
  /\ LET items == call[a].built
         moved == {p \in DOMAIN items : items[p].status = "trashed"}
     IN  IF DOMAIN items = {}
           THEN Leave(a)
           ELSE /\ call' = [call EXCEPT ![a].pc = "locate", ![a].todo = moved]
                /\ UNCHANGED lock
  /\ UNCHANGED <<limits, disk, journal, lastId>>

\* Mutant: an object that is not found is recorded where it was removed from.
LocateOriginal(a) ==
  /\ At(a, "locate")
  /\ \E p \in call[a].todo :
       LET bins == {n \in Names : Holds(InTrash(n), call[a].seen[p])}
       IN  IF bins = {}
             THEN call' = [call EXCEPT ![a].built[p].bin = Home(p),
                                       ![a].todo = @ \ {p}]
             ELSE \E n \in bins :
                    call' = [call EXCEPT ![a].built[p].bin = n, ![a].path = p,
                                         ![a].pc = "identify"]
  /\ UNCHANGED <<limits, disk, journal, lock, lastId>>

\* locate: the object of this inode in the Trash, or none.
Locate(a) ==
  /\ At(a, "locate")
  /\ \E p \in call[a].todo :
       LET bins == {n \in Names : Holds(InTrash(n), call[a].seen[p])}
       IN  IF bins = {}
             THEN call' = [call EXCEPT ![a].todo = @ \ {p}]
             ELSE \E n \in bins :
                    call' = [call EXCEPT ![a].built[p].bin = n, ![a].path = p,
                                         ![a].pc = "identify"]
  /\ UNCHANGED <<limits, disk, journal, lock, lastId>>

\* Its identity is recorded while the name is still that of the object.
Identify(a) ==
  /\ At(a, "identify")
  /\ LET p == call[a].path
         o == call[a].seen[p]
         n == call[a].built[p].bin
     IN  call' = [call EXCEPT
                    ![a].built[p].id = IF Holds(InTrash(n), o)
                                         THEN Id(o) ELSE Nothing,
                    ![a].todo = @ \ {p}, ![a].pc = "locate"]
  /\ UNCHANGED <<limits, disk, journal, lock, lastId>>

EnterAppend(a) ==
  /\ At(a, "locate") /\ call[a].todo = {} /\ Enter(a, "append")
  /\ UNCHANGED <<limits, disk, journal, lastId>>

Appended(a) == Append(call[a].store, Operation(lastId + 1, call[a].built))

AppendOperation(a) ==
  /\ At(a, "append") /\ Storable(Appended(a))
  /\ journal' = Bound(Appended(a))
  /\ lastId' = lastId + 1
  /\ Leave(a)
  /\ UNCHANGED <<limits, disk>>

\* _write fails, or the operation is too large: to_trash goes on without.
AppendFails(a) ==
  /\ At(a, "append") /\ Leave(a)
  /\ UNCHANGED <<limits, disk, journal, lastId>>

-----------------------------------------------------------------------------
(* restore_item and restore_operation *)

\* The user picks a row of a list that may be out of date.
AskRestore(a) ==
  /\ Ready(a)
  /\ \E id \in 1..lastId, p \in Paths :
       Begin(a, [NoCall EXCEPT !.pc = "enterRestore", !.opId = id, !.path = p])

\* restore_operation reads the operation in a critical section of its own.
AskRestoreAll(a) ==
  /\ Ready(a) /\ lock = Nobody
  /\ \E k \in DOMAIN journal :
       LET items   == journal[k].items
           pending == {p \in DOMAIN items : items[p].status # "restored"}
       IN  /\ \A p \in pending : items[p].bin # Nothing
           /\ Begin(a, [NoCall EXCEPT !.pc = "preflight",
                                      !.opId = journal[k].id,
                                      !.todo = pending, !.rest = pending,
                                      !.store = journal])

Current(a) == Item(call[a].store, call[a].opId, call[a].path)

\* _preflight_restore_record of each item, before any is moved: the record has
\* a proof and the object it names is in the Trash.
Preflight(a) ==
  /\ At(a, "preflight")
  /\ \E p \in call[a].todo :
       LET item == Item(call[a].store, call[a].opId, p)
           src  == InTrash(item.bin)
       IN  IF HasProof(item) /\ IsObject(src) /\ Matches(item, entry[src])
             THEN call' = [call EXCEPT ![a].todo = @ \ {p}] /\ UNCHANGED lock
             ELSE Leave(a)
  /\ UNCHANGED <<limits, disk, journal, lastId>>

\* Each item of the operation is restored in a critical section of its own.
NextItem(a) ==
  IF call[a].rest = {}
    THEN Leave(a)
    ELSE /\ lock' = IF lock = a THEN Nobody ELSE lock
         /\ \E p \in call[a].rest :
              call' = [call EXCEPT ![a] =
                         [NoCall EXCEPT !.pc = "enterRestore", !.path = p,
                                        !.opId = call[a].opId,
                                        !.rest = call[a].rest \ {p}]]

PreflightDone(a) ==
  /\ At(a, "preflight") /\ call[a].todo = {} /\ NextItem(a)
  /\ UNCHANGED <<limits, disk, journal, lastId>>

\* KeyError, or an item that does not say where in the Trash it is.
Unlisted(a) ==
  /\ At(a, "enterRestore") /\ lock = Nobody
  /\ ~Listed(journal, call[a].opId, call[a].path)
  /\ Leave(a)
  /\ UNCHANGED <<limits, disk, journal, lastId>>

EnterRestore(a) ==
  /\ At(a, "enterRestore") /\ Enter(a, "pin")
  /\ Listed(journal, call[a].opId, call[a].path)
  /\ UNCHANGED <<limits, disk, journal, lastId>>

\* Both parent directories are opened and the entry is compared with the
\* record.  A parent may also be gone or lie outside the allowed roots.
Pin(a) ==
  /\ At(a, "pin")
  /\ LET item == Current(a)
         src  == InTrash(item.bin)
         next == IF item.digest # Nothing THEN "read" ELSE "choose"
     IN  \/ /\ IsObject(src) /\ HasProof(item)
            /\ item.id # Nothing => item.id = Id(entry[src])
            /\ call' = [call EXCEPT ![a].from = src,
                                    ![a].to = Home(call[a].path),
                                    ![a].expect = Id(entry[src]),
                                    ![a].pc = next]
            /\ UNCHANGED lock
         \/ Leave(a)
  /\ UNCHANGED <<limits, disk, journal, lastId>>

\* _verified_digest_at, after which the entry's identity is the one read.
ReadDigest(a) ==
  /\ At(a, "read")
  /\ LET src == call[a].from
     IN  IF IsObject(src) /\ Matches(Current(a), entry[src])
           THEN /\ call' = [call EXCEPT ![a].expect = Id(entry[src]),
                                        ![a].pc = "choose"]
                /\ UNCHANGED lock
           ELSE Leave(a)
  /\ UNCHANGED <<limits, disk, journal, lastId>>

\* _collision_destination_name: the original name or the first free number.
ChooseName(a) ==
  /\ At(a, "choose")
  /\ LET spot(k) == <<call[a].to[1], <<call[a].path, k>>>>
         free    == {k \in Numbers : Holds(spot(k), Nothing)}
     IN  IF free = {}
           THEN Leave(a)
           ELSE /\ call' = [call EXCEPT ![a].to = spot(Min(free)),
                                        ![a].pc = "recheck"]
                /\ UNCHANGED lock
  /\ UNCHANGED <<limits, disk, journal, lastId>>

\* Both paths still name the directories that the restore has open.
SameParents(a) ==
  LET away == IF call[a].back THEN call[a].from ELSE call[a].to
      bin  == IF call[a].back THEN call[a].to ELSE call[a].from
  IN  away[1] = dirAt["home"] /\ bin[1] = dirAt["trash"]

\* Mutant: the source entry is not looked at again.
RecheckParentsOnly(a) ==
  /\ At(a, "recheck")
  /\ IF SameParents(a) /\ IsObject(call[a].from)
       THEN Go(a, "rename") ELSE Leave(a)
  /\ UNCHANGED <<limits, disk, journal, lastId>>

Recheck(a) ==
  /\ At(a, "recheck")
  /\ IF /\ SameParents(a)
        /\ IsObject(call[a].from) /\ Id(entry[call[a].from]) = call[a].expect
       THEN Go(a, "rename") ELSE Leave(a)
  /\ UNCHANGED <<limits, disk, journal, lastId>>

\* The rename goes through.  A rollback then ends the call, and so does a
\* rename that fails, which is a RuntimeError when it is the rollback's.
Publish(a) ==
  /\ Rename(call[a].from, call[a].to)
  /\ IF call[a].back THEN Leave(a) ELSE Go(a, "parents")

\* Mutant: rename(2), which replaces what has the name.
RenameReplacing(a) ==
  /\ At(a, "rename") /\ rename = "exclusive"
  /\ IF IsObject(call[a].from) THEN Publish(a) ELSE Leave(a) /\ UNCHANGED disk
  /\ UNCHANGED <<limits, journal, lastId>>

\* renameatx_np(RENAME_EXCL), renameat2(RENAME_NOREPLACE)
RenameExclusive(a) ==
  /\ At(a, "rename") /\ rename = "exclusive"
  /\ IF IsObject(call[a].from) /\ Holds(call[a].to, Nothing)
       THEN Publish(a) ELSE Leave(a) /\ UNCHANGED disk
  /\ UNCHANGED <<limits, journal, lastId>>

\* The volume has no such rename: the name is reserved by an empty file,
Reserve(a) ==
  /\ At(a, "rename") /\ rename = "reserve"
  /\ IF IsObject(call[a].from) /\ Holds(call[a].to, Nothing)
       THEN /\ entry' = [entry EXCEPT ![call[a].to] = Stub]
            /\ Go(a, "reserved")
       ELSE Leave(a) /\ UNCHANGED entry
  /\ UNCHANGED <<limits, dirAt, stamp, content, rename, journal, lastId>>

\* which must still be there; otherwise whatever has the name is unlinked,
CheckReserved(a) ==
  /\ At(a, "reserved")
  /\ IF Holds(call[a].to, Stub)
       THEN Go(a, "replace") /\ UNCHANGED disk
       ELSE Unlink(call[a].to) /\ Leave(a)
  /\ UNCHANGED <<limits, journal, lastId>>

\* and os.replace overwrites it, or fails and the name is unlinked.
Replace(a) ==
  /\ At(a, "replace")
  /\ IF IsObject(call[a].from)
       THEN Publish(a) ELSE Unlink(call[a].to) /\ Leave(a)
  /\ UNCHANGED <<limits, journal, lastId>>

Undo(a) ==
  /\ call' = [call EXCEPT ![a].from = call[a].to, ![a].to = call[a].from,
                          ![a].back = TRUE, ![a].pc = "rename"]
  /\ UNCHANGED lock

\* A parent was replaced during the rename: it is undone.
CheckParents(a) ==
  /\ At(a, "parents")
  /\ IF SameParents(a) THEN Go(a, "write") ELSE Undo(a)
  /\ UNCHANGED <<limits, disk, journal, lastId>>

Marked(a) == MarkRestored(call[a].store, call[a].opId, call[a].path)

WriteRestored(a) ==
  /\ At(a, "write") /\ Storable(Marked(a))
  /\ journal' = Bound(Marked(a))
  /\ NextItem(a)
  /\ UNCHANGED <<limits, disk, lastId>>

\* The journal cannot be written: the rename is undone.
WriteFails(a) ==
  /\ At(a, "write") /\ Undo(a)
  /\ UNCHANGED <<limits, disk, journal, lastId>>

-----------------------------------------------------------------------------
(* Kills, and the rest of the machine *)

Crash(a) ==
  /\ ~At(a, "idle") /\ Leave(a)
  /\ UNCHANGED <<limits, disk, journal, lastId>>

\* Between the check of an object or of a reservation and the rename that
\* relies on it, when it is assumed that nobody else touches the two names.
InWindow(spot) ==
  /\ Closed
  /\ \E a \in Actors :
       \/ call[a].pc \in Renaming /\ spot = call[a].from
       \/ call[a].pc \in {"reserved", "replace"} /\ spot = call[a].to

Reachable(spot) == spot[1] \in {dirAt["home"], dirAt["trash"]}

Appear ==
  \E o \in Objects, s \in Spots :
    /\ Absent(o) /\ Reachable(s) /\ ~InWindow(s)
    /\ entry[s] \in {Nothing, Stub}
    /\ entry' = [entry EXCEPT ![s] = o]
    /\ stamp' = [stamp EXCEPT ![o] = @ + 1]
    /\ content' = [content EXCEPT ![o] = @ + 1]
    /\ UNCHANGED <<dirAt, rename>>

Vanish == \E s \in Spots : IsObject(s) /\ ~InWindow(s) /\ Unlink(s)

Shift ==
  \E s, t \in Spots :
    /\ IsObject(s) /\ Holds(t, Nothing) /\ Reachable(t)
    /\ ~InWindow(s) /\ ~InWindow(t)
    /\ Rename(s, t)

Edit ==
  \E o \in Objects :
    /\ \A s \in Spots : Holds(s, o) => ~InWindow(s)
    /\ stamp' = [stamp EXCEPT ![o] = @ + 1]
    /\ content' = [content EXCEPT ![o] = @ + 1]
    /\ UNCHANGED <<entry, dirAt, rename>>

\* A directory is moved away and an empty one takes its name.
SwapDirectory ==
  \E f \in {"home", "trash"}, d \in Dirs :
    /\ d \notin {dirAt["home"], dirAt["trash"]}
    /\ \A n \in Names : Holds(<<d, n>>, Nothing)
    /\ dirAt' = [dirAt EXCEPT ![f] = d]
    /\ UNCHANGED <<entry, stamp, content, rename>>

Meddle ==
  /\ meddles < MaxMeddles
  /\ Appear \/ Vanish \/ Shift \/ Edit \/ SwapDirectory
  /\ meddles' = meddles + 1
  /\ UNCHANGED <<requests, journal, lock, lastId, call>>

Ask(a) == AskRemove(a) \/ AskRestore(a) \/ AskRestoreAll(a)

Work(a) ==
  \/ Move(a) \/ MoveFails(a) \/ Moved(a)
  \/ Locate(a) \/ Identify(a)
  \/ EnterAppend(a) \/ AppendOperation(a) \/ AppendFails(a)
  \/ Preflight(a) \/ PreflightDone(a) \/ Unlisted(a) \/ EnterRestore(a)
  \/ Pin(a) \/ ReadDigest(a) \/ ChooseName(a) \/ Recheck(a)
  \/ RenameExclusive(a) \/ Reserve(a) \/ CheckReserved(a) \/ Replace(a)
  \/ CheckParents(a) \/ WriteRestored(a) \/ WriteFails(a)

Next == (\E a \in Actors : Ask(a) \/ Work(a) \/ Crash(a)) \/ Meddle

\* A started call runs on a thread that the system schedules.
Spec == Init /\ [][Next]_vars /\ \A a \in Actors : WF_vars(Work(a))

-----------------------------------------------------------------------------
(* What holds between the steps, for the proofs *)

\* Where a call is inside the critical section.
Locked == {"append", "pin", "read", "choose", "recheck", "parents", "write"}
            \cup Renaming

\* Who is inside holds the lock and has read the journal as it still is.
HoldsLock(a) == call[a].pc \in Locked => lock = a /\ call[a].store = journal

\* The item being restored is in the journal; past the check of its record it
\* has a proof, and the spots of the rename are known.
KnowsItem(a) ==
  /\ call[a].pc \in Locked \ {"append"} =>
       Listed(call[a].store, call[a].opId, call[a].path)
  /\ call[a].pc \in Locked \ {"append", "pin"} =>
       /\ HasProof(Current(a))
       /\ call[a].from \in Spots /\ call[a].to \in Spots

\* What is looked for in the Trash has been moved there.
KnowsMoved(a) ==
  /\ call[a].pc = "move" =>
       \A p \in DOMAIN call[a].built :
         call[a].built[p].status = "trashed" => call[a].seen[p] \in Objects
  /\ call[a].pc \in {"locate", "identify"} =>
       \A p \in call[a].todo : call[a].seen[p] \in Objects
  /\ call[a].pc = "identify" => call[a].path \in call[a].todo

CallOK(a) == HoldsLock(a) /\ KnowsItem(a) /\ KnowsMoved(a)

\* The next operation's id is new.
Numbered == \A k \in DOMAIN journal : journal[k].id <= lastId

IInv == /\ ValidStore(journal) /\ Numbered
        /\ \A a \in Actors : CallOK(a)

-----------------------------------------------------------------------------
(* Properties *)

\* What is written to history.json can be read again (_validate_store): a
\* journal that the reader refuses would end restoring and recording for good.
Readable == ValidStore(journal)

\* The instances' updates of the shared journal are atomic: none is lost, and
\* none is applied to a journal that has changed since it was read (_locked).
Ledger == INSTANCE RemovalLedger WITH journal <- journal
LedgerSpec == Ledger!Spec

\* No step of the program destroys an object: a restore never takes a name
\* that something has by then, and a rollback puts nothing on top of what has
\* appeared in the Trash (_renameat_noreplace).
Present == {o \in Objects : ~Absent(o)}
NothingLost == [][meddles' = meddles => Present \subseteq Present']_vars

\* What a restore moves out of the Trash is the recorded object, unmodified,
\* whatever was done to the Trash since the record and during the restore.
RestoresRecorded ==
  [][\A a \in Actors :
       call[a].pc \in Renaming /\ call'[a].pc = "parents" =>
         HasProof(Current(a)) /\ Matches(Current(a), entry[call[a].from])]_vars

\* A rollback leaves the item restorable: if the record proved the object, it
\* proves the object put back ("Keep disk state and the durable audit record
\* consistent", restore_item).
RollbackKeepsProof ==
  [][\A a \in Actors :
       LET item == Current(a)
           o    == call[a].expect.object
       IN  (/\ call[a].back /\ meddles = 0 /\ item.id = call[a].expect
            /\ Holds(call[a].from, o) /\ entry'[call[a].to] = o) =>
             item.id = [object |-> o, stamp |-> stamp'[o]]]_vars
=============================================================================
