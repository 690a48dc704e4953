-------------------------------- MODULE Scan --------------------------------
(***************************************************************************)
(* A scan and the workers that run one: the walk of the folders by threads *)
(* that only read and one that merges, the funnel from size over a probe   *)
(* of the first bytes to a full hash with its cache, its pool of readers   *)
(* and the gate that limits them, the aggregation (Folders), the refresh   *)
(* of an old session, and the pruning of a result after a removal.  Other  *)
(* programs act on the folders meanwhile.                                  *)
(*                                                                         *)
(* An entry of a folder names an inode; an inode has a kind, a content     *)
(* (for a link, its target) and a stamp: the metadata proof_is_current     *)
(* compares, which moves with every change.                                *)
(***************************************************************************)
EXTENDS Folders

CONSTANTS
  Inodes,       \* the inodes of the volume
  Kind,         \* "file", "link", "special" or "cloud" (not stored locally)
  Contents,     \* contents of files and targets of links
  SizeOf,       \* the size of a content
  Probe,        \* what a read of the first PARTIAL bytes tells of a content
  Partial,      \* PARTIAL: a file this small is read whole by the probe
  Layouts,      \* bound: volumes, profiles, caches and kinds of scan
  Spare,        \* an inode for a file saved over another
  WalkThreads,  \* bound: WALK_THREADS
  Pool,         \* bound: readers of the hash pool
  MaxTicks,     \* bound: decisions of the gate's controller
  MaxEvents     \* bound: changes by others, failing calls and pauses

Error == "error"                \* instead of a digest: an OSError
None  == "none"                 \* instead of a digest: stopped by cancel

\* A content that the probe reads whole is told by it, and a size of 0 tells all.
ASSUME ScanAssumption ==
  /\ Kind \in [Inodes -> {"file", "link", "special", "cloud"}]
  /\ SizeOf \in [Contents -> Nat]
  /\ \A c \in Contents : SizeOf[c] <= Partial => Probe[c] = c
  /\ \A c \in Contents : {c, Probe[c]} \cap {Error, None} = {}
  /\ \A c, d \in Contents : SizeOf[c] = 0 /\ SizeOf[d] = 0 => c = d
  /\ Spare \in Inodes /\ Kind[Spare] = "file"
  /\ {Partial, WalkThreads, Pool} \subseteq Nat \ {0}
  /\ {MaxTicks, MaxEvents} \subseteq Nat

\* What an inode held: the stamp is 1 when the scan begins, and 0 at some time
\* before, of which only the rows kept from earlier scans tell.
HeldBefore(l) ==
  [x \in Inodes \X {0, 1} |-> IF x[2] = 0 THEN l.before[x[1]] ELSE l.content[x[1]]]

\* A row of the cache and the identity it was recorded under.
RowTrue(row, kind, held) ==
  /\ kind \in {"p", "f"} /\ row.id \in DOMAIN held
  /\ row.digest = IF kind = "f" THEN held[row.id] ELSE Probe[held[row.id]]

\* A volume to scan: what a folder or an entry is in is there, no name is that of
\* a folder and of another entry, and the rows of the cache and of the session
\* before are true.
Volume(l) ==
  /\ l.mode \in {"scan", "refresh", "pair"} /\ l.cap \in Nat
  /\ l.roots \subseteq Dirs /\ l.folders \subseteq Dirs
  /\ IsFiniteSet(l.roots \cup l.folders)
  /\ \A d \in l.folders : Ancestors[d] \subseteq l.folders
  /\ DOMAIN l.entry \subseteq Dirs \X Nat /\ IsFiniteSet(DOMAIN l.entry)
  /\ \A p \in DOMAIN l.entry : l.entry[p] \in Inodes /\ p[1] \in l.folders
  /\ \A d \in l.roots \cup l.folders : <<ParentOf[d], DirName[d]>> \notin DOMAIN l.entry
  /\ {l.content, l.before} \subseteq [Inodes -> Contents]
  /\ \A x \in DOMAIN l.rows : RowTrue(l.rows[x], x[2], HeldBefore(l))
  /\ \A x \in DOMAIN l.previous : RowTrue(l.previous[x], x[2], HeldBefore(l))

ASSUME LayoutAssumption == \A l \in Layouts : Volume(l)

VARIABLES
  layout,                       \* what Init chose and nothing changes
  entry, folders, content, stamp,                       \* the disk
  away, returned,               \* another root is in the place; history: was
  was, events,                  \* history: what an identity held; the bound
  phase, cancel, paused,        \* the worker
  rootId, rootsRead,            \* identity of the root: first seen; listed
  todo, opened, seen,           \* the walk
  res,                          \* the ScanResult
  job, found,                   \* the hash stage
  rows, cacheOn,                \* the hash cache
  gate,                         \* AdaptiveConcurrency
  saved, removed                \* the session was saved; paths taken away

disk   == <<entry, folders, away, returned, content, stamp, was, events>>
walk   == <<todo, opened, seen>>
hash   == <<job, found, gate>>
store  == <<rows, cacheOn>>
ends   == <<saved, removed>>
roots  == <<rootId, rootsRead>>
vars   == <<layout, disk, phase, cancel, paused, roots, walk, res, hash,
            store, ends>>

Final == {"done", "failed", "cancelled", "pruned", "loaded", "refused"}
\* BLAKE3 of no byte: the content of size 0.
Empty == CHOOSE c \in Contents : SizeOf[c] = 0

Id(i)   == <<i, stamp[i]>>
Here(p) == ~away /\ p \in DOMAIN entry
Links(i) == Cardinality({p \in DOMAIN entry : entry[p] = i})

\* proof_is_current
Current(p) == Here(p) /\ Id(entry[p]) = res.meta[p].id

Running == ~paused \/ cancel

RootNow == IF away THEN 2 ELSE 1

\* _root_identities on the roots kept at the start.
RootChanged == RootNow # rootId

\* No root inside another.
NormalRoots(ds) ==
  {d \in ds : \A e \in ds : Inside(d, e) => d = e}

Gate0(cap) == [limit |-> IF cap < 2 THEN cap ELSE 2, cap |-> cap, active |-> 0,
               pending |-> 0, cooldown |-> 0, streak |-> 0, ticks |-> 0]

Init ==
  /\ layout \in Layouts
  /\ entry = layout.entry /\ folders = layout.folders
  /\ away = FALSE /\ returned = FALSE
  /\ content = layout.content
  /\ stamp = [i \in Inodes |-> 1]
  /\ was = HeldBefore(layout)
  /\ events = 0
  /\ phase = "start" /\ cancel = FALSE /\ paused = FALSE
  /\ rootId = 0 /\ rootsRead = {}
  /\ todo = {} /\ opened = Map0 /\ seen = Map0
  /\ res = NewResult
  /\ job = Map0 /\ found = Map0
  /\ rows = layout.rows /\ cacheOn = FALSE
  /\ gate = Gate0(layout.cap)
  /\ saved = FALSE /\ removed = {}
-----------------------------------------------------------------------------
\* The worker up to the scan itself.

Stop(how) ==
  /\ phase' = how
  /\ UNCHANGED <<layout, disk, cancel, paused, roots, walk, res, hash, store,
                 ends>>

\* ScanWorker, PairVerificationWorker: open the cache, or go on without.
OpenCache ==
  /\ cacheOn' \in (IF events < MaxEvents THEN BOOLEAN ELSE {TRUE})
  /\ events' = IF cacheOn' THEN events ELSE events + 1
  /\ UNCHANGED <<entry, folders, away, returned, content, stamp, was>>

BeginScan ==
  /\ phase = "start" /\ layout.mode # "refresh"
  /\ OpenCache
  /\ phase' = "walk" /\ todo' = NormalRoots(layout.roots)
  /\ UNCHANGED <<layout, cancel, paused, roots, opened, seen, res, hash, rows,
                 ends>>

\* SessionRefreshWorker: the identity of the root is kept before anything.
BeginRefresh ==
  /\ phase = "start" /\ layout.mode = "refresh" /\ Running /\ ~cancel
  /\ OpenCache
  /\ rootId' = RootNow
  /\ phase' = "seed"
  /\ UNCHANGED <<layout, cancel, paused, rootsRead, walk, res, hash, rows, ends>>

\* The hashes of the old session go into the cache under the full identity
\* they were taken with; the root must still be the one that was checked.
SeedCache ==
  /\ phase = "seed" /\ Running /\ ~cancel /\ ~RootChanged
  /\ rows' = IF cacheOn THEN Over(layout.previous, rows) ELSE rows
  /\ phase' = "walk" /\ todo' = NormalRoots(layout.roots)
  /\ UNCHANGED <<layout, disk, cancel, paused, roots, opened, seen, res, hash,
                 cacheOn, ends>>

\* Mutant: a refresh that finds another root says nothing.
RefreshStoppedSilently ==
  /\ phase \in {"start", "seed"} /\ layout.mode = "refresh" /\ cancel
  /\ Stop("cancelled")

RefreshStopped ==
  /\ phase \in {"start", "seed"} /\ layout.mode = "refresh"
  /\ \/ cancel /\ Stop("cancelled")
     \/ /\ phase = "seed" /\ Running /\ ~cancel /\ RootChanged
        /\ Stop("failed")
-----------------------------------------------------------------------------
\* The walk.  A thread lists a folder and takes the lstat of each entry; the
\* scan thread merges what it brings.  os.walk goes through the folders in
\* depth first order and alone, the pool wave by wave: any order of the folders
\* discovered stands for both.

Subfolders(d) == {k \in folders : ParentOf[k] = d}

\* What a folder lists; the one mounted in the place of the root is empty.
Listed(d) ==
  LET subs == IF away THEN {} ELSE Subfolders(d)
  IN  [left |-> {p \in DOMAIN entry : p[1] = d /\ Here(p)}, got |-> {},
       subs |-> subs \ layout.skipped, ok |-> subs \cap layout.skipped = {},
       err  |-> FALSE]

ListDir(d) ==
  /\ phase = "walk" /\ Running /\ ~cancel
  /\ d \in todo /\ Cardinality(DOMAIN opened) < WalkThreads
  /\ todo' = todo \ {d}
  /\ rootsRead' = rootsRead \cup {RootNow}
  /\ opened' =
       IF \/ d \in layout.denied
          \/ d \notin layout.roots /\ (away \/ d \notin folders)
       THEN opened                          \* no entry in dir_ok
       ELSE Put(opened, d, Listed(d))
  /\ UNCHANGED <<layout, disk, phase, cancel, paused, rootId, seen, res, hash,
                 store, ends>>

\* One entry: gone since it was listed, or what its lstat says.
StatEntry(d) ==
  /\ phase = "walk" /\ d \in DOMAIN opened /\ opened[d].left # {}
  /\ LET p == CHOOSE q \in opened[d].left :
                \A s \in opened[d].left : q[2] <= s[2]
         i == entry[p]
         st == [path |-> p, kind |-> Kind[i], id |-> Id(i), nlink |-> Links(i),
                data |-> content[i]]
         rest == [opened[d] EXCEPT !.left = @ \ {p}]
     IN  opened' = [opened EXCEPT ![d] =
           IF Here(p) THEN [rest EXCEPT !.got = @ \cup {st}]
                      ELSE [rest EXCEPT !.ok = FALSE, !.err = TRUE]]
  /\ UNCHANGED <<layout, disk, phase, cancel, paused, roots, todo, seen, res,
                 hash, store, ends>>

\* take_file and take_link on the entries of one folder.
Filtered(s) == s.path \in layout.filtered

Taken(got) == {s \in got : s.kind = "file" /\ ~Filtered(s)}

\* The name by which a file with several is known: the first one met.
Canonical(got, s) ==
  LET i == s.id[1]
  IN  IF s.nlink = 1 THEN s.path
      ELSE IF i \in DOMAIN seen THEN seen[i]
      ELSE (CHOOSE t \in Taken(got) :
              t.id[1] = i /\ \A u \in Taken(got) :
                u.id[1] = i => t.path[2] <= u.path[2]).path

\* Mutant: an entry that is not read leaves the manifest of its folder whole.
MergedDirUnpoisoned(d, o) ==
  LET new == {s \in Taken(o.got) : Canonical(o.got, s) = s.path}
      meta == [p \in {s.path : s \in new} |->
                 LET s == CHOOSE t \in new : t.path = p
                 IN  [id |-> s.id, size |-> SizeOf[s.data]]]
  IN  [res EXCEPT
         !.meta = Over(meta, @), !.ok = Put(@, d, o.ok),
         !.children = Put(@, d, o.subs),
         !.links = Put(@, d, {}), !.aliases = Put(@, d, {})]

MergedDir(d, o) ==
  LET new == {s \in Taken(o.got) : Canonical(o.got, s) = s.path}
      unread == {s \in o.got : s.kind \in {"special", "cloud"}}
      meta == [p \in {s.path : s \in new} |->
                 LET s == CHOOSE t \in new : t.path = p
                 IN  [id |-> s.id, size |-> SizeOf[s.data]]]
  IN  [res EXCEPT
         !.meta     = Over(meta, @),
         !.ok       = Put(@, d, /\ o.ok /\ unread = {}
                                /\ \A s \in o.got : ~Filtered(s)),
         !.failed   = IF o.err \/ unread # {} THEN @ \cup {d} ELSE @,
         !.children = Put(@, d, o.subs),
         !.links    = Put(@, d, {<<"L", s.path[2], s.data>> :
                                   s \in {t \in o.got : t.kind = "link"
                                                        /\ ~Filtered(t)}}),
         !.aliases  = Put(@, d, {<<s.path, Canonical(o.got, s)>> :
                                   s \in Taken(o.got) \ new})]

MergeDir(d) ==
  /\ phase = "walk" /\ Running /\ ~cancel
  /\ d \in DOMAIN opened /\ opened[d].left = {}
  /\ LET o == opened[d]
     IN  /\ res' = MergedDir(d, o)
         /\ seen' = Over([i \in {s.id[1] :
                                   s \in {t \in Taken(o.got) : t.nlink > 1}}
                            |-> Canonical(o.got, CHOOSE s \in Taken(o.got) :
                                                    s.id[1] = i)], seen)
         /\ todo' = todo \cup o.subs
  /\ opened' = Restrict(opened, DOMAIN opened \ {d})
  /\ UNCHANGED <<layout, disk, phase, cancel, paused, roots, hash, store, ends>>

WalkCancelled ==
  /\ phase = "walk" /\ cancel
  /\ res' = PartlyPublished(res)
  /\ phase' = "scanned"
  /\ todo' = {} /\ opened' = Map0
  /\ UNCHANGED <<layout, disk, cancel, paused, roots, seen, hash, store, ends>>
-----------------------------------------------------------------------------
\* The funnel.

WithClass(r, new) == [r EXCEPT !.class = Over(new, @)]

UniqueClass(ps) == [p \in ps |-> Unique(p)]

\* A file that could not be read: a class of its own, and its folder unproven.
Unread(r, ps) ==
  LET ds == {p[1] : p \in ps}
  IN  [WithClass(r, UniqueClass(ps)) EXCEPT
         !.ok = Over([d \in ds |-> FALSE], @), !.failed = @ \cup ds]

CacheHit(p, kind) ==
  /\ cacheOn /\ ~cancel
  /\ <<p, kind>> \in DOMAIN rows /\ rows[<<p, kind>>].id = res.meta[p].id

\* Mutant: the digests of the stage before stay.
OfferedAgain(ps, kind) ==
  /\ job' = [p \in ps |-> IF CacheHit(p, kind) THEN "done" ELSE "wait"]
  /\ found' = Over([p \in {q \in ps : CacheHit(q, kind)} |->
                      rows[<<p, kind>>].digest], found)

\* The start of a stage: what the cache knows is not read.
Offered(ps, kind) ==
  /\ job' = [p \in ps |-> IF CacheHit(p, kind) THEN "done" ELSE "wait"]
  /\ found' = [p \in {q \in ps : CacheHit(q, kind)} |-> rows[<<p, kind>>].digest]

\* Empty files are looked at once more and share the known class; a size that
\* only one file has makes it unique; the others are probed.
BySize ==
  /\ phase = "walk" /\ ~cancel /\ Running /\ todo = {} /\ DOMAIN opened = {}
  /\ LET files == DOMAIN res.meta
         size(p) == res.meta[p].size
         zero  == {p \in files : size(p) = 0}
         still == {p \in zero : Here(p) /\ Kind[entry[p]] = "file"
                                /\ SizeOf[content[entry[p]]] = 0}
         lone  == {p \in files \ zero : \A q \in files \ {p} : size(q) # size(p)}
         known == Over([p \in still |-> Class(0, Empty)], UniqueClass(lone))
     IN  /\ res' = WithClass(Unread(res, zero \ still), known)
         /\ Offered(files \ (zero \cup lone), "p")
  /\ phase' = "probe"
  /\ UNCHANGED <<layout, disk, cancel, paused, roots, walk, gate, store, ends>>

Gated == phase = "full" /\ layout.mode = "scan"

Busy == {p \in DOMAIN job : job[p] \in {"gate", "proof", "read", "again"}}

\* A reader takes the next file; when told to stop it answers at once.
TakeFile ==
  /\ phase \in {"probe", "full"} /\ Running
  /\ Cardinality(Busy) < Pool
  /\ LET waits == {p \in DOMAIN job : job[p] = "wait"}
         p == CHOOSE q \in waits : TRUE
     IN  /\ waits # {}
         /\ job' = [job EXCEPT ![p] = IF cancel THEN "done"
                                      ELSE IF Gated THEN "gate" ELSE "proof"]
         /\ found' = IF cancel THEN Put(found, p, None) ELSE found
  /\ UNCHANGED <<layout, disk, phase, cancel, paused, roots, walk, res, gate,
                 store, ends>>

Acquire(p) ==
  /\ p \in DOMAIN job /\ job[p] = "gate"
  /\ gate.active < gate.limit \/ cancel
  /\ gate' = [gate EXCEPT !.active = @ + 1]
  /\ job' = [job EXCEPT ![p] = "proof"]
  /\ UNCHANGED <<layout, disk, phase, cancel, paused, roots, walk, res, found,
                 store, ends>>

\* Mutant: the slot is given back by the error path and by the finally.
ReleasedTwice == [gate EXCEPT !.active = IF @ > 1 THEN @ - 2 ELSE 0]

Released == IF Gated THEN [gate EXCEPT !.active = IF @ > 0 THEN @ - 1 ELSE 0]
            ELSE gate

Finish(p, digest) ==
  /\ job' = [job EXCEPT ![p] = "done"]
  /\ found' = Put(found, p, digest)
  /\ gate' = Released

\* The first lstat: still the file of the walk?
ProveBefore(p) ==
  /\ p \in DOMAIN job /\ job[p] = "proof"
  /\ IF Current(p)
     THEN job' = [job EXCEPT ![p] = "read"] /\ UNCHANGED <<found, gate>>
     ELSE Finish(p, Error)
  /\ UNCHANGED <<layout, disk, phase, cancel, paused, roots, walk, res, store,
                 ends>>

\* The path is opened anew: a regular file of the size of the walk is read,
\* whole or its beginning, unless the call fails.
Digest(p) ==
  LET c == content[entry[p]]
  IN  IF phase = "full" THEN c ELSE Probe[c]

Readable(p) == /\ Here(p) /\ Kind[entry[p]] = "file"
               /\ SizeOf[content[entry[p]]] = res.meta[p].size

ReadFile(p) ==
  /\ p \in DOMAIN job /\ job[p] = "read"
  /\ phase = "full" => Running
  /\ \/ /\ Readable(p) /\ ~(phase = "full" /\ cancel)
        /\ found' = Put(found, p, Digest(p))
        /\ job' = [job EXCEPT ![p] = "again"]
        /\ UNCHANGED <<gate, events>>
     \/ /\ Readable(p) /\ phase = "full" /\ cancel
        /\ found' = Put(found, p, None)
        /\ job' = [job EXCEPT ![p] = "again"]
        /\ UNCHANGED <<gate, events>>
     \/ /\ ~Readable(p)
        /\ Finish(p, Error) /\ UNCHANGED events
     \/ /\ Readable(p) /\ events < MaxEvents
        /\ Finish(p, Error) /\ events' = events + 1
  /\ UNCHANGED <<layout, entry, folders, away, returned, content, stamp, was, phase, cancel,
                 paused, roots, walk, res, store, ends>>

\* The second lstat.
ProveAfter(p) ==
  /\ p \in DOMAIN job /\ job[p] = "again"
  /\ Finish(p, IF Current(p) THEN found[p] ELSE Error)
  /\ UNCHANGED <<layout, disk, phase, cancel, paused, roots, walk, res, store,
                 ends>>

\* put_many: only digests that were read, in one transaction.  Cancel rolls it
\* back, an error of the database also switches the cache off.
CachePut(new) ==
  \/ /\ cacheOn /\ ~cancel
     /\ rows' = Over(new, rows)
     /\ UNCHANGED <<cacheOn, events>>
  \/ /\ ~cacheOn \/ cancel
     /\ UNCHANGED <<rows, cacheOn, events>>
  \/ /\ cacheOn /\ ~cancel /\ events < MaxEvents
     /\ cacheOn' = FALSE /\ events' = events + 1
     /\ UNCHANGED rows

Row0(p) == [id |-> res.meta[p].id, digest |-> found[p]]

RowsOf(ps, kind) ==
  [x \in ps \X {kind} |-> Row0(x[1])]

StageDone == /\ DOMAIN found = DOMAIN job
             /\ \A p \in DOMAIN job : job[p] = "done"

HashedFiles == {p \in DOMAIN found : found[p] \notin {Error, None}}

Alike(p) == {q \in HashedFiles : found[q] = found[p]
                                 /\ res.meta[q].size = res.meta[p].size}

Lone == {p \in HashedFiles : Alike(p) = {p}}

\* Mutant: a probe of a large file is taken for its full digest.
SettledAll == HashedFiles \ Lone

\* Small files have been read whole by the probe and are settled.
Settled == {p \in HashedFiles \ Lone : res.meta[p].size <= Partial}

ClassFound(p) == Class(res.meta[p].size, found[p])

\* What a stage leaves: failed reads, stopped reads and lone digests are
\* unique, the given ones get the class of their digest.
Collected(known) ==
  LET errors == {p \in DOMAIN found : found[p] = Error}
      blank  == {p \in DOMAIN found : found[p] = None}
  IN  WithClass(Unread(res, errors), Over([p \in known |-> ClassFound(p)],
                                          UniqueClass(blank \cup Lone)))

ProbeDone ==
  /\ phase = "probe" /\ StageDone /\ Running
  /\ res' = Collected(Settled)
  /\ CachePut(Over(RowsOf(HashedFiles, "p"), RowsOf(Settled, "f")))
  /\ Offered(HashedFiles \ (Lone \cup Settled), "f")
  /\ phase' = "full"
  /\ UNCHANGED <<layout, entry, folders, away, returned, content, stamp, was, cancel, paused,
                 roots, walk, gate, ends>>

FullDone ==
  /\ phase = "full" /\ StageDone /\ Running
  /\ res' = Collected(HashedFiles \ Lone)
  /\ CachePut(RowsOf(HashedFiles, "f"))
  /\ job' = Map0 /\ found' = Map0
  /\ phase' = "aggregate"
  /\ UNCHANGED <<layout, entry, folders, away, returned, content, stamp, was, cancel, paused,
                 roots, walk, gate, ends>>

\* A cancelled scan shows the proven groups of files and no folders.
Aggregate ==
  /\ phase = "aggregate" /\ Running
  /\ \E man \in {Manifests(res)} :
       res' = IF cancel THEN PartlyPublished(res) ELSE Aggregated(res, man)
  /\ phase' = "scanned"
  /\ UNCHANGED <<layout, disk, cancel, paused, roots, walk, hash, store, ends>>

\* AdaptiveConcurrency.control_step on a measured throughput: one more reader
\* is tried, kept when it helped, and taken back with a longer and longer
\* pause when it did not.
Tick(better) ==
  /\ Gated /\ gate.ticks < MaxTicks
  /\ gate' = [gate EXCEPT !.ticks = @ + 1,
       !.pending = IF gate.pending = 0 /\ gate.cooldown = 0
                      /\ gate.limit < gate.cap THEN 1 ELSE 0,
       !.limit = IF gate.pending = 1 /\ ~better THEN @ - gate.pending
                 ELSE IF gate.pending = 0 /\ gate.cooldown = 0
                         /\ @ < gate.cap THEN @ + 1 ELSE @,
       !.streak = IF gate.pending = 0 THEN @ ELSE IF better THEN 0 ELSE @ + 1,
       !.cooldown = IF gate.pending = 0 THEN (IF @ > 0 THEN @ - 1 ELSE 0)
                    ELSE IF better THEN 0
                    ELSE LET long == 2 * 2 ^ (gate.streak + 1)
                         IN  IF long < 32 THEN long ELSE 32]
  /\ UNCHANGED <<layout, disk, phase, cancel, paused, roots, walk, res, job,
                 found, store, ends>>
-----------------------------------------------------------------------------
\* The worker after the scan.

\* The dates of the grouped folders are read; a cancel stops that by an error.
DatesStopped == cancel /\ res.dirGroups # {}

\* ScanWorker saves what it has, a refresh only a whole result of the very root
\* it checked, and a pair for a merge is not saved.
SaveScan ==
  /\ phase = "scanned" /\ layout.mode = "scan" /\ ~DatesStopped
  /\ saved' \in BOOLEAN
  /\ phase' = "done"
  /\ UNCHANGED <<layout, disk, cancel, paused, roots, walk, res, hash, store,
                 removed>>

ScanFailed ==
  /\ phase = "scanned" /\ layout.mode = "scan" /\ DatesStopped
  /\ Stop("failed")

PairScanned == phase = "scanned" /\ layout.mode = "pair" /\ Stop("done")

RefreshScanned ==
  /\ phase = "scanned" /\ layout.mode = "refresh"
  /\ \/ (cancel \/ res.partial) /\ Stop("cancelled")
     \/ ~(cancel \/ res.partial) /\ RootChanged /\ Stop("failed")
     \/ ~(cancel \/ res.partial) /\ ~RootChanged /\ Stop("save")

SaveRefreshed ==
  /\ phase = "save" /\ Running
  /\ \/ cancel /\ Stop("cancelled")
     \/ ~cancel /\ RootChanged /\ Stop("failed")
     \/ /\ ~cancel /\ ~RootChanged
        /\ saved' \in BOOLEAN
        /\ phase' = "answer"
        /\ UNCHANGED <<layout, disk, cancel, paused, roots, walk, res, hash,
                       store, removed>>

\* Mutant: a cancel is looked at once more after the save.
AnswerLate ==
  /\ phase = "answer"
  /\ \/ saved /\ ~cancel /\ Stop("done")
     \/ ~saved /\ ~cancel /\ Stop("failed")
     \/ cancel /\ Stop("cancelled")

\* What is saved is handed over, also to a user who cancelled meanwhile.
AnswerRefresh ==
  /\ phase = "answer"
  /\ \/ saved /\ Stop("done")
     \/ ~saved /\ ~cancel /\ Stop("failed")
     \/ ~saved /\ cancel /\ Stop("cancelled")

\* The user removes files or a folder, and the result is pruned of what is gone
\* (RecomputeWorker) unless that is cancelled.
Gone(p, ps) == p \in ps \/ (p[1] \in Dirs /\ \E e \in Ancestors[p[1]] :
                              <<ParentOf[e], DirName[e]>> \in ps)

RemovePaths(ps) ==
  /\ phase = "done" /\ layout.mode = "scan" /\ removed = {} /\ ~cancel
  /\ removed' = ps
  /\ entry' = Restrict(entry, {p \in DOMAIN entry : ~Gone(p, ps)})
  /\ folders' = {d \in folders : ~Gone(<<ParentOf[d], DirName[d]>>, ps)}
  /\ phase' = "recompute"
  /\ UNCHANGED <<layout, away, returned, content, stamp, was, events, cancel,
                 paused, roots, walk, res, hash, store, saved>>

Removable ==
  {{p} : p \in UNION res.fileGroups} \cup
  {{<<ParentOf[d], DirName[d]>>} : d \in UNION res.dirGroups}

Recompute ==
  /\ phase = "recompute"
  /\ \E rebuilt \in {Pruned(res, removed)} : \E man \in {Manifests(rebuilt)} :
       res' = IF cancel THEN res ELSE Aggregated(rebuilt, man)
  /\ phase' = IF cancel THEN "done" ELSE "pruned"
  /\ UNCHANGED <<layout, disk, cancel, paused, roots, walk, hash, store, ends>>

\* The saved session is opened again: validated and aggregated anew, whether it
\* is whole or not.
Reread == ReadBack(Document(res))

LoadSaved ==
  /\ phase = "done" /\ saved /\ removed = {}
  /\ Sound(Reread, NormalRoots(layout.roots))
  /\ \E man \in {Manifests(Reread)} : res' = Aggregated(Reread, man)
  /\ phase' = "loaded"
  /\ UNCHANGED <<layout, disk, cancel, paused, roots, walk, hash, store, ends>>

LoadRefused ==
  /\ phase = "done" /\ saved /\ removed = {}
  /\ ~Sound(Reread, NormalRoots(layout.roots))
  /\ Stop("refused")
-----------------------------------------------------------------------------
\* The user, and the rest of the machine.

Cancel ==
  /\ layout.stops /\ ~cancel /\ phase \notin Final
  /\ cancel' = TRUE
  /\ UNCHANGED <<layout, disk, phase, paused, roots, walk, res, hash, store,
                 ends>>

Pause ==
  /\ layout.stops /\ ~paused /\ ~cancel /\ events < MaxEvents
  /\ phase \notin Final
  /\ paused' = TRUE /\ events' = events + 1
  /\ UNCHANGED <<layout, entry, folders, away, returned, content, stamp, was, phase, cancel,
                 roots, walk, res, hash, store, ends>>

Resume ==
  /\ paused /\ paused' = FALSE
  /\ UNCHANGED <<layout, disk, phase, cancel, roots, walk, res, hash, store,
                 ends>>

Outside ==
  /\ events < MaxEvents /\ events' = events + 1
  /\ phase \notin Final \cup {"recompute"}
  /\ UNCHANGED <<layout, phase, cancel, paused, roots, walk, res, hash, store,
                 ends>>

EditFile(i, c) ==
  /\ ~away /\ Links(i) > 0 /\ Kind[i] = "file" /\ c # content[i]
  /\ content' = [content EXCEPT ![i] = c]
  /\ stamp' = [stamp EXCEPT ![i] = @ + 1]
  /\ was' = Put(was, <<i, stamp[i] + 1>>, c)
  /\ Outside /\ UNCHANGED <<entry, folders, away, returned>>

SaveOver(p) ==
  /\ Here(p) /\ Links(Spare) = 0
  /\ entry' = [entry EXCEPT ![p] = Spare]
  /\ Outside /\ UNCHANGED <<folders, away, returned, content, stamp, was>>

DeleteFile(p) ==
  /\ Here(p)
  /\ entry' = Restrict(entry, DOMAIN entry \ {p})
  /\ Outside /\ UNCHANGED <<folders, away, returned, content, stamp, was>>

\* Another folder, empty, is mounted in the place of the root, for good or until
\* the root is put back.
SwapRoot ==
  /\ layout.mode = "refresh" /\ ~away /\ away' = TRUE
  /\ Outside /\ UNCHANGED <<entry, folders, returned, content, stamp, was>>

SwapBack ==
  /\ away /\ phase \notin Final
  /\ away' = FALSE /\ returned' = TRUE
  /\ UNCHANGED <<layout, entry, folders, content, stamp, was, events, phase,
                 cancel, paused, roots, walk, res, hash, store, ends>>

WorkerStep ==
  \/ BeginScan \/ BeginRefresh \/ SeedCache \/ RefreshStopped
  \/ \E d \in Dirs : ListDir(d) \/ StatEntry(d) \/ MergeDir(d)
  \/ WalkCancelled \/ BySize \/ TakeFile
  \/ \E p \in DOMAIN job :
       Acquire(p) \/ ProveBefore(p) \/ ReadFile(p) \/ ProveAfter(p)
  \/ ProbeDone \/ FullDone \/ Aggregate
  \/ SaveScan \/ ScanFailed \/ PairScanned \/ RefreshScanned \/ SaveRefreshed
  \/ AnswerRefresh
  \/ Recompute

Next ==
  \/ WorkerStep
  \/ \E better \in BOOLEAN : Tick(better)
  \/ \E ps \in Removable : RemovePaths(ps)
  \/ LoadSaved \/ LoadRefused
  \/ Cancel \/ Pause \/ Resume
  \/ \E i \in Inodes, c \in Contents : EditFile(i, c)
  \/ \E p \in DOMAIN entry : SaveOver(p) \/ DeleteFile(p)
  \/ SwapRoot \/ SwapBack

Spec == Init /\ [][Next]_vars

\* The workers are threads the system schedules, and a paused scan is resumed
\* or cancelled.
FairSpec == Spec /\ WF_vars(WorkerStep) /\ WF_vars(Resume)
-----------------------------------------------------------------------------
Phases == {"start", "seed", "walk", "probe", "full", "aggregate", "scanned",
           "save", "answer", "recompute"} \cup Final
Paths  == Dirs \X Nat
Ids    == Inodes \X Nat

\* Types.
TypeOK ==
  /\ phase \in Phases
  /\ {cancel, paused, cacheOn, saved, away, returned} \subseteq BOOLEAN
  /\ DOMAIN entry \subseteq Paths /\ Range(entry) \subseteq Inodes
  /\ folders \subseteq Dirs /\ todo \subseteq Dirs
  /\ content \in [Inodes -> Contents] /\ stamp \in [Inodes -> Nat]
  /\ events \in 0..MaxEvents /\ rootId \in 0..2 /\ rootsRead \subseteq 1..2
  /\ DOMAIN opened \subseteq Dirs /\ DOMAIN res.ok \subseteq Dirs
  /\ DOMAIN res.class \subseteq DOMAIN res.meta /\ DOMAIN res.meta \subseteq Paths
  /\ \A p \in DOMAIN res.meta : res.meta[p].id \in Ids
  /\ DOMAIN found \subseteq DOMAIN job /\ DOMAIN job \subseteq DOMAIN res.meta
  /\ \A x \in DOMAIN rows : x[2] \in {"p", "f"}

\* A class, which is what lets a file be removed, and a row of the cache tell
\* what the file held when it had the identity they are recorded with, however
\* the file changed before, during or after its read.
ProofTrue ==
  /\ \A p \in DOMAIN res.class :
       LET held == was[res.meta[p].id]
       IN  Shared(res.class[p]) => res.class[p] = Class(SizeOf[held], held)
  /\ \A x \in DOMAIN rows :
       LET held == was[rows[x].id]
       IN  rows[x].digest = IF x[2] = "f" THEN held ELSE Probe[held]

Quiet == events = 0
Shown == phase \in {"done", "loaded"} /\ ~res.partial /\ removed = {}
Pruned1 == phase = "pruned" /\ ~res.partial

\* Everything a folder holds, read or not.
Tree ==
  LET tree[d \in Dirs] ==
        [entries |-> {<<p[2], Kind[entry[p]], content[entry[p]]>> :
                        p \in {q \in DOMAIN entry : q[1] = d}},
         subs |-> {<<DirName[k], tree[k]>> : k \in Subfolders(d)}]
  IN  tree

\* Folders shown as identical hold the same names with the same contents and
\* links, also in what the scan was not to read or could not read.  Of a result
\* that is not whole only a session opened again shows any.
SameInGroups == \A g \in res.dirGroups : \A a, b \in g : Tree[a] = Tree[b]

EqualFolders == (Shown \/ phase = "loaded") /\ Quiet => SameInGroups

\* Nothing in the folder keeps the scan from reading it whole.
Plain(d) ==
  /\ \A k \in folders : Inside(k, d) => k \notin layout.denied \cup layout.skipped
  /\ \A p \in DOMAIN entry : Inside(p[1], d) =>
       /\ Kind[entry[p]] \in {"file", "link"} /\ Links(entry[p]) = 1
       /\ p \notin layout.filtered

\* The files a scan of these roots is to read.
Visible == {p \in DOMAIN entry :
              /\ Kind[entry[p]] = "file" /\ p \notin layout.filtered
              /\ \E top \in NormalRoots(layout.roots) :
                   /\ Inside(p[1], top) /\ top \notin layout.denied
                   /\ \A d \in Ancestors[p[1]] \ Ancestors[top] :
                        d \notin layout.denied \cup layout.skipped}

Twins(d) == {e \in folders : Plain(e) /\ Tree[e] = Tree[d]}

\* A whole result misses nothing: the groups are exactly the inodes with one
\* content, and a folder is in a group with each twin, unless one of them is
\* inside a folder that itself has a like one; the same after a removal and when
\* the session is opened again, without reading.
GroupsExact ==
  (Shown \/ (Pruned1 /\ Cardinality(Range(layout.entry))
                        = Cardinality(DOMAIN layout.entry))) /\ Quiet =>
    LET inodes == {entry[p] : p \in Visible}
        alike(i) == {j \in inodes : content[j] = content[i]}
    IN  /\ {{entry[p] : p \in g} : g \in res.fileGroups} =
             {s \in {alike(i) : i \in inodes} : Cardinality(s) >= 2}
        /\ \E man \in {Manifests(res)} :
             LET paired(x) == man[x].ok /\ \E y \in DOMAIN man \ {x} : man[y] = man[x]
                 hidden(d) == \E x \in (Ancestors[d] \ {d}) \cap DOMAIN man : paired(x)
             IN  \A d \in {e \in folders : Plain(e) /\ e \in DOMAIN res.ok} :
                   \A e \in Twins(d) \cap DOMAIN res.ok : d # e =>
                     \/ \E g \in res.dirGroups : {d, e} \subseteq g
                     \/ hidden(d) \/ hidden(e)

\* A folder that may be merged from, or into, was read: every entry that was
\* there from the start to the end, and is not left out on purpose, is known.
MergeableKnown ==
  phase \in {"done", "loaded"} =>
   \A d \in DOMAIN res.ok : TreeMergeable(res, d) =>
    \A p \in DOMAIN entry :
      (/\ Here(p) /\ ~returned
       /\ Inside(p[1], d) /\ p \notin layout.filtered
       /\ \A k \in Ancestors[p[1]] \ Ancestors[d] : k \notin layout.skipped
       /\ p \in DOMAIN layout.entry /\ layout.entry[p] = entry[p]) =>
      \/ p \in DOMAIN res.meta
      \/ /\ p[1] \in DOMAIN res.ok
         /\ \/ \E l \in res.links[p[1]] : l[2] = p[2]
            \/ \E a \in res.aliases[p[1]] : a[1] = p

\* The gate counts the readers that are reading, its limit moves between the
\* start value and the cap, and only the last step down, or a cancel, leaves
\* more readers than the limit.
GateHolds ==
  LET reading == {p \in DOMAIN job : job[p] \in {"proof", "read", "again"}}
      low == IF gate.cap < 2 THEN gate.cap ELSE 2
  IN  /\ Gated => gate.active = Cardinality(reading)
      /\ gate.limit \in low..gate.cap
      /\ ~cancel => gate.active <= gate.limit + 1

\* A refreshed session is handed over only when it is whole, was saved, and
\* every folder was listed under the root that was checked first, unless that
\* was away and back between two checks, which nothing can see; once it is saved
\* the answer is never that there is none; and a whole session is saved that the
\* history cannot open again only when it is too large or has a file of before
\* 1970.
RefreshCoherent ==
  /\ phase = "done" /\ layout.mode = "refresh" =>
       saved /\ ~res.partial /\ (rootsRead \subseteq {rootId} \/ returned)
  /\ layout.mode = "refresh" /\ saved => phase \notin {"failed", "cancelled"}
  /\ phase = "refused" => res.partial \/ ~Fits(res) \/ ~Dated(res)

\* What two views say of two similar folders is one thing and true of the disk:
\* the pair shares no more than all, its comparison has a file of one whose
\* content the other has too, under whatever name, and what it says of a file is
\* so.  Of a file with several names only one is compared, so that "missing" may
\* be said of a file whose other name is there.
PairsCompared ==
  Shown /\ Quiet => \A ab \in res.pairs : \A a, b \in ab : a # b =>
    LET rows0 == Comparison(res, a, b)
        named(d) == {q \in Visible : /\ Inside(q[1], d)
                                     /\ Links(entry[q]) = 1 \/ q \in DOMAIN res.meta}
        held(d) == {content[entry[p]] : p \in named(d)}
        data(d, rel) == {content[entry[p]] :
                           p \in {q \in named(d) : RelPath(q, d) = rel}}
    IN  /\ Percent(res, a, b) \in 0..100
        /\ \E rel \in DOMAIN rows0 :
             rows0[rel] # "only_a" /\ data(a, rel) \cap held(b) # {}
        /\ \A rel \in DOMAIN rows0 :
             /\ rows0[rel] = "identical" => data(a, rel) = data(b, rel)
             /\ rows0[rel] = "different_content" =>
                  data(a, rel) \cap data(b, rel) = {}
             /\ rows0[rel] = "shared_elsewhere" =>
                  data(a, rel) \cup data(b, rel) \subseteq held(a) \cap held(b)
             /\ rows0[rel] = "only_a" => data(a, rel) \cap held(b) = {}
             /\ rows0[rel] = "only_b" => data(b, rel) \cap held(a) = {}

\* Clusters are the connected components of "has a copy of a file of".
ClustersAreComponents ==
  phase \in Final =>
    LET near[n \in 0..Cardinality(Dirs)] ==
          [d \in UNION Tied(res) |->
             IF n = 0 THEN {d}
             ELSE UNION {ds \in Tied(res) : ds \cap near[n - 1][d] # {}}]
    IN  Clusters(res) =
          {near[Cardinality(Dirs)][d] : d \in UNION Tied(res)}

\* Every scan ends, also when it is stopped, paused or fails.
ScanEnds == phase = "start" ~> phase \in Final

\* What the comments of the walk promise of a folder that cannot be opened (its
\* parent has no digest), over the whole life of a result.
EqualFoldersAlways == (Shown \/ Pruned1) /\ Quiet => SameInGroups
=============================================================================
