------------------------------ MODULE ScanProofs ------------------------------
(***************************************************************************)
(* A scan, for any volume, any number of walking threads and readers, and  *)
(* any behaviour of the user and the rest of the machine.                  *)
(***************************************************************************)
EXTENDS Scan, FoldersProofs

-----------------------------------------------------------------------------
(* The inductive invariant *)

\* The disk as it was found, or less of it; a name that is left has its inode
\* or the one that is saved over others.
DiskKept ==
  /\ layout \in Layouts
  /\ content \in [Inodes -> Contents] /\ stamp \in [Inodes -> Nat]
  /\ events \in 0..MaxEvents
  /\ {away, returned} \subseteq BOOLEAN /\ (away \/ returned => events # 0)
  /\ folders \subseteq layout.folders /\ DOMAIN entry \subseteq DOMAIN layout.entry
  /\ \A p \in DOMAIN entry : entry[p] \in Inodes /\ Ancestors[p[1]] \subseteq folders

\* An identity tells one content for ever.
History ==
  /\ \A id \in DOMAIN was : id \in Ids /\ was[id] \in Contents /\ id[2] <= stamp[id[1]]
  /\ \A i \in Inodes : Id(i) \in DOMAIN was /\ was[Id(i)] = content[i]
  /\ \A id \in DOMAIN HeldBefore(layout) :
       id \in DOMAIN was /\ was[id] = HeldBefore(layout)[id]

RowsTrue == \A x \in DOMAIN rows : RowTrue(rows[x], x[2], was)

\* What a name seen with inode i may name by now.
Fate(p, i) == p \in DOMAIN entry => entry[p] \in {i, Spare}

Within(d) == \E top \in NormalRoots(layout.roots) : Inside(d, top)

Scanned == \A d \in todo \cup DOMAIN opened \cup DOMAIN res.ok : Within(d)

\* The root was always where it is.
Stayed == ~away /\ ~returned

\* A folder that is being listed: every entry there is to come or was looked at.
Status(s) ==
  /\ s.path \in DOMAIN layout.entry /\ s.id \in DOMAIN was
  /\ s.kind = Kind[s.id[1]] /\ s.data = was[s.id] /\ Fate(s.path, s.id[1])

Listing(d, o) ==
  /\ o = [left |-> o.left, got |-> o.got, subs |-> o.subs, ok |-> o.ok, err |-> o.err]
  /\ \A p \in o.left : p \in DOMAIN layout.entry /\ p[1] = d
  /\ \A s \in o.got : Status(s) /\ s.path[1] = d /\ s.path \notin o.left
  /\ \A s, t \in o.got : s.path = t.path => s = t
  /\ Stayed => \A p \in DOMAIN entry :
       p[1] = d => p \in o.left \/ \E s \in o.got : s.path = p
  /\ \A k \in o.subs : k \in Dirs /\ ParentOf[k] = d
  /\ Stayed => \A k \in folders : ParentOf[k] = d => k \in o.subs \cup layout.skipped

Listings == \A d \in DOMAIN opened : Listing(d, opened[d])

\* The result: every part is about folders that were read and files they hold.
Maps(r) ==
  /\ DOMAIN r.children = DOMAIN r.ok /\ DOMAIN r.links = DOMAIN r.ok
  /\ DOMAIN r.aliases = DOMAIN r.ok /\ r.failed \subseteq DOMAIN r.ok
  /\ \A d \in DOMAIN r.ok :
       /\ \A k \in r.children[d] : k \in Dirs /\ ParentOf[k] = d
       /\ \A a \in r.aliases[d] : a[1][1] = d /\ a[2] \in DOMAIN r.meta

File(r, p) ==
  LET m == r.meta[p]
  IN  /\ p \in DOMAIN layout.entry /\ p[1] \in DOMAIN r.ok
      /\ m.id \in DOMAIN was /\ m.size = SizeOf[was[m.id]] /\ Fate(p, m.id[1])

ClassTrue(r, p) ==
  LET held == was[r.meta[p].id]
  IN  Shared(r.class[p]) => r.class[p] = Class(SizeOf[held], held)

ResultTrue(r) ==
  /\ Shape(r) /\ Maps(r)
  /\ \A p \in DOMAIN r.meta : File(r, p)
  /\ \A p \in DOMAIN r.class : p \in DOMAIN r.meta /\ ClassTrue(r, p)

SeenKnown ==
  phase \in {"start", "seed", "walk"} => \A i \in DOMAIN seen : seen[i] \in DOMAIN res.meta

\* A folder without a failed read is known whole, but for what is left out.
KnownPath(r, p) ==
  \/ p \in DOMAIN r.meta
  \/ \E l \in r.links[p[1]] : l[2] = p[2]
  \/ \E a \in r.aliases[p[1]] : a[1] = p

ReadWhole(r, d) ==
  /\ Stayed /\ (r.ok[d] \/ d \notin r.failed) =>
       \A p \in DOMAIN entry : p[1] = d /\ p \notin layout.filtered => KnownPath(r, p)
  /\ Stayed => \A k \in folders : ParentOf[k] = d => k \in r.children[d] \cup layout.skipped

KnownWhole == phase # "pruned" => \A d \in DOMAIN res.ok : ReadWhole(res, d)

\* The stage of hashing.
Stages == {"probe", "full"}
States == {"wait", "gate", "proof", "read", "again", "done"}

Reads(c) == IF phase = "full" THEN c ELSE Probe[c]

\* The name no longer has, and will never have again, the identity of the walk.
Outdated(p) ==
  LET id == res.meta[p].id
  IN  id[2] < stamp[id[1]] \/ (id[1] # Spare /\ (p \in DOMAIN entry => entry[p] # id[1]))

Digested(p) == found[p] \in {Error, None} \/ found[p] = Reads(was[res.meta[p].id])

Jobs ==
  /\ DOMAIN found \subseteq DOMAIN job /\ DOMAIN job \subseteq DOMAIN res.meta
  /\ phase \notin Stages => DOMAIN job = {}
  /\ \A p \in DOMAIN job : job[p] \in States
  /\ \A p \in DOMAIN found : job[p] = "done" => Digested(p)
  /\ \A p \in DOMAIN job : job[p] = "again" =>
       p \in DOMAIN found /\ (Digested(p) \/ Outdated(p))

\* Every file has a class or is on its way to one.
Early == {"start", "seed", "walk", "probe", "full", "aggregate"}
Late  == {"aggregate", "scanned", "save", "answer", "recompute", "done", "pruned", "loaded"}

Classed ==
  /\ phase \in Early => ~res.partial
  /\ phase \in {"start", "seed", "walk"} => DOMAIN res.class = {}
  /\ phase \in Stages => DOMAIN res.meta \subseteq DOMAIN res.class \cup DOMAIN job
  /\ phase \in Late /\ ~res.partial => DOMAIN res.meta \subseteq DOMAIN res.class

\* The gate of the readers.
Low == IF gate.cap < 2 THEN gate.cap ELSE 2

Gate ==
  /\ gate = [limit |-> gate.limit, cap |-> gate.cap, active |-> gate.active,
             pending |-> gate.pending, cooldown |-> gate.cooldown,
             streak |-> gate.streak, ticks |-> gate.ticks]
  /\ {gate.limit, gate.cap, gate.active} \subseteq Nat /\ gate.pending \in {0, 1}
  /\ ~Gated => gate.active = 0 /\ \A p \in DOMAIN job : job[p] # "gate"
  /\ gate.pending = 1 => gate.limit > Low /\ (~cancel => gate.active <= gate.limit)
  /\ GateHolds

\* The root of a refresh is lost once and for all, unless it comes back; what is
\* saved is answered for.
Rooted ==
  /\ rootId \in 0..2 /\ rootsRead \subseteq 1..2
  /\ layout.mode = "refresh" /\ phase = "start" => rootsRead = {}
  /\ layout.mode = "refresh" /\ phase \notin {"start", "cancelled"} =>
       returned \/ (rootId <= RootNow /\ \A n \in rootsRead : rootId <= n /\ n <= RootNow)
  /\ phase = "seed" => rootsRead = {}
  /\ phase \in {"seed", "save", "answer"} => layout.mode = "refresh"
  /\ phase \in {"save", "answer"} => ~res.partial
  /\ phase = "answer" => returned \/ rootsRead \subseteq {rootId}
  /\ layout.mode = "refresh" /\ saved => phase \in {"answer", "done", "loaded", "refused"}
  /\ phase = "recompute" => layout.mode = "scan"

Flags == phase \in Phases /\ {cancel, paused, cacheOn, saved} \subseteq BOOLEAN

Inv ==
  /\ Flags /\ DiskKept /\ History /\ RowsTrue
  /\ Scanned /\ Listings /\ ResultTrue(res) /\ SeenKnown /\ KnownWhole
  /\ Jobs /\ Classed /\ Gate /\ Rooted /\ RefreshCoherent
-----------------------------------------------------------------------------
(* What the steps leave alone *)

OnDisk == <<entry, folders, away, returned, content, stamp, was>>
Work    == <<todo, opened, seen, res, job, found, rows, gate>>
Switches == <<cancel, paused, saved, removed>>

\* Steps that touch nothing of the scan and its result, only where the worker
\* is, what the user pressed, or what is on the disk.
Aside ==
  \/ BeginRefresh \/ RefreshStopped \/ SaveScan \/ ScanFailed \/ PairScanned
  \/ RefreshScanned \/ SaveRefreshed \/ AnswerRefresh \/ LoadRefused
  \/ \E ps \in Removable : RemovePaths(ps)
  \/ Cancel \/ Pause \/ Resume
  \/ \E i \in Inodes, c \in Contents : EditFile(i, c)
  \/ \E p \in DOMAIN entry : SaveOver(p) \/ DeleteFile(p)
  \/ SwapRoot \/ SwapBack \/ UNCHANGED vars

Reader(p) == Acquire(p) \/ ProveBefore(p) \/ ReadFile(p) \/ ProveAfter(p)

LEMMA Steps ==
  ASSUME [Next]_vars
  PROVE  \/ Aside
         \/ BeginScan \/ SeedCache
         \/ \E d \in Dirs : ListDir(d) \/ StatEntry(d) \/ MergeDir(d)
         \/ WalkCancelled \/ BySize \/ TakeFile \/ \E p \in DOMAIN job : Reader(p)
         \/ ProbeDone \/ FullDone \/ Aggregate \/ \E better \in BOOLEAN : Tick(better)
         \/ Recompute \/ LoadSaved
BY DEF Next, WorkerStep, Aside, Reader

LEMMA AsideLeaves ==
  ASSUME Aside
  PROVE  /\ layout' = layout /\ UNCHANGED Work
         /\ phase' = phase \/ {phase, phase'} \cap {"walk", "probe", "full", "aggregate"} = {}
BY DEF Aside, BeginRefresh, OpenCache, RefreshStopped, SaveScan, ScanFailed, PairScanned,
       RefreshScanned, SaveRefreshed, AnswerRefresh, LoadRefused, RemovePaths, Cancel, Pause, Resume,
       EditFile, SaveOver, DeleteFile, SwapRoot, SwapBack, Outside, Stop, Work, vars, walk, hash,
       store, ends, roots, disk

\* The steps of the scan and what is done with its result.
LEMMA WorkLeaves ==
  /\ BeginScan \/ SeedCache => UNCHANGED <<layout, OnDisk, Switches, opened, seen, res, job, found, gate>>
  /\ \A d : ListDir(d) => UNCHANGED <<layout, OnDisk, Switches, phase, seen, res, job, found, rows, gate>>
  /\ \A d : StatEntry(d) => UNCHANGED <<layout, OnDisk, Switches, phase, todo, seen, res, job, found, rows, gate>>
  /\ \A d : MergeDir(d) => UNCHANGED <<layout, OnDisk, Switches, phase, job, found, rows, gate>>
  /\ WalkCancelled => UNCHANGED <<layout, OnDisk, Switches, seen, job, found, rows, gate>>
  /\ BySize => UNCHANGED <<layout, OnDisk, Switches, todo, opened, seen, rows, gate>>
  /\ TakeFile => UNCHANGED <<layout, OnDisk, Switches, phase, todo, opened, seen, res, rows, gate>>
  /\ \A p : Reader(p) => UNCHANGED <<layout, OnDisk, Switches, phase, todo, opened, seen, res, rows>>
  /\ ProbeDone \/ FullDone => UNCHANGED <<layout, OnDisk, Switches, todo, opened, seen, gate>>
  /\ Aggregate \/ Recompute \/ LoadSaved =>
       UNCHANGED <<layout, OnDisk, Switches, todo, opened, seen, job, found, rows, gate>>
  /\ \A better : Tick(better) =>
       UNCHANGED <<layout, OnDisk, Switches, phase, todo, opened, seen, res, job, found, rows>>
BY DEF BeginScan, OpenCache, SeedCache, ListDir, StatEntry, MergeDir, WalkCancelled, BySize,
       TakeFile, Reader, Acquire, ProveBefore, ReadFile, ProveAfter, Finish, ProbeDone,
       FullDone, CachePut, Aggregate, Recompute, LoadSaved, Tick,
       OnDisk, Switches, walk, hash, store, ends, roots, disk
-----------------------------------------------------------------------------
(* The disk *)

\* What a step may do to the disk: take names away, save over one, change a
\* content under a new stamp, put another root in the place or that root back.
DiskStep ==
  /\ layout' = layout /\ folders' \subseteq folders
  /\ (Stayed' => Stayed) /\ (returned => returned') /\ (~returned' /\ away => away')
  /\ DOMAIN entry' \subseteq DOMAIN entry
  /\ \A p \in DOMAIN entry' : entry'[p] \in {entry[p], Spare}
  /\ \A i \in Inodes : stamp[i] <= stamp'[i]
  /\ \A id \in DOMAIN was : id \in DOMAIN was' /\ was'[id] = was[id]

LEMMA SameDisk ==
  ASSUME DiskKept, UNCHANGED <<layout, OnDisk>>
  PROVE  DiskStep
BY DEF DiskKept, DiskStep, OnDisk, Stayed

LEMMA EventsNext ==
  ASSUME DiskKept, [Next]_vars
  PROVE  events' \in 0..MaxEvents /\ (events' = 0 => events = 0)
<1>1. events \in Nat /\ events <= MaxEvents /\ MaxEvents \in Nat
  BY ScanAssumption DEF DiskKept
<1>2. events' = events \/ (events < MaxEvents /\ events' = events + 1)
  BY DEF Next, WorkerStep, BeginScan, BeginRefresh, OpenCache, SeedCache, RefreshStopped,
         ListDir, StatEntry, MergeDir, WalkCancelled, BySize, TakeFile, Acquire,
         ProveBefore, ReadFile, ProveAfter, Finish, ProbeDone, FullDone, CachePut,
         Aggregate, SaveScan, ScanFailed, PairScanned, RefreshScanned, SaveRefreshed, AnswerRefresh,
         Recompute, LoadSaved, LoadRefused, Tick, RemovePaths, Cancel, Pause, Resume,
         EditFile, SaveOver, DeleteFile, SwapRoot, SwapBack, Outside, Stop, vars, disk
<1> QED
  BY <1>1, <1>2

\* What goes with a folder.
LEMMA GoneAncestors ==
  ASSUME NEW p, p[1] \in Dirs, NEW ps, NEW e \in Ancestors[p[1]],
         Gone(<<ParentOf[e], DirName[e]>>, ps)
  PROVE  Gone(p, ps)
<1>1. e \in Dirs /\ Ancestors[e] \subseteq Ancestors[p[1]]
  BY AncestorsIn
<1>2. CASE <<ParentOf[e], DirName[e]>> \in ps
  BY <1>2 DEF Gone
<1>3. CASE <<ParentOf[e], DirName[e]>> \notin ps
  <2>1. ParentOf[e] \in Dirs
    BY <1>3 DEF Gone
  <2>2. PICK f \in Ancestors[ParentOf[e]] : <<ParentOf[f], DirName[f]>> \in ps
    BY <1>3 DEF Gone
  <2>3. f \in Ancestors[e]
    BY <1>1, <2>1, <2>2, AncestorsAre, TreeAssumption
  <2> QED
    BY <1>1, <2>2, <2>3 DEF Gone
<1> QED
  BY <1>2, <1>3

LEMMA DiskNext ==
  ASSUME DiskKept, History, [Next]_vars
  PROVE  DiskStep /\ DiskKept' /\ History'
<1> USE ScanAssumption
<1>1. events' \in 0..MaxEvents /\ (events' = 0 => events = 0)
  BY EventsNext
<1>2. ASSUME UNCHANGED <<layout, OnDisk>>
      PROVE  DiskStep /\ DiskKept' /\ History'
  BY <1>1, <1>2, SameDisk DEF DiskKept, History, OnDisk, Id
<1>3. ASSUME NEW ps, RemovePaths(ps)
      PROVE  DiskStep /\ DiskKept' /\ History'
  <2>1. /\ layout' = layout /\ UNCHANGED <<away, returned, content, stamp, was>>
        /\ entry' = Restrict(entry, {p \in DOMAIN entry : ~Gone(p, ps)})
        /\ folders' = {d \in folders : ~Gone(<<ParentOf[d], DirName[d]>>, ps)}
    BY <1>3 DEF RemovePaths
  <2>2. \A p \in DOMAIN entry' : p \in DOMAIN entry /\ entry'[p] = entry[p] /\ ~Gone(p, ps)
    BY <2>1 DEF Restrict
  <2>3. \A p \in DOMAIN entry : p[1] \in Dirs
    <3>1. Volume(layout)
      BY LayoutAssumption DEF DiskKept
    <3>2. DOMAIN layout.entry \subseteq Dirs \X Nat
      BY <3>1 DEF Volume
    <3> QED
      BY <3>2 DEF DiskKept
  <2>4. \A p \in DOMAIN entry' : Ancestors[p[1]] \subseteq folders'
    BY <2>1, <2>2, <2>3, GoneAncestors DEF DiskKept
  <2> QED
    BY <1>1, <2>1, <2>2, <2>4 DEF DiskStep, DiskKept, History, Id, Stayed
<1>4. ASSUME NEW i \in Inodes, NEW c \in Contents, EditFile(i, c)
      PROVE  DiskStep /\ DiskKept' /\ History'
  <2>1. /\ layout' = layout /\ UNCHANGED <<entry, folders, away, returned>>
        /\ content' = [content EXCEPT ![i] = c]
        /\ stamp' = [stamp EXCEPT ![i] = @ + 1]
        /\ was' = Put(was, <<i, stamp[i] + 1>>, c)
    BY <1>4 DEF EditFile, Outside
  <2>2. <<i, stamp[i] + 1>> \notin DOMAIN was
    BY DEF History, DiskKept
  <2>3. \A id \in DOMAIN was : id \in DOMAIN was' /\ was'[id] = was[id]
    BY <2>1, <2>2 DEF Put
  <2>4. /\ content' \in [Inodes -> Contents] /\ stamp' \in [Inodes -> Nat]
        /\ \A j \in Inodes : stamp[j] <= stamp'[j]
    BY <2>1 DEF DiskKept
  <2>5. ASSUME NEW id \in DOMAIN was'
        PROVE  id \in Ids /\ was'[id] \in Contents /\ id[2] <= stamp'[id[1]]
    <3>1. CASE id = <<i, stamp[i] + 1>>
      BY <2>1, <3>1 DEF Put, Ids, DiskKept
    <3>2. CASE id # <<i, stamp[i] + 1>>
      <4>1. id \in DOMAIN was /\ was'[id] = was[id]
        BY <2>1, <3>2 DEF Put
      <4>2. id \in Ids /\ id[2] <= stamp[id[1]] /\ was[id] \in Contents
        BY <4>1 DEF History
      <4>3. id[1] \in Inodes /\ id[2] \in Nat
        BY <4>2 DEF Ids
      <4>4. stamp[id[1]] \in Nat /\ stamp'[id[1]] \in Nat /\ stamp[id[1]] <= stamp'[id[1]]
        BY <2>4, <4>3 DEF DiskKept
      <4> QED
        BY <4>1, <4>2, <4>3, <4>4
    <3> QED
      BY <3>1, <3>2
  <2>6. ASSUME NEW j \in Inodes
        PROVE  <<j, stamp'[j]>> \in DOMAIN was' /\ was'[<<j, stamp'[j]>>] = content'[j]
    BY <2>1, <2>3 DEF Put, History, Id, DiskKept
  <2> QED
    BY <1>1, <2>1, <2>3, <2>4, <2>5, <2>6 DEF DiskStep, DiskKept, History, Id, Stayed
<1>5. ASSUME NEW p \in DOMAIN entry, SaveOver(p) \/ DeleteFile(p)
      PROVE  DiskStep /\ DiskKept' /\ History'
  <2>1. layout' = layout /\ UNCHANGED <<folders, away, returned, content, stamp, was>>
    BY <1>5 DEF SaveOver, DeleteFile, Outside
  <2>2. /\ DOMAIN entry' \subseteq DOMAIN entry
        /\ \A q \in DOMAIN entry' : entry'[q] \in {entry[q], Spare}
    BY <1>5 DEF SaveOver, DeleteFile, Restrict
  <2> QED
    BY <1>1, <2>1, <2>2 DEF DiskStep, DiskKept, History, Id, Stayed
<1>6. ASSUME SwapRoot \/ SwapBack
      PROVE  DiskStep /\ DiskKept' /\ History'
  <2>1. /\ layout' = layout /\ UNCHANGED <<entry, folders, content, stamp, was>>
        /\ \/ ~away /\ away' = TRUE /\ returned' = returned /\ events' # 0
           \/ away /\ away' = FALSE /\ returned' = TRUE /\ events' = events
    BY <1>6, ScanAssumption DEF SwapRoot, SwapBack, Outside, DiskKept
  <2>2. stamp \in [Inodes -> Nat] /\ {away', returned'} \subseteq BOOLEAN
        /\ (away \/ returned => events # 0)
    BY <2>1 DEF DiskKept
  <2>3. DiskStep
    BY <2>1, <2>2 DEF DiskStep, Stayed
  <2>4. away' \/ returned' => events' # 0
    BY <2>1, <2>2
  <2>5. DiskKept'
    BY <1>1, <2>1, <2>2, <2>4 DEF DiskKept
  <2>6. History'
    BY <2>1 DEF History, Id
  <2> QED
    BY <2>3, <2>5, <2>6
<1>7. CASE Aside
  <2>1. \/ UNCHANGED <<layout, OnDisk>> \/ \E ps : RemovePaths(ps)
        \/ \E i \in Inodes, c \in Contents : EditFile(i, c)
        \/ \E p \in DOMAIN entry : SaveOver(p) \/ DeleteFile(p)
        \/ SwapRoot \/ SwapBack
    BY <1>7 DEF Aside, BeginRefresh, OpenCache, RefreshStopped, SaveScan, ScanFailed,
           PairScanned, RefreshScanned, SaveRefreshed, AnswerRefresh, LoadRefused, Cancel, Pause, Resume,
           Stop, OnDisk, vars, disk
  <2> QED
    BY <1>2, <1>3, <1>4, <1>5, <1>6, <2>1
<1>8. CASE ~Aside
  <2>1. UNCHANGED <<layout, OnDisk>>
    BY <1>8, Steps, WorkLeaves DEF OnDisk
  <2> QED
    BY <1>2, <2>1
<1> QED
  BY <1>7, <1>8
-----------------------------------------------------------------------------
(* What was true of the disk stays true while it changes *)

LEMMA FateKept ==
  ASSUME DiskStep, NEW p, NEW i, Fate(p, i)
  PROVE  Fate(p, i)'
BY DEF DiskStep, Fate

LEMMA RowKept ==
  ASSUME DiskStep, NEW row, NEW kind, RowTrue(row, kind, was)
  PROVE  RowTrue(row, kind, was')
BY DEF DiskStep, RowTrue

LEMMA ListingKept ==
  ASSUME DiskStep, NEW d, NEW o, Listing(d, o)
  PROVE  Listing(d, o)'
<1>1. \A s : Status(s) => Status(s)'
  BY FateKept DEF Status, DiskStep
<1>2. \A s \in o.got : Status(s)'
  BY <1>1 DEF Listing
<1> QED
  BY <1>2 DEF Listing, DiskStep

LEMMA ResultKept ==
  ASSUME DiskStep, NEW r, ResultTrue(r)
  PROVE  ResultTrue(r)'
<1>1. \A p \in DOMAIN r.meta : File(r, p)'
  BY FateKept DEF ResultTrue, File, DiskStep
<1>2. \A p \in DOMAIN r.class : p \in DOMAIN r.meta /\ ClassTrue(r, p)'
  BY DEF ResultTrue, ClassTrue, File, DiskStep
<1> QED
  BY <1>1, <1>2 DEF ResultTrue, Maps, Shape

LEMMA WholeKept ==
  ASSUME DiskStep, NEW r, NEW d, ReadWhole(r, d)
  PROVE  ReadWhole(r, d)'
BY DEF DiskStep, ReadWhole, KnownPath

LEMMA JobsKept ==
  ASSUME DiskStep, DiskKept, DiskKept', History, Jobs, ResultTrue(res),
         UNCHANGED <<res, job, found>>,
         phase' = phase \/ {phase, phase'} \cap Stages = {}
  PROVE  Jobs'
<1>1. CASE phase' # phase
  BY <1>1 DEF Jobs
<1>2. CASE phase' = phase
  <2>1. ASSUME NEW p \in DOMAIN res.meta
        PROVE  /\ res.meta[p].id \in DOMAIN was
               /\ res.meta[p].id[1] \in Inodes
               /\ was'[res.meta[p].id] = was[res.meta[p].id]
               /\ stamp[res.meta[p].id[1]] <= stamp'[res.meta[p].id[1]]
    BY DEF ResultTrue, File, History, DiskStep, Ids
  <2>2. \A p \in DOMAIN found : Digested(p) => Digested(p)'
    BY <1>2, <2>1 DEF Digested, Reads, Jobs
  <2>3. ASSUME NEW p \in DOMAIN job, Outdated(p)
        PROVE  Outdated(p)'
    <3> DEFINE id == res.meta[p].id
    <3>1. p \in DOMAIN res.meta
      BY DEF Jobs
    <3>2. id \in Ids /\ id[1] \in Inodes
      BY <2>1, <3>1 DEF History
    <3>3. id[2] \in Nat /\ stamp[id[1]] \in Nat /\ stamp'[id[1]] \in Nat
      BY <3>2 DEF DiskKept, Ids
    <3>4. stamp[id[1]] <= stamp'[id[1]]
      BY <2>1, <3>1
    <3>5. CASE id[2] < stamp[id[1]]
      BY <3>3, <3>4, <3>5 DEF Outdated
    <3>6. CASE id[1] # Spare /\ (p \in DOMAIN entry => entry[p] # id[1])
      <4>1. p \in DOMAIN entry' => entry'[p] # id[1]
        BY <3>6 DEF DiskStep
      <4> QED
        BY <3>6, <4>1 DEF Outdated
    <3> QED
      BY <2>3, <3>5, <3>6 DEF Outdated
  <2> QED
    BY <1>2, <2>2, <2>3 DEF Jobs
<1> QED
  BY <1>1, <1>2
-----------------------------------------------------------------------------
(* The result *)

LEMMA SameFacts ==
  ASSUME NEW r, NEW q, Shape(q), Facts(q) = Facts(r)
  PROVE  /\ q.meta = r.meta /\ q.class = r.class /\ q.ok = r.ok
         /\ q.children = r.children /\ q.links = r.links
         /\ q.aliases = r.aliases /\ q.failed = r.failed
         /\ ResultTrue(r) => ResultTrue(q)
         /\ \A d : ReadWhole(r, d) => ReadWhole(q, d)
<1>1. /\ q.meta = r.meta /\ q.class = r.class /\ q.ok = r.ok
      /\ q.children = r.children /\ q.links = r.links
      /\ q.aliases = r.aliases /\ q.failed = r.failed
  BY DEF Facts
<1>2. ResultTrue(r) => ResultTrue(q)
  BY <1>1 DEF ResultTrue, Maps, File, ClassTrue
<1>3. \A d : ReadWhole(r, d) => ReadWhole(q, d)
  BY <1>1 DEF ReadWhole, KnownPath
<1> QED
  BY <1>1, <1>2, <1>3

LEMMA WithClassKeeps ==
  ASSUME NEW r, Shape(r), NEW new
  PROVE  LET q == WithClass(r, new)
         IN  /\ Shape(q) /\ q.class = Over(new, r.class)
             /\ q.meta = r.meta /\ q.ok = r.ok /\ q.children = r.children
             /\ q.links = r.links /\ q.aliases = r.aliases
             /\ q.failed = r.failed /\ q.partial = r.partial
<1> DEFINE q == WithClass(r, new)
<1>1. q = [r EXCEPT !.class = Over(new, r.class)]
  BY DEF WithClass
<1> HIDE DEF q
<1>2. /\ Shape(q) /\ q.class = Over(new, r.class)
      /\ q.meta = r.meta /\ q.ok = r.ok /\ q.children = r.children
      /\ q.links = r.links /\ q.aliases = r.aliases
      /\ q.failed = r.failed /\ q.partial = r.partial
  BY <1>1 DEF Shape
<1> QED
  BY <1>2 DEF q

LEMMA UnreadKeeps ==
  ASSUME NEW r, Shape(r), NEW ps
  PROVE  LET q  == Unread(r, ps)
             ds == {p[1] : p \in ps}
         IN  /\ Shape(q) /\ q.class = Over(UniqueClass(ps), r.class)
             /\ q.ok = Over([d \in ds |-> FALSE], r.ok) /\ q.failed = r.failed \cup ds
             /\ q.meta = r.meta /\ q.children = r.children
             /\ q.links = r.links /\ q.aliases = r.aliases /\ q.partial = r.partial
<1> DEFINE q == Unread(r, ps)
           w == WithClass(r, UniqueClass(ps))
           ds == {p[1] : p \in ps}
<1>1. q = [w EXCEPT !.ok = Over([d \in ds |-> FALSE], w.ok), !.failed = w.failed \cup ds]
  BY DEF Unread
<1>2. /\ Shape(w) /\ w.class = Over(UniqueClass(ps), r.class)
      /\ w.meta = r.meta /\ w.ok = r.ok /\ w.children = r.children
      /\ w.links = r.links /\ w.aliases = r.aliases
      /\ w.failed = r.failed /\ w.partial = r.partial
  BY WithClassKeeps, Zenon
<1> HIDE DEF q, w, ds
<1>3. /\ Shape(q) /\ q.class = w.class
      /\ q.ok = Over([d \in ds |-> FALSE], w.ok) /\ q.failed = w.failed \cup ds
      /\ q.meta = w.meta /\ q.children = w.children
      /\ q.links = w.links /\ q.aliases = w.aliases /\ q.partial = w.partial
  BY <1>1, <1>2 DEF Shape
<1> QED
  BY <1>2, <1>3, Zenon DEF q, ds

\* What a stage of the funnel leaves, in one: ps could not be read, new has the
\* classes of the others.
Funnelled(r, ps, new) == WithClass(Unread(r, ps), new)

\* The folders of some files, and what a failed read tells of them.
FoldersOf(ps) == {p[1] : p \in ps}

Unproven(ps) == [d \in FoldersOf(ps) |-> FALSE]

LEMMA FunnelledKeeps ==
  ASSUME NEW r, Shape(r), NEW ps, NEW new
  PROVE  /\ Shape(Funnelled(r, ps, new))
         /\ Funnelled(r, ps, new).class = Over(new, Over(UniqueClass(ps), r.class))
         /\ Funnelled(r, ps, new).ok = Over(Unproven(ps), r.ok)
         /\ Funnelled(r, ps, new).failed = r.failed \cup FoldersOf(ps)
         /\ Funnelled(r, ps, new).meta = r.meta
         /\ Funnelled(r, ps, new).children = r.children
         /\ Funnelled(r, ps, new).links = r.links
         /\ Funnelled(r, ps, new).aliases = r.aliases
         /\ Funnelled(r, ps, new).partial = r.partial
<1> DEFINE u == Unread(r, ps)
           q == WithClass(u, new)
<1>1. /\ Shape(u) /\ u.class = Over(UniqueClass(ps), r.class)
      /\ u.ok = Over(Unproven(ps), r.ok) /\ u.failed = r.failed \cup FoldersOf(ps)
      /\ u.meta = r.meta /\ u.children = r.children
      /\ u.links = r.links /\ u.aliases = r.aliases /\ u.partial = r.partial
  BY UnreadKeeps, Zenon DEF Unproven, FoldersOf
<1> HIDE DEF u
<1>2. /\ Shape(q) /\ q.class = Over(new, u.class)
      /\ q.meta = u.meta /\ q.ok = u.ok /\ q.children = u.children
      /\ q.links = u.links /\ q.aliases = u.aliases
      /\ q.failed = u.failed /\ q.partial = u.partial
  BY <1>1, WithClassKeeps, Zenon
<1>3. Funnelled(r, ps, new) = q
  BY DEF Funnelled, u
<1> HIDE DEF q
<1> QED
  BY <1>1, <1>2, <1>3

\* A file's class of its own is not one that several share.
LEMMA UniqueIsNotShared ==
  ASSUME NEW p \in Dirs \X Nat
  PROVE  ~Shared(Unique(p))
BY DEF Shared, Unique

LEMMA FilesArePaths ==
  ASSUME DiskKept, NEW r, ResultTrue(r)
  PROVE  \A p \in DOMAIN r.meta : p \in Paths /\ p[1] \in Dirs
BY ZenonT(60), LayoutAssumption DEF DiskKept, Volume, ResultTrue, File, Paths

LEMMA FunnelledTrue ==
  ASSUME DiskKept, NEW r, ResultTrue(r), NEW ps \in SUBSET DOMAIN r.meta, NEW new,
         \A p \in DOMAIN new :
           p \in DOMAIN r.meta /\
           LET held == was[r.meta[p].id]
           IN  Shared(new[p]) => new[p] = Class(SizeOf[held], held)
  PROVE  /\ ResultTrue(Funnelled(r, ps, new))
         /\ DOMAIN Funnelled(r, ps, new).ok = DOMAIN r.ok
         /\ \A d \in DOMAIN r.ok : ReadWhole(r, d) => ReadWhole(Funnelled(r, ps, new), d)
<1> DEFINE q == Funnelled(r, ps, new)
<1>1. /\ Shape(q) /\ q.class = Over(new, Over(UniqueClass(ps), r.class))
      /\ q.ok = Over(Unproven(ps), r.ok) /\ q.failed = r.failed \cup FoldersOf(ps)
      /\ q.meta = r.meta /\ q.children = r.children
      /\ q.links = r.links /\ q.aliases = r.aliases /\ q.partial = r.partial
  <2>1. Shape(r)
    BY DEF ResultTrue
  <2> QED
    BY <2>1, FunnelledKeeps
<1> HIDE DEF q
<1>2. FoldersOf(ps) \subseteq DOMAIN r.ok
  BY DEF ResultTrue, File, FoldersOf
<1>3. /\ DOMAIN q.ok = DOMAIN r.ok
      /\ \A d \in DOMAIN r.ok : IF d \in FoldersOf(ps) THEN q.ok[d] = FALSE ELSE q.ok[d] = r.ok[d]
  BY <1>1, <1>2 DEF Over, Unproven
<1>4. /\ DOMAIN q.class = DOMAIN new \cup ps \cup DOMAIN r.class
      /\ \A p \in DOMAIN q.class : q.class[p] = IF p \in DOMAIN new THEN new[p]
                                              ELSE IF p \in ps THEN Unique(p) ELSE r.class[p]
  BY <1>1 DEF Over, UniqueClass
<1>5. \A p \in DOMAIN q.class : p \in DOMAIN q.meta /\ ClassTrue(q, p)
  <2>1. \A p \in ps : ~Shared(Unique(p))
    BY FilesArePaths, UniqueIsNotShared DEF Paths
  <2> SUFFICES ASSUME NEW p \in DOMAIN q.class PROVE p \in DOMAIN q.meta /\ ClassTrue(q, p)
    OBVIOUS
  <2>2. CASE p \in DOMAIN new
    BY <1>1, <1>4, <2>2 DEF ClassTrue
  <2>3. CASE p \notin DOMAIN new /\ p \in ps
    BY <1>1, <1>4, <2>1, <2>3 DEF ClassTrue
  <2>4. CASE p \notin DOMAIN new /\ p \notin ps
    <3>1. p \in DOMAIN r.class /\ q.class[p] = r.class[p]
      BY <1>4, <2>4
    <3> QED
      BY <1>1, <3>1 DEF ClassTrue, ResultTrue
  <2> QED
    BY <2>2, <2>3, <2>4
<1>6. Maps(q)
  BY <1>1, <1>2, <1>3 DEF ResultTrue, Maps
<1>7. \A p \in DOMAIN q.meta : File(q, p)
  BY <1>1, <1>3 DEF ResultTrue, File
<1>8. \A d \in DOMAIN r.ok : ReadWhole(r, d) => ReadWhole(q, d)
  BY <1>1, <1>3 DEF ReadWhole, KnownPath
<1> QED
  BY <1>1, <1>3, <1>5, <1>6, <1>7, <1>8 DEF ResultTrue, q
-----------------------------------------------------------------------------
(* The merge of a folder that was listed *)

\* The name a hard linked file is known by is one of a file that is taken.
LEMMA CanonicalTaken ==
  ASSUME DiskKept, NEW d, NEW o, Listing(d, o), NEW s \in Taken(o.got)
  PROVE  \/ s.id[1] \in DOMAIN seen /\ Canonical(o.got, s) = seen[s.id[1]]
         \/ \E t \in Taken(o.got) : /\ Canonical(o.got, s) = t.path
                                    /\ Canonical(o.got, t) = t.path
                                    /\ t.id[1] = s.id[1]
<1> DEFINE i == s.id[1]
           First(t) == /\ t.id[1] = i
                       /\ \A u \in Taken(o.got) : u.id[1] = i => t.path[2] <= u.path[2]
           names == {t.path[2] : t \in {u \in Taken(o.got) : u.id[1] = i}}
<1>1. CASE s.nlink = 1
  BY <1>1 DEF Canonical
<1>2. CASE s.nlink # 1 /\ i \in DOMAIN seen
  BY <1>2 DEF Canonical
<1>3. CASE s.nlink # 1 /\ i \notin DOMAIN seen
  <2>1. \A t \in Taken(o.got) : t.path \in Paths
    BY LayoutAssumption DEF Listing, Status, Taken, DiskKept, Volume, Paths
  <2>2. names \in SUBSET Nat /\ names # {}
    BY <2>1 DEF Paths
  <2>3. PICK n \in names : \A m \in names : n <= m
    BY <2>2, HasLeast
  <2>4. PICK u \in Taken(o.got) : u.id[1] = i /\ u.path[2] = n
    BY <2>3
  <2>5. First(u)
    BY <2>3, <2>4
  <2> DEFINE t == CHOOSE v \in Taken(o.got) : First(v)
  <2>6. t \in Taken(o.got) /\ First(t)
    BY <2>5
  <2>7. Canonical(o.got, s) = t.path
    BY <1>3 DEF Canonical
  <2>8. Canonical(o.got, t) = t.path
    <3>1. t.id[1] = i
      BY <2>6
    <3> QED
      BY <1>3, <3>1, <2>7 DEF Canonical
  <2> QED
    BY <2>6, <2>7, <2>8
<1> QED
  BY <1>1, <1>2, <1>3

\* What a listed folder adds: the files not known by another name, the entries
\* that are not read, the links and the further names.
Fresh(o) == {s \in Taken(o.got) : Canonical(o.got, s) = s.path}

NotRead(o) == {s \in o.got : s.kind \in {"special", "cloud"}}

FreshMeta(o) ==
  [p \in {s.path : s \in Fresh(o)} |->
     LET s == CHOOSE t \in Fresh(o) : t.path = p
     IN  [id |-> s.id, size |-> SizeOf[s.data]]]

LinksOf(o) ==
  {<<"L", s.path[2], s.data>> : s \in {t \in o.got : t.kind = "link" /\ ~Filtered(t)}}

AliasesOf(o) ==
  {<<s.path, Canonical(o.got, s)>> : s \in Taken(o.got) \ Fresh(o)}

ManifestWhole(o) == o.ok /\ NotRead(o) = {} /\ \A s \in o.got : ~Filtered(s)

LEMMA MergedKeeps ==
  ASSUME Shape(res), NEW d, NEW o, NEW q, q = MergedDir(d, o)
  PROVE  /\ Shape(q) /\ q.meta = Over(FreshMeta(o), res.meta) /\ q.class = res.class
         /\ q.ok = Put(res.ok, d, ManifestWhole(o))
         /\ q.failed = IF o.err \/ NotRead(o) # {} THEN res.failed \cup {d} ELSE res.failed
         /\ q.children = Put(res.children, d, o.subs)
         /\ q.links = Put(res.links, d, LinksOf(o))
         /\ q.aliases = Put(res.aliases, d, AliasesOf(o))
         /\ q.partial = res.partial
<1> DEFINE failed1 == IF o.err \/ NotRead(o) # {} THEN res.failed \cup {d} ELSE res.failed
<1>1. q = [res EXCEPT !.meta = Over(FreshMeta(o), res.meta),
                      !.ok = Put(res.ok, d, ManifestWhole(o)), !.failed = failed1,
                      !.children = Put(res.children, d, o.subs),
                      !.links = Put(res.links, d, LinksOf(o)),
                      !.aliases = Put(res.aliases, d, AliasesOf(o))]
  BY Zenon DEF MergedDir, Fresh, FreshMeta, NotRead, LinksOf, AliasesOf, ManifestWhole
<1> HIDE DEF failed1
<1>2. /\ Shape(q) /\ q.meta = Over(FreshMeta(o), res.meta) /\ q.class = res.class
      /\ q.ok = Put(res.ok, d, ManifestWhole(o)) /\ q.failed = failed1
      /\ q.children = Put(res.children, d, o.subs)
      /\ q.links = Put(res.links, d, LinksOf(o))
      /\ q.aliases = Put(res.aliases, d, AliasesOf(o)) /\ q.partial = res.partial
  BY <1>1 DEF Shape
<1> QED
  BY <1>2 DEF failed1

LEMMA MergedTrue ==
  ASSUME DiskKept, History, ResultTrue(res), DOMAIN res.class = {},
         \A i \in DOMAIN seen : seen[i] \in DOMAIN res.meta,
         NEW d \in Dirs, NEW o, Listing(d, o), o.left = {}
  PROVE  LET q == MergedDir(d, o)
         IN  /\ ResultTrue(q) /\ DOMAIN q.ok = DOMAIN res.ok \cup {d}
             /\ DOMAIN res.meta \subseteq DOMAIN q.meta /\ DOMAIN q.class = {}
             /\ q.partial = res.partial
             /\ \A s \in Taken(o.got) : Canonical(o.got, s) \in DOMAIN q.meta
             /\ ReadWhole(q, d)
             /\ \A e \in DOMAIN res.ok \ {d} : ReadWhole(res, e) => ReadWhole(q, e)
<1> DEFINE q == MergedDir(d, o)
<1>1. Shape(res)
  BY DEF ResultTrue
<1>2. /\ Shape(q) /\ q.meta = Over(FreshMeta(o), res.meta) /\ q.class = res.class
      /\ q.ok = Put(res.ok, d, ManifestWhole(o))
      /\ q.failed = IF o.err \/ NotRead(o) # {} THEN res.failed \cup {d} ELSE res.failed
      /\ q.children = Put(res.children, d, o.subs)
      /\ q.links = Put(res.links, d, LinksOf(o))
      /\ q.aliases = Put(res.aliases, d, AliasesOf(o))
      /\ q.partial = res.partial
  BY <1>1, MergedKeeps
<1> HIDE DEF q
<1>3. /\ DOMAIN q.meta = DOMAIN res.meta \cup {s.path : s \in Fresh(o)}
      /\ \A p \in DOMAIN res.meta : p \notin {s.path : s \in Fresh(o)} => q.meta[p] = res.meta[p]
  BY <1>2 DEF Over, FreshMeta
<1>4. ASSUME NEW p \in {s.path : s \in Fresh(o)}
      PROVE  \E s \in Fresh(o) : s.path = p /\ q.meta[p].id = s.id
                            /\ q.meta[p].size = SizeOf[s.data]
  <2>1. q.meta[p] = FreshMeta(o)[p]
    BY <1>2 DEF Over, FreshMeta
  <2> DEFINE s == CHOOSE t \in Fresh(o) : t.path = p
  <2>2. s \in Fresh(o) /\ s.path = p
    BY <1>4
  <2>3. FreshMeta(o)[p] = [id |-> s.id, size |-> SizeOf[s.data]]
    BY <1>4 DEF FreshMeta
  <2> HIDE DEF s
  <2> QED
    BY <2>1, <2>2, <2>3
<1>5. ASSUME NEW s \in Taken(o.got) PROVE Canonical(o.got, s) \in DOMAIN q.meta
  BY <1>3, CanonicalTaken DEF Fresh
<1>6. /\ DOMAIN q.ok = DOMAIN res.ok \cup {d} /\ DOMAIN q.children = DOMAIN res.children \cup {d}
      /\ DOMAIN q.links = DOMAIN res.links \cup {d}
      /\ DOMAIN q.aliases = DOMAIN res.aliases \cup {d}
      /\ q.children[d] = o.subs /\ q.links[d] = LinksOf(o) /\ q.aliases[d] = AliasesOf(o)
      /\ q.ok[d] = ManifestWhole(o)
      /\ \A e \in DOMAIN res.ok \ {d} :
           /\ q.ok[e] = res.ok[e] /\ q.children[e] = res.children[e]
           /\ q.links[e] = res.links[e] /\ q.aliases[e] = res.aliases[e]
           /\ e \in q.failed => e \in res.failed
      /\ res.failed \subseteq q.failed /\ q.failed \subseteq res.failed \cup {d}
  <2>2. /\ DOMAIN q.ok = DOMAIN res.ok \cup {d}
        /\ q.ok[d] = ManifestWhole(o)
        /\ \A e \in DOMAIN res.ok \ {d} : q.ok[e] = res.ok[e]
    <3>1. q.ok = Put(res.ok, d, ManifestWhole(o))
      BY <1>2
    <3> QED
      BY <3>1 DEF Put
  <2>3. /\ DOMAIN q.children = DOMAIN res.children \cup {d} /\ q.children[d] = o.subs
        /\ \A e \in DOMAIN res.children \ {d} : q.children[e] = res.children[e]
    <3>1. q.children = Put(res.children, d, o.subs)
      BY <1>2
    <3> QED
      BY <3>1 DEF Put
  <2>4. /\ DOMAIN q.links = DOMAIN res.links \cup {d} /\ q.links[d] = LinksOf(o)
        /\ \A e \in DOMAIN res.links \ {d} : q.links[e] = res.links[e]
    <3>1. q.links = Put(res.links, d, LinksOf(o))
      BY <1>2
    <3> QED
      BY <3>1 DEF Put
  <2>5. /\ DOMAIN q.aliases = DOMAIN res.aliases \cup {d} /\ q.aliases[d] = AliasesOf(o)
        /\ \A e \in DOMAIN res.aliases \ {d} : q.aliases[e] = res.aliases[e]
    <3>1. q.aliases = Put(res.aliases, d, AliasesOf(o))
      BY <1>2
    <3> QED
      BY <3>1 DEF Put
  <2>6. res.failed \subseteq q.failed /\ q.failed \subseteq res.failed \cup {d}
    BY <1>2
  <2>7. DOMAIN res.children = DOMAIN res.ok /\ DOMAIN res.links = DOMAIN res.ok
        /\ DOMAIN res.aliases = DOMAIN res.ok
    BY DEF ResultTrue, Maps
  <2> QED
    BY <2>2, <2>3, <2>4, <2>5, <2>6, <2>7
<1>7. Maps(q)
  <2>1. \A k \in o.subs : k \in Dirs /\ ParentOf[k] = d
    BY DEF Listing
  <2>2. \A a \in AliasesOf(o) : a[1][1] = d /\ a[2] \in DOMAIN q.meta
    BY <1>5 DEF Listing, Taken, AliasesOf
  <2>3. ASSUME NEW e \in DOMAIN q.ok
        PROVE  /\ \A k \in q.children[e] : k \in Dirs /\ ParentOf[k] = e
               /\ \A a \in q.aliases[e] : a[1][1] = e /\ a[2] \in DOMAIN q.meta
    BY <1>3, <1>6, <2>1, <2>2 DEF ResultTrue, Maps
  <2> QED
    BY <1>6, <2>3 DEF ResultTrue, Maps
<1>8. ASSUME NEW p \in DOMAIN q.meta PROVE File(q, p)
  <2>1. CASE p \in {s.path : s \in Fresh(o)}
    <3>1. PICK s \in Fresh(o) : s.path = p /\ q.meta[p].id = s.id
                           /\ q.meta[p].size = SizeOf[s.data]
      BY <1>4, <2>1
    <3>2. Status(s) /\ s.path[1] = d
      BY DEF Listing, Taken, Fresh
    <3> QED
      BY <1>6, <3>1, <3>2 DEF File, Status
  <2>2. CASE p \notin {s.path : s \in Fresh(o)}
    BY <1>3, <1>6, <2>2 DEF File, ResultTrue
  <2> QED
    BY <2>1, <2>2
<1>9. ReadWhole(q, d)
  <2>1. Stayed =>
          \A k \in folders : ParentOf[k] = d => k \in q.children[d] \cup layout.skipped
    BY <1>6 DEF Listing
  <2>2. ASSUME Stayed, q.ok[d] \/ d \notin q.failed,
               NEW p \in DOMAIN entry, p[1] = d, p \notin layout.filtered
        PROVE  KnownPath(q, p)
    <3>1. PICK s \in o.got : s.path = p
      BY <2>2 DEF Listing, Stayed
    <3>2. Status(s)
      BY DEF Listing
    <3>3. s.kind \in {"file", "link", "special", "cloud"}
      BY <3>2, ScanAssumption DEF Status, History, Ids
    <3>4. NotRead(o) = {}
      BY <1>2, <1>6, <2>2 DEF ManifestWhole
    <3>5. s.kind \notin {"special", "cloud"}
      BY <3>4 DEF NotRead
    <3>6. ~Filtered(s)
      BY <2>2, <3>1 DEF Filtered
    <3>7. CASE s.kind = "link"
      <4>1. <<"L", p[2], s.data>> \in LinksOf(o)
        BY <3>1, <3>6, <3>7 DEF LinksOf
      <4>2. <<"L", p[2], s.data>> \in q.links[p[1]]
        BY <1>6, <2>2, <4>1
      <4>3. \E l \in q.links[p[1]] : l[2] = p[2]
        BY <4>2
      <4> QED
        BY <4>3, Zenon DEF KnownPath
    <3>8. CASE s.kind = "file" /\ s \in Fresh(o)
      BY <1>3, <3>1, <3>8 DEF KnownPath
    <3>9. CASE s.kind = "file" /\ s \notin Fresh(o)
      <4>1. s \in Taken(o.got) \ Fresh(o)
        BY <3>6, <3>9 DEF Taken
      <4>2. <<p, Canonical(o.got, s)>> \in AliasesOf(o)
        BY <3>1, <4>1 DEF AliasesOf
      <4>3. <<p, Canonical(o.got, s)>> \in q.aliases[p[1]]
        BY <1>6, <2>2, <4>2
      <4>4. \E a \in q.aliases[p[1]] : a[1] = p
        BY <4>3
      <4> QED
        BY <4>4, Zenon DEF KnownPath
    <3> QED
      BY <3>3, <3>5, <3>7, <3>8, <3>9
  <2> QED
    BY <2>1, <2>2 DEF ReadWhole
<1>10. ASSUME NEW e \in DOMAIN res.ok \ {d}, ReadWhole(res, e)
       PROVE  ReadWhole(q, e)
  <2>1. \A p : p[1] = e /\ KnownPath(res, p) => KnownPath(q, p)
    BY <1>3, <1>6 DEF KnownPath
  <2> QED
    BY <1>6, <1>10, <2>1 DEF ReadWhole
<1>11. DOMAIN q.class = {}
  BY <1>2
<1>12. ResultTrue(q)
  BY <1>2, <1>7, <1>8, <1>11 DEF ResultTrue
<1> QED
  BY <1>2, <1>3, <1>5, <1>6, <1>9, <1>10, <1>11, <1>12 DEF q
-----------------------------------------------------------------------------
(* The result and the steps that change it *)

LEMMA CollectedTrue ==
  ASSUME DiskKept, History, Jobs, ResultTrue(res), StageDone,
         NEW known \in SUBSET HashedFiles,
         \A p \in known : found[p] = was[res.meta[p].id]
  PROVE  LET q == Collected(known)
         IN  /\ ResultTrue(q) /\ DOMAIN q.ok = DOMAIN res.ok
             /\ q.meta = res.meta /\ q.partial = res.partial
             /\ DOMAIN res.class \cup {p \in DOMAIN found : found[p] \in {Error, None}}
                  \cup Lone \cup known \subseteq DOMAIN q.class
             /\ \A d \in DOMAIN res.ok : ReadWhole(res, d) => ReadWhole(q, d)
<1> DEFINE errors == {p \in DOMAIN found : found[p] = Error}
           blank  == {p \in DOMAIN found : found[p] = None}
           new == Over([p \in known |-> ClassFound(p)], UniqueClass(blank \cup Lone))
           q == Funnelled(res, errors, new)
<1>1. Collected(known) = q
  BY DEF Collected, Funnelled
<1>2. DOMAIN found \subseteq DOMAIN res.meta /\ errors \subseteq DOMAIN res.meta
  BY DEF Jobs
<1>3. /\ DOMAIN new = known \cup blank \cup Lone
      /\ \A p \in DOMAIN new : new[p] = IF p \in known THEN ClassFound(p) ELSE Unique(p)
  BY DEF Over, UniqueClass
<1>4. known \cup blank \cup Lone \subseteq DOMAIN res.meta
  BY <1>2 DEF Lone, HashedFiles
<1>5. \A p \in DOMAIN res.meta : p \in Dirs \X Nat /\ ~Shared(Unique(p))
  BY FilesArePaths, UniqueIsNotShared DEF Paths
<1> HIDE DEF new, errors, blank
<1>6. \A p \in DOMAIN new :
        p \in DOMAIN res.meta /\
        LET held == was[res.meta[p].id]
        IN  Shared(new[p]) => new[p] = Class(SizeOf[held], held)
  <2> SUFFICES ASSUME NEW p \in DOMAIN new
               PROVE  p \in DOMAIN res.meta /\
                      LET held == was[res.meta[p].id]
                      IN  Shared(new[p]) => new[p] = Class(SizeOf[held], held)
    OBVIOUS
  <2>1. p \in DOMAIN res.meta
    BY <1>3, <1>4
  <2>2. res.meta[p].size = SizeOf[was[res.meta[p].id]]
    BY <2>1 DEF ResultTrue, File
  <2>3. CASE p \in known
    BY <1>3, <2>1, <2>2, <2>3 DEF ClassFound
  <2>4. CASE p \notin known
    BY <1>3, <1>5, <2>1, <2>4
  <2> QED
    BY <2>3, <2>4
<1>7. /\ ResultTrue(q) /\ DOMAIN q.ok = DOMAIN res.ok
      /\ \A d \in DOMAIN res.ok : ReadWhole(res, d) => ReadWhole(q, d)
  BY <1>2, <1>6, FunnelledTrue
<1>8. q.meta = res.meta /\ q.partial = res.partial
      /\ q.class = Over(new, Over(UniqueClass(errors), res.class))
  <2>1. Shape(res)
    BY DEF ResultTrue
  <2> QED
    BY <2>1, FunnelledKeeps
<1> HIDE DEF q
<1>9. DOMAIN q.class = DOMAIN new \cup errors \cup DOMAIN res.class
  BY <1>8 DEF Over, UniqueClass
<1>10. {p \in DOMAIN found : found[p] \in {Error, None}} = errors \cup blank
  BY DEF errors, blank
<1> QED
  BY <1>1, <1>3, <1>7, <1>8, <1>9, <1>10

\* What the first bytes of a small file tell is all of it.
LEMMA SettledTrue ==
  ASSUME DiskKept, History, Jobs, ResultTrue(res), phase = "probe", StageDone,
         NEW p \in Settled
  PROVE  found[p] = was[res.meta[p].id]
<1>1. p \in DOMAIN found /\ found[p] \notin {Error, None} /\ res.meta[p].size <= Partial
  BY DEF Settled, HashedFiles
<1>2. p \in DOMAIN res.meta /\ found[p] = Probe[was[res.meta[p].id]]
  BY <1>1 DEF Jobs, StageDone, Digested, Reads
<1>3. /\ was[res.meta[p].id] \in Contents
      /\ res.meta[p].size = SizeOf[was[res.meta[p].id]]
  BY <1>2 DEF ResultTrue, File, History
<1> QED
  BY <1>1, <1>2, <1>3, ScanAssumption

LEMMA FullTrue ==
  ASSUME Jobs, phase = "full", StageDone, NEW p \in HashedFiles
  PROVE  found[p] = was[res.meta[p].id]
BY DEF HashedFiles, Jobs, StageDone, Digested, Reads

LEMMA ProbeDoneTrue ==
  ASSUME Inv, ProbeDone
  PROVE  /\ ResultTrue(res') /\ DOMAIN res'.ok = DOMAIN res.ok
         /\ res'.meta = res.meta /\ res'.partial = res.partial
         /\ DOMAIN res.class \cup {p \in DOMAIN found : found[p] \in {Error, None}}
              \cup Lone \cup Settled \subseteq DOMAIN res'.class
         /\ \A d \in DOMAIN res.ok : ReadWhole(res, d) => ReadWhole(res', d)
BY CollectedTrue, SettledTrue DEF Inv, ProbeDone, Settled

LEMMA FullDoneTrue ==
  ASSUME Inv, FullDone
  PROVE  /\ ResultTrue(res') /\ DOMAIN res'.ok = DOMAIN res.ok
         /\ res'.meta = res.meta /\ res'.partial = res.partial
         /\ DOMAIN res.class \cup {p \in DOMAIN found : found[p] \in {Error, None}}
              \cup HashedFiles \subseteq DOMAIN res'.class
         /\ \A d \in DOMAIN res.ok : ReadWhole(res, d) => ReadWhole(res', d)
<1>1. \A p \in HashedFiles \ Lone : found[p] = was[res.meta[p].id]
  BY FullTrue DEF Inv, FullDone
<1>2. HashedFiles \ Lone \in SUBSET HashedFiles
  OBVIOUS
<1>3. LET q == Collected(HashedFiles \ Lone)
      IN  /\ ResultTrue(q) /\ DOMAIN q.ok = DOMAIN res.ok
          /\ q.meta = res.meta /\ q.partial = res.partial
          /\ DOMAIN res.class \cup {p \in DOMAIN found : found[p] \in {Error, None}}
               \cup Lone \cup (HashedFiles \ Lone) \subseteq DOMAIN q.class
          /\ \A d \in DOMAIN res.ok : ReadWhole(res, d) => ReadWhole(q, d)
  BY <1>1, <1>2, CollectedTrue, Zenon DEF Inv, FullDone
<1>4. res' = Collected(HashedFiles \ Lone)
  BY DEF FullDone
<1> QED
  BY <1>3, <1>4

\* Every file without content there is has one class.
LEMMA BySizeTrue ==
  ASSUME Inv, BySize
  PROVE  /\ ResultTrue(res') /\ DOMAIN res'.ok = DOMAIN res.ok
         /\ res'.meta = res.meta /\ res'.partial = res.partial
         /\ DOMAIN res.meta \subseteq DOMAIN res'.class \cup DOMAIN job'
         /\ \A d \in DOMAIN res.ok : ReadWhole(res, d) => ReadWhole(res', d)
<1> DEFINE files == DOMAIN res.meta
           size(p) == res.meta[p].size
           zero  == {p \in files : size(p) = 0}
           still == {p \in zero : Here(p) /\ Kind[entry[p]] = "file"
                                  /\ SizeOf[content[entry[p]]] = 0}
           lone  == {p \in files \ zero : \A q \in files \ {p} : size(q) # size(p)}
           known == Over([p \in still |-> Class(0, Empty)], UniqueClass(lone))
           q == Funnelled(res, zero \ still, known)
<1>1. res' = q
  BY Zenon DEF BySize, Funnelled
<1>2. DOMAIN job' = files \ (zero \cup lone)
  BY DEF BySize, Offered
<1>3. /\ DOMAIN known = still \cup lone
      /\ \A p \in DOMAIN known : known[p] = IF p \in still THEN Class(0, Empty) ELSE Unique(p)
  BY DEF Over, UniqueClass
<1>4. still \subseteq files /\ lone \subseteq files /\ zero \ still \in SUBSET files
  OBVIOUS
<1>5. \A p \in files : p \in Dirs \X Nat /\ ~Shared(Unique(p))
  BY FilesArePaths, UniqueIsNotShared DEF Paths, Inv
<1>6. \A p \in still : size(p) = 0
  OBVIOUS
<1> HIDE DEF known, still, lone, zero
<1>7. \A p \in DOMAIN known :
        p \in files /\
        LET held == was[res.meta[p].id]
        IN  Shared(known[p]) => known[p] = Class(SizeOf[held], held)
  <2> SUFFICES ASSUME NEW p \in DOMAIN known
               PROVE  p \in files /\
                      LET held == was[res.meta[p].id]
                      IN  Shared(known[p]) => known[p] = Class(SizeOf[held], held)
    OBVIOUS
  <2>1. p \in files
    BY <1>3, <1>4
  <2>2. /\ size(p) = SizeOf[was[res.meta[p].id]]
        /\ was[res.meta[p].id] \in Contents
    BY <2>1 DEF ResultTrue, File, Inv, History
  <2>3. CASE p \in still
    <3>1. SizeOf[was[res.meta[p].id]] = 0
      BY <1>6, <2>2, <2>3
    <3>2. Empty = was[res.meta[p].id]
      BY <2>2, <3>1, ScanAssumption DEF Empty
    <3> QED
      BY <1>3, <2>1, <2>3, <3>1, <3>2
  <2>4. CASE p \notin still
    BY <1>3, <1>5, <2>1, <2>4
  <2> QED
    BY <2>3, <2>4
<1>8. /\ ResultTrue(q) /\ DOMAIN q.ok = DOMAIN res.ok
      /\ \A d \in DOMAIN res.ok : ReadWhole(res, d) => ReadWhole(q, d)
  BY <1>4, <1>7, FunnelledTrue DEF Inv
<1>9. q.meta = res.meta /\ q.partial = res.partial
      /\ q.class = Over(known, Over(UniqueClass(zero \ still), res.class))
  <2>1. Shape(res)
    BY DEF ResultTrue, Inv
  <2> QED
    BY <2>1, FunnelledKeeps
<1> HIDE DEF q
<1>10. still \cup lone \cup (zero \ still) \subseteq DOMAIN q.class
  BY <1>3, <1>9 DEF Over, UniqueClass
<1> QED
  BY <1>1, <1>2, <1>8, <1>9, <1>10

\* A listed folder that is merged.
LEMMA MergeDirTrue ==
  ASSUME Inv, NEW d \in Dirs, MergeDir(d)
  PROVE  /\ ResultTrue(res') /\ DOMAIN res'.ok = DOMAIN res.ok \cup {d}
         /\ DOMAIN res.meta \subseteq DOMAIN res'.meta /\ DOMAIN res'.class = {}
         /\ res'.partial = res.partial
         /\ \A e \in DOMAIN res'.ok : ReadWhole(res', e)
         /\ \A i \in DOMAIN seen' : seen'[i] \in DOMAIN res'.meta
<1>1. PICK o : o = opened[d]
  OBVIOUS
<1>2. /\ phase = "walk" /\ d \in DOMAIN opened /\ o.left = {}
      /\ res' = MergedDir(d, o)
      /\ seen' = Over([i \in {s.id[1] : s \in {t \in Taken(o.got) : t.nlink > 1}}
                         |-> Canonical(o.got, CHOOSE s \in Taken(o.got) : s.id[1] = i)], seen)
  BY <1>1 DEF MergeDir
<1>3. Listing(d, o) /\ DOMAIN res.class = {}
      /\ (\A i \in DOMAIN seen : seen[i] \in DOMAIN res.meta)
      /\ \A e \in DOMAIN res.ok : ReadWhole(res, e)
  BY <1>1, <1>2 DEF Inv, Listings, Classed, SeenKnown, KnownWhole
<1>4. DiskKept /\ History /\ ResultTrue(res)
  BY DEF Inv
<1> DEFINE q == MergedDir(d, o)
<1>5. /\ ResultTrue(q) /\ DOMAIN q.ok = DOMAIN res.ok \cup {d}
      /\ DOMAIN res.meta \subseteq DOMAIN q.meta /\ DOMAIN q.class = {}
      /\ q.partial = res.partial
      /\ \A s \in Taken(o.got) : Canonical(o.got, s) \in DOMAIN q.meta
      /\ ReadWhole(q, d)
      /\ \A e \in DOMAIN res.ok \ {d} : ReadWhole(res, e) => ReadWhole(q, e)
  BY <1>2, <1>3, <1>4, MergedTrue
<1> HIDE DEF q
<1>6. \A i \in DOMAIN seen' : seen'[i] \in DOMAIN q.meta
  <2> DEFINE ids == {s.id[1] : s \in {t \in Taken(o.got) : t.nlink > 1}}
             name(i) == Canonical(o.got, CHOOSE s \in Taken(o.got) : s.id[1] = i)
  <2>1. \A i \in ids : \E s \in Taken(o.got) : s.id[1] = i
    OBVIOUS
  <2>2. \A i \in ids : name(i) \in DOMAIN q.meta
    BY <1>5, <2>1
  <2> HIDE DEF name, ids
  <2>3. seen' = Over([i \in ids |-> name(i)], seen)
    BY <1>2, Zenon DEF name, ids
  <2> QED
    BY <1>3, <1>5, <2>2, <2>3 DEF Over
<1>7. res' = q
  BY <1>2 DEF q
<1> QED
  BY <1>3, <1>5, <1>6, <1>7

LEMMA PublishedTrue ==
  ASSUME ResultTrue(res), NEW q, Shape(q), Facts(q) = Facts(res)
  PROVE  /\ ResultTrue(q) /\ DOMAIN q.ok = DOMAIN res.ok
         /\ q.meta = res.meta /\ q.class = res.class
         /\ \A d : ReadWhole(res, d) => ReadWhole(q, d)
BY SameFacts

LEMMA AggregateTrue ==
  ASSUME Inv, WalkCancelled \/ Aggregate \/ LoadSaved
  PROVE  /\ ResultTrue(res') /\ DOMAIN res'.ok = DOMAIN res.ok
         /\ res'.meta = res.meta /\ res'.class = res.class
         /\ res'.partial = res.partial \/ res'.partial = TRUE
         /\ \A d : ReadWhole(res, d) => ReadWhole(res', d)
<1>1. Shape(res) /\ ResultTrue(res)
  BY DEF Inv, ResultTrue
<1>2. CASE WalkCancelled \/ (Aggregate /\ cancel)
  <2>1. res' = PartlyPublished(res)
    BY <1>2 DEF WalkCancelled, Aggregate
  <2>2. Shape(res') /\ Facts(res') = Facts(res) /\ res'.partial = TRUE
    BY <1>1, <2>1, PublishedKeeps
  <2> QED
    BY <1>1, <2>2, PublishedTrue
<1>3. CASE Aggregate /\ ~cancel
  <2>1. PICK man : res' = Aggregated(res, man)
    BY <1>3 DEF Aggregate
  <2>2. Shape(res') /\ Facts(res') = Facts(res) /\ res'.partial = res.partial
    BY <1>1, <2>1, PublishedKeeps
  <2> QED
    BY <1>1, <2>2, PublishedTrue
<1>4. CASE LoadSaved
  <2>1. PICK r : r = Reread
    OBVIOUS
  <2>2. PICK man : res' = Aggregated(r, man)
    BY <1>4, <2>1 DEF LoadSaved
  <2>3. Shape(r) /\ Facts(r) = Facts(res) /\ r.partial = res.partial
    BY <2>1, ReadBackKeeps DEF Reread
  <2>4. Shape(res') /\ Facts(res') = Facts(r) /\ res'.partial = r.partial
    BY <2>2, <2>3, PublishedKeeps
  <2> QED
    BY <1>1, <2>3, <2>4, PublishedTrue
<1> QED
  BY <1>2, <1>3, <1>4

LEMMA RecomputeTrue ==
  ASSUME Inv, Recompute, ~cancel
  PROVE  /\ ResultTrue(res') /\ DOMAIN res'.ok \subseteq DOMAIN res.ok
         /\ DOMAIN res'.meta \subseteq DOMAIN res.meta
         /\ DOMAIN res'.class = DOMAIN res'.meta \cap DOMAIN res.class
         /\ res'.partial = res.partial /\ phase' = "pruned"
<1>1. Shape(res) /\ ResultTrue(res)
  BY DEF Inv, ResultTrue
<1>2. PICK r : r = Pruned(res, removed)
  OBVIOUS
<1>3. phase' = "pruned" /\ \E man : res' = Aggregated(r, man)
  BY <1>2 DEF Recompute
<1>4. PICK man : res' = Aggregated(r, man)
  BY <1>3
<1>5. /\ Shape(r) /\ r.partial = res.partial /\ r.failed = {}
      /\ DOMAIN r.meta \subseteq DOMAIN res.meta
      /\ \A p \in DOMAIN r.meta :
           r.meta[p] = res.meta[p] /\ (p[1] \in DOMAIN res.ok => p[1] \in DOMAIN r.ok)
      /\ DOMAIN r.class = DOMAIN r.meta \cap DOMAIN res.class
      /\ \A p \in DOMAIN r.class : r.class[p] = res.class[p]
      /\ DOMAIN r.ok \subseteq DOMAIN res.ok /\ DOMAIN r.children = DOMAIN r.ok
      /\ DOMAIN r.links = DOMAIN r.ok /\ DOMAIN r.aliases = DOMAIN r.ok
      /\ \A d \in DOMAIN r.ok :
           /\ r.children[d] \subseteq res.children[d]
           /\ \A a \in r.aliases[d] : a \in res.aliases[d] /\ a[2] \in DOMAIN r.meta
  BY <1>1, <1>2, PrunedKeeps
<1>6. Maps(r)
  BY <1>1, <1>5 DEF Maps, ResultTrue
<1>7. \A p \in DOMAIN r.meta : File(r, p)
  BY <1>1, <1>5 DEF File, ResultTrue
<1>8. \A p \in DOMAIN r.class : p \in DOMAIN r.meta /\ ClassTrue(r, p)
  BY <1>1, <1>5 DEF ClassTrue, ResultTrue
<1>9. ResultTrue(r)
  BY <1>5, <1>6, <1>7, <1>8 DEF ResultTrue
<1>10. Shape(res') /\ Facts(res') = Facts(r) /\ res'.partial = r.partial
  BY <1>4, <1>5, PublishedKeeps
<1>11. ResultTrue(res') /\ res'.meta = r.meta /\ res'.class = r.class /\ res'.ok = r.ok
  BY <1>9, <1>10, SameFacts
<1> QED
  BY <1>3, <1>5, <1>10, <1>11
-----------------------------------------------------------------------------
(* Every step keeps the invariant *)

LEMMA PrunedStays ==
  ASSUME phase = "pruned", [Next]_vars
  PROVE  phase' = "pruned"
BY DEF Next, WorkerStep, BeginScan, BeginRefresh, SeedCache, RefreshStopped,
       ListDir, StatEntry, MergeDir, WalkCancelled, BySize, TakeFile, Acquire,
       ProveBefore, ReadFile, ProveAfter, ProbeDone, FullDone, Gated,
       Aggregate, SaveScan, ScanFailed, PairScanned, RefreshScanned, SaveRefreshed, AnswerRefresh,
       Recompute, LoadSaved, LoadRefused, Tick, RemovePaths, Cancel, Pause, Resume,
       EditFile, SaveOver, DeleteFile, SwapRoot, SwapBack, Outside, Stop, vars, disk, Final

\* What a result that is true of the disk as it is becomes after the step.
LEMMA KeptAfter ==
  ASSUME DiskStep, ResultTrue(res'), phase' # "pruned" => \A d \in DOMAIN res'.ok : ReadWhole(res', d)
  PROVE  ResultTrue(res)' /\ KnownWhole'
<1>1. PICK q : q = res'
  OBVIOUS
<1>2. ResultTrue(q)'
  BY <1>1, ResultKept
<1>3. phase' # "pruned" => \A d \in DOMAIN q.ok : ReadWhole(q, d)'
  BY <1>1, WholeKept
<1>4. ResultTrue(res)'
  BY <1>1, <1>2 DEF ResultTrue, Shape, Maps, File, ClassTrue, Fate, Shared
<1>5. KnownWhole'
  BY <1>1, <1>3 DEF KnownWhole, ReadWhole, KnownPath, Stayed
<1> QED
  BY <1>4, <1>5

LEMMA ResultNext ==
  ASSUME Inv, [Next]_vars
  PROVE  ResultTrue(res)' /\ KnownWhole'
<1>1. DiskStep /\ ResultTrue(res) /\ KnownWhole
  BY DiskNext DEF Inv
<1>2. ASSUME phase' # "pruned" => phase # "pruned",
             ResultTrue(res'), DOMAIN res'.ok = DOMAIN res.ok,
             \A d \in DOMAIN res.ok : ReadWhole(res, d) => ReadWhole(res', d)
      PROVE  ResultTrue(res)' /\ KnownWhole'
  BY <1>1, <1>2, KeptAfter DEF KnownWhole
<1>3. phase' # "pruned" => phase # "pruned"
  BY PrunedStays
<1>4. CASE res' = res
  BY <1>1, <1>2, <1>3, <1>4
<1>5. ASSUME NEW d \in Dirs, MergeDir(d)
      PROVE  ResultTrue(res)' /\ KnownWhole'
  BY <1>1, <1>5, MergeDirTrue, KeptAfter
<1>6. CASE BySize
  BY <1>2, <1>3, <1>6, BySizeTrue
<1>7. CASE ProbeDone
  BY <1>2, <1>3, <1>7, ProbeDoneTrue
<1>8. CASE FullDone
  BY <1>2, <1>3, <1>8, FullDoneTrue
<1>9. CASE WalkCancelled \/ Aggregate \/ LoadSaved
  BY <1>2, <1>3, <1>9, AggregateTrue
<1>10. CASE Recompute
  <2>1. cancel => res' = res
    BY <1>10 DEF Recompute
  <2>2. CASE ~cancel
    BY <1>1, <1>10, <2>2, RecomputeTrue, KeptAfter
  <2> QED
    BY <1>4, <2>1, <2>2
<1>11. \/ res' = res \/ \E d \in Dirs : MergeDir(d)
       \/ BySize \/ ProbeDone \/ FullDone \/ WalkCancelled \/ Aggregate \/ LoadSaved
       \/ Recompute
  BY Steps, AsideLeaves, WorkLeaves DEF Work
<1> QED
  BY <1>4, <1>5, <1>6, <1>7, <1>8, <1>9, <1>10, <1>11

\* A folder that is walked is in a root.
LEMMA ScannedNext ==
  ASSUME Inv, [Next]_vars
  PROVE  Scanned'
<1>1. layout' = layout /\ Scanned
  BY DiskNext DEF Inv, DiskStep
<1>2. ASSUME todo' \cup DOMAIN opened' \cup DOMAIN res'.ok
               \subseteq todo \cup DOMAIN opened \cup DOMAIN res.ok
      PROVE  Scanned'
  BY <1>1, <1>2 DEF Scanned, Within
<1>3. CASE UNCHANGED <<todo, opened>> /\ DOMAIN res'.ok \subseteq DOMAIN res.ok
  BY <1>2, <1>3
<1>4. CASE BeginScan \/ SeedCache
  <2>1. todo' = NormalRoots(layout.roots) /\ opened' = opened /\ res' = res
    BY <1>4, WorkLeaves DEF BeginScan, SeedCache
  <2>2. \A d \in todo' : Within(d)
    <3>1. layout.roots \subseteq Dirs
      BY LayoutAssumption DEF Inv, DiskKept, Volume
    <3> QED
      BY <2>1, <3>1, AncestorsIn DEF Within, Inside, NormalRoots
  <2> QED
    BY <1>1, <2>1, <2>2 DEF Scanned, Within
<1>5. ASSUME NEW d \in Dirs, ListDir(d) PROVE Scanned'
  <2>1. d \in todo /\ todo' \subseteq todo /\ DOMAIN opened' \subseteq DOMAIN opened \cup {d} /\ res' = res
    BY <1>5, WorkLeaves DEF ListDir, Put
  <2> QED
    BY <1>2, <2>1
<1>6. ASSUME NEW d \in Dirs, StatEntry(d) PROVE Scanned'
  <2>1. todo' = todo /\ DOMAIN opened' = DOMAIN opened /\ res' = res
    BY <1>6, WorkLeaves DEF StatEntry
  <2> QED
    BY <1>2, <2>1
<1>7. ASSUME NEW d \in Dirs, MergeDir(d) PROVE Scanned'
  <2>1. /\ d \in DOMAIN opened /\ todo' = todo \cup opened[d].subs
        /\ DOMAIN opened' \subseteq DOMAIN opened
    BY <1>7 DEF MergeDir, Restrict
  <2>2. DOMAIN res'.ok = DOMAIN res.ok \cup {d}
    BY <1>7, MergeDirTrue
  <2>3. \A k \in opened[d].subs : k \in Dirs /\ ParentOf[k] = d
    BY <2>1 DEF Inv, Listings, Listing
  <2>4. \A k \in opened[d].subs : Within(k)
    BY <1>1, <2>1, <2>3, InsideChild DEF Scanned, Within
  <2> QED
    BY <1>1, <2>1, <2>2, <2>4 DEF Scanned, Within
<1>8. CASE WalkCancelled
  BY <1>2, <1>8, AggregateTrue DEF WalkCancelled, Map0
<1>9. CASE BySize \/ ProbeDone \/ FullDone \/ Aggregate \/ LoadSaved
  <2>1. UNCHANGED <<todo, opened>>
    BY <1>9, WorkLeaves
  <2>2. DOMAIN res'.ok = DOMAIN res.ok
    BY <1>9, BySizeTrue, ProbeDoneTrue, FullDoneTrue, AggregateTrue
  <2> QED
    BY <1>3, <2>1, <2>2
<1>10. CASE Recompute
  <2>1. UNCHANGED <<todo, opened>> /\ (cancel => res' = res)
    BY <1>10, WorkLeaves DEF Recompute
  <2> QED
    BY <1>3, <1>10, <2>1, RecomputeTrue
<1>11. \/ UNCHANGED <<todo, opened, res>> \/ BeginScan \/ SeedCache
       \/ \E d \in Dirs : ListDir(d) \/ StatEntry(d) \/ MergeDir(d)
       \/ WalkCancelled \/ BySize \/ ProbeDone \/ FullDone \/ Aggregate \/ LoadSaved
       \/ Recompute
  BY Steps, AsideLeaves, WorkLeaves DEF Work
<1> QED
  BY <1>3, <1>4, <1>5, <1>6, <1>7, <1>8, <1>9, <1>10, <1>11

\* The first phases are left for good.
LEMMA BeginningLeft ==
  ASSUME [Next]_vars
  PROVE  /\ phase' \in {"start", "seed"} => phase \in {"start", "seed"}
         /\ phase' = "start" => phase = "start"
         /\ phase' = "walk" => phase \in {"start", "seed", "walk"}
         /\ phase' = "full" => phase \in {"probe", "full"}
         /\ phase' = "probe" => phase \in {"walk", "probe"}
         /\ phase' = "aggregate" => phase \in {"full", "aggregate"}
         /\ phase' = "seed" => phase = "seed" \/ BeginRefresh
         /\ phase' \in {"done", "loaded", "refused", "pruned"} /\ phase' # phase =>
              phase \in {"scanned", "save", "answer", "recompute", "done"}
BY DEF Next, WorkerStep, BeginScan, BeginRefresh, SeedCache, RefreshStopped,
       ListDir, StatEntry, MergeDir, WalkCancelled, BySize, TakeFile, Acquire,
       ProveBefore, ReadFile, ProveAfter, ProbeDone, FullDone,
       Aggregate, SaveScan, ScanFailed, PairScanned, RefreshScanned, SaveRefreshed, AnswerRefresh,
       Recompute, LoadSaved, LoadRefused, Tick, RemovePaths, Cancel, Pause, Resume,
       EditFile, SaveOver, DeleteFile, SwapRoot, SwapBack, Outside, Stop, vars

LEMMA SeenNext ==
  ASSUME Inv, [Next]_vars
  PROVE  SeenKnown'
<1>1. phase' \in {"start", "seed", "walk"} => phase \in {"start", "seed", "walk"}
  BY BeginningLeft
<1>2. CASE UNCHANGED <<seen, res>>
  BY <1>1, <1>2 DEF Inv, SeenKnown
<1>3. ASSUME NEW d \in Dirs, MergeDir(d) PROVE SeenKnown'
  BY <1>3, MergeDirTrue DEF SeenKnown
<1>4. \/ UNCHANGED <<seen, res>> \/ \E d \in Dirs : MergeDir(d)
      \/ phase' \in {"probe", "full", "aggregate", "scanned", "done", "pruned", "loaded"}
  BY Steps, AsideLeaves, WorkLeaves DEF Work, BySize, ProbeDone, FullDone, WalkCancelled,
     Aggregate, LoadSaved, Recompute
<1> QED
  BY <1>2, <1>3, <1>4 DEF SeenKnown

\* A listing that is true of the disk as it is stays so.
LEMMA ListingsAfter ==
  ASSUME DiskStep, \A d \in DOMAIN opened' : Listing(d, opened'[d])
  PROVE  Listings'
<1>1. PICK f : f = opened'
  OBVIOUS
<1>2. \A d \in DOMAIN f : Listing(d, f[d])'
  BY <1>1, ListingKept
<1> QED
  BY <1>1, <1>2 DEF Listings, Listing, Status, Fate, Stayed

LEMMA ListDirTrue ==
  ASSUME Inv, NEW d \in Dirs, ListDir(d)
  PROVE  \A e \in DOMAIN opened' : Listing(e, opened'[e])
<1> DEFINE o == Listed(d)
<1>1. Listings /\ DiskKept
  BY DEF Inv
<1>2. opened' = opened \/ opened' = Put(opened, d, o)
  BY DEF ListDir
<1>3. Listing(d, o)
  <2>1. folders \subseteq Dirs
    BY <1>1, LayoutAssumption DEF DiskKept, Volume
  <2> QED
    BY <1>1, <2>1 DEF Listing, Listed, Subfolders, DiskKept, Stayed, Here
<1> HIDE DEF o
<1> QED
  BY <1>1, <1>2, <1>3 DEF Listings, Put

LEMMA StatEntryTrue ==
  ASSUME Inv, NEW d \in Dirs, StatEntry(d)
  PROVE  \A e \in DOMAIN opened' : Listing(e, opened'[e])
<1> DEFINE o == opened[d]
           first(q) == \A s \in o.left : q[2] <= s[2]
           p == CHOOSE q \in o.left : first(q)
           i == entry[p]
           st == [path |-> p, kind |-> Kind[i], id |-> Id(i), nlink |-> Links(i),
                  data |-> content[i]]
           rest == [o EXCEPT !.left = o.left \ {p}]
           new == IF Here(p) THEN [rest EXCEPT !.got = rest.got \cup {st}]
                             ELSE [rest EXCEPT !.ok = FALSE, !.err = TRUE]
<1>1. Listings /\ DiskKept /\ History
  BY DEF Inv
<1>2. d \in DOMAIN opened /\ o.left # {} /\ opened' = [opened EXCEPT ![d] = new]
  BY DEF StatEntry
<1>3. Listing(d, o)
  BY <1>1, <1>2 DEF Listings
<1>4. p \in o.left
  <2>0. DOMAIN layout.entry \subseteq Dirs \X Nat
    BY <1>1, LayoutAssumption DEF DiskKept, Volume
  <2>1. \A q \in o.left : q[2] \in Nat
    BY <1>3, <2>0 DEF Listing
  <2> DEFINE names == {q[2] : q \in o.left}
  <2>2. names \in SUBSET Nat /\ names # {}
    BY <1>2, <2>1
  <2>3. PICK n \in names : \A m \in names : n <= m
    BY <2>2, HasLeast
  <2>4. PICK q \in o.left : q[2] = n
    BY <2>3
  <2>5. first(q)
    BY <2>3, <2>4
  <2> QED
    BY <2>5
<1> HIDE DEF p
<1>5. CASE Here(p)
  <2>1. new = [left |-> o.left \ {p}, got |-> o.got \cup {st}, subs |-> o.subs,
               ok |-> o.ok, err |-> o.err]
    BY <1>3, <1>5 DEF Listing
  <2>2. Status(st)
    <3>1. p \in DOMAIN layout.entry /\ i \in Inodes
      BY <1>1, <1>5 DEF DiskKept, Here
    <3>2. Id(i) \in DOMAIN was /\ was[Id(i)] = content[i]
      BY <1>1, <3>1 DEF History
    <3>3. Fate(p, i)
      BY DEF Fate
    <3>4. st.id[1] = i
      BY DEF Id
    <3>5. /\ st.path = p /\ st.kind = Kind[i] /\ st.id = Id(i) /\ st.data = content[i]
      OBVIOUS
    <3> HIDE DEF st
    <3> QED
      BY <3>1, <3>2, <3>3, <3>4, <3>5 DEF Status
  <2>3. p[1] = d
    BY <1>3, <1>4 DEF Listing
  <2>4. st.path = p
    OBVIOUS
  <2>5. \A s \in o.got : s.path # p
    BY <1>3, <1>4 DEF Listing
  <2> HIDE DEF st, new, rest, o
  <2>6. /\ new.left = o.left \ {p} /\ new.got = o.got \cup {st} /\ new.subs = o.subs
        /\ new.ok = o.ok /\ new.err = o.err
        /\ new = [left |-> new.left, got |-> new.got, subs |-> new.subs,
                  ok |-> new.ok, err |-> new.err]
    BY <2>1
  <2>7. Listing(d, new)
    BY <1>3, <2>2, <2>3, <2>4, <2>5, <2>6 DEF Listing
  <2> QED
    BY <1>1, <1>2, <2>7 DEF Listings
<1>6. CASE ~Here(p)
  <2>1. new = [left |-> o.left \ {p}, got |-> o.got, subs |-> o.subs,
               ok |-> FALSE, err |-> TRUE]
    BY <1>3, <1>6 DEF Listing
  <2> HIDE DEF new, rest, o
  <2>2. Listing(d, new)
    BY <1>3, <1>6, <2>1 DEF Listing, Here, Stayed
  <2> QED
    BY <1>1, <1>2, <2>2 DEF Listings
<1> QED
  BY <1>5, <1>6

LEMMA ListingsNext ==
  ASSUME Inv, [Next]_vars
  PROVE  Listings'
<1>1. DiskStep /\ Listings
  BY DiskNext DEF Inv
<1>2. CASE \A d \in DOMAIN opened' : d \in DOMAIN opened /\ opened'[d] = opened[d]
  BY <1>1, <1>2, ListingsAfter DEF Listings
<1>3. ASSUME NEW d \in Dirs, ListDir(d) \/ StatEntry(d) PROVE Listings'
  BY <1>1, <1>3, ListDirTrue, StatEntryTrue, ListingsAfter
<1>4. ASSUME NEW d \in Dirs, MergeDir(d)
      PROVE  \A e \in DOMAIN opened' : e \in DOMAIN opened /\ opened'[e] = opened[e]
  BY <1>4 DEF MergeDir, Restrict
<1>5. WalkCancelled => DOMAIN opened' = {}
  BY DEF WalkCancelled, Map0
<1>6. \/ opened' = opened
      \/ \E d \in Dirs : ListDir(d) \/ StatEntry(d) \/ MergeDir(d)
      \/ WalkCancelled
  BY Steps, AsideLeaves, WorkLeaves DEF Work
<1> QED
  BY <1>2, <1>3, <1>4, <1>5, <1>6

\* The rows of the cache: what a scan adds was read and proven.
LEMMA PutTrue ==
  ASSUME RowsTrue, NEW new, \A x \in DOMAIN new : RowTrue(new[x], x[2], was), CachePut(new)
  PROVE  \A x \in DOMAIN rows' : RowTrue(rows'[x], x[2], was)
BY DEF CachePut, RowsTrue, Over

LEMMA RowsNext ==
  ASSUME Inv, [Next]_vars
  PROVE  RowsTrue'
<1>1. DiskStep /\ RowsTrue
  BY DiskNext DEF Inv
<1>2. ASSUME \A x \in DOMAIN rows' : RowTrue(rows'[x], x[2], was)
      PROVE  RowsTrue'
  <2>1. PICK f : f = rows'
    OBVIOUS
  <2>2. \A x \in DOMAIN f : RowTrue(f[x], x[2], was')
    BY <1>1, <1>2, <2>1, RowKept
  <2> QED
    BY <2>1, <2>2 DEF RowsTrue, RowTrue
<1>3. CASE rows' = rows
  BY <1>1, <1>2, <1>3 DEF RowsTrue
<1>4. CASE SeedCache
  <2>1. \A x \in DOMAIN layout.previous : RowTrue(layout.previous[x], x[2], HeldBefore(layout))
    BY LayoutAssumption DEF Inv, DiskKept, Volume
  <2>2. \A id \in DOMAIN HeldBefore(layout) : id \in DOMAIN was /\ was[id] = HeldBefore(layout)[id]
    BY DEF Inv, History
  <2>3. \A x \in DOMAIN layout.previous : RowTrue(layout.previous[x], x[2], was)
    BY <2>1, <2>2 DEF RowTrue
  <2>4. rows' = rows \/ rows' = Over(layout.previous, rows)
    BY <1>4 DEF SeedCache
  <2> QED
    BY <1>1, <1>2, <2>3, <2>4 DEF Over, RowsTrue
<1>5. ASSUME StageDone, NEW kind \in {"p", "f"}, NEW ps \in SUBSET HashedFiles,
             \A p \in ps : found[p] = IF kind = "f" THEN was[res.meta[p].id]
                                      ELSE Probe[was[res.meta[p].id]]
      PROVE  \A x \in DOMAIN RowsOf(ps, kind) : x[2] = kind /\ RowTrue(RowsOf(ps, kind)[x], x[2], was)
  BY <1>5 DEF RowsOf, Row0, RowTrue, HashedFiles, Inv, Jobs, ResultTrue, File
<1>6. CASE ProbeDone
  <2>1. StageDone /\ phase = "probe" /\ CachePut(Over(RowsOf(HashedFiles, "p"), RowsOf(Settled, "f")))
    BY <1>6 DEF ProbeDone
  <2>2. \A p \in HashedFiles : found[p] = Probe[was[res.meta[p].id]]
    BY <2>1 DEF HashedFiles, Inv, Jobs, StageDone, Digested, Reads
  <2>3. Settled \subseteq HashedFiles /\ \A p \in Settled : found[p] = was[res.meta[p].id]
    BY <2>1, SettledTrue DEF Settled, Inv
  <2>4. /\ \A x \in DOMAIN RowsOf(HashedFiles, "p") : RowTrue(RowsOf(HashedFiles, "p")[x], x[2], was)
        /\ \A x \in DOMAIN RowsOf(Settled, "f") : RowTrue(RowsOf(Settled, "f")[x], x[2], was)
    BY <1>5, <2>1, <2>2, <2>3
  <2> DEFINE new == Over(RowsOf(HashedFiles, "p"), RowsOf(Settled, "f"))
  <2>5. \A x \in DOMAIN new : RowTrue(new[x], x[2], was)
    BY <2>4 DEF Over
  <2> HIDE DEF new
  <2>6. CachePut(new)
    BY <2>1 DEF new
  <2> QED
    BY <1>1, <1>2, <2>5, <2>6, PutTrue
<1>7. CASE FullDone
  <2>1. StageDone /\ phase = "full" /\ CachePut(RowsOf(HashedFiles, "f"))
    BY <1>7 DEF FullDone
  <2>2. \A p \in HashedFiles : found[p] = was[res.meta[p].id]
    BY <2>1, FullTrue DEF Inv
  <2>3. \A x \in DOMAIN RowsOf(HashedFiles, "f") : RowTrue(RowsOf(HashedFiles, "f")[x], x[2], was)
    BY <1>5, <2>1, <2>2
  <2> QED
    BY <1>1, <1>2, <2>1, <2>3, PutTrue
<1>8. rows' = rows \/ SeedCache \/ ProbeDone \/ FullDone
  BY Steps, AsideLeaves, WorkLeaves DEF Work, BeginScan
<1> QED
  BY <1>3, <1>4, <1>6, <1>7, <1>8
-----------------------------------------------------------------------------
(* The readers *)

\* A step of one reader, about its file p.
LEMMA OneJob ==
  ASSUME Jobs, UNCHANGED <<layout, OnDisk, res, phase>>, NEW p \in DOMAIN job,
         DOMAIN job' = DOMAIN job, \A q \in DOMAIN job \ {p} : job'[q] = job[q],
         DOMAIN found \subseteq DOMAIN found', DOMAIN found' \subseteq DOMAIN found \cup {p},
         \A q \in DOMAIN found \ {p} : found'[q] = found[q],
         job'[p] \in States,
         p \in DOMAIN found' /\ job'[p] = "done" => Digested(p)',
         job'[p] = "again" => p \in DOMAIN found' /\ (Digested(p)' \/ Outdated(p)')
  PROVE  Jobs'
<1>1. \A q \in DOMAIN found \ {p} : Digested(q) => Digested(q)'
  BY DEF Digested, Reads, OnDisk
<1>2. \A q : Outdated(q) => Outdated(q)'
  BY DEF Outdated, Here, OnDisk
<1>3. DOMAIN found' \subseteq DOMAIN job' /\ DOMAIN job' \subseteq DOMAIN res'.meta
  BY DEF Jobs
<1>4. phase' \notin Stages => DOMAIN job' = {}
  BY DEF Jobs
<1>5. \A q \in DOMAIN job' : job'[q] \in States
  BY DEF Jobs
<1>6. \A q \in DOMAIN found' : job'[q] = "done" => Digested(q)'
  BY <1>1 DEF Jobs
<1>7. \A q \in DOMAIN job' : job'[q] = "again" =>
        q \in DOMAIN found' /\ (Digested(q)' \/ Outdated(q)')
  <2> SUFFICES ASSUME NEW q \in DOMAIN job', job'[q] = "again"
               PROVE  q \in DOMAIN found' /\ (Digested(q)' \/ Outdated(q)')
    OBVIOUS
  <2>1. CASE q = p
    BY <2>1
  <2>2. CASE q # p
    BY <1>1, <1>2, <2>2 DEF Jobs
  <2> QED
    BY <2>1, <2>2
<1> QED
  BY <1>3, <1>4, <1>5, <1>6, <1>7 DEF Jobs

\* What is read at a moment is what the identity of that moment tells.
LEMMA ReadTrue ==
  ASSUME DiskKept, History, ResultTrue(res), NEW p \in DOMAIN res.meta, Here(p)
  PROVE  /\ Current(p) => ~Outdated(p) /\ content[entry[p]] = was[res.meta[p].id]
         /\ content[entry[p]] = was[res.meta[p].id] \/ Outdated(p)
<1> DEFINE id == res.meta[p].id
<1>1. id \in DOMAIN was /\ entry[p] \in {id[1], Spare} /\ p \in DOMAIN entry
  BY DEF ResultTrue, File, Fate, Here
<1>2. id \in Inodes \X Nat /\ id[2] <= stamp[id[1]]
  BY <1>1 DEF History, Ids
<1>3. stamp[id[1]] \in Nat /\ id[2] \in Nat /\ id = <<id[1], id[2]>>
  BY <1>2 DEF DiskKept
<1>4. CASE entry[p] = id[1] /\ id[2] = stamp[id[1]]
  <2>1. id = Id(entry[p]) /\ entry[p] \in Inodes
    BY <1>2, <1>3, <1>4 DEF Id
  <2>2. content[entry[p]] = was[id]
    BY <2>1 DEF History
  <2>3. ~Outdated(p)
    BY <1>1, <1>3, <1>4 DEF Outdated
  <2> QED
    BY <2>2, <2>3
<1>5. CASE entry[p] # id[1]
  BY <1>1, <1>5 DEF Outdated, Current, Id
<1>6. CASE id[2] # stamp[id[1]]
  <2>1. Outdated(p)
    BY <1>2, <1>3, <1>6 DEF Outdated
  <2>2. ~Current(p)
    <3>1. CASE Current(p)
      <4>1. <<entry[p], stamp[entry[p]]>> = id
        BY <3>1 DEF Current, Id
      <4> QED
        BY <1>6, <4>1
    <3> QED
      BY <3>1
  <2> QED
    BY <2>1, <2>2
<1> QED
  BY <1>4, <1>5, <1>6

LEMMA ReaderKeepsJobs ==
  ASSUME Inv, NEW p \in DOMAIN job, Reader(p)
  PROVE  Jobs'
<1>1. Jobs /\ DiskKept /\ History /\ ResultTrue(res) /\ p \in DOMAIN res.meta
  BY DEF Inv, Jobs
<1>2. UNCHANGED <<layout, OnDisk, res, phase>>
  BY WorkLeaves
<1>3. CASE Acquire(p)
  <2>1. job' = [job EXCEPT ![p] = "proof"] /\ found' = found
    BY <1>3 DEF Acquire
  <2> QED
    BY <1>1, <1>2, <2>1, OneJob DEF States
<1>4. ASSUME NEW digest, Finish(p, digest),
             digest = Error \/ (Digested(p) /\ digest = found[p])
      PROVE  Jobs'
  <2>1. job' = [job EXCEPT ![p] = "done"] /\ found' = Put(found, p, digest)
    BY <1>4 DEF Finish
  <2>2. /\ DOMAIN found' = DOMAIN found \cup {p} /\ found'[p] = digest
        /\ \A q \in DOMAIN found \ {p} : found'[q] = found[q]
    BY <2>1 DEF Put
  <2>3. Digested(p)'
    BY <1>2, <1>4, <2>2 DEF Digested, Reads, OnDisk
  <2> QED
    BY <1>1, <1>2, <2>1, <2>2, <2>3, OneJob DEF States
<1>5. CASE ProveBefore(p)
  <2>1. CASE Current(p)
    <3>1. job' = [job EXCEPT ![p] = "read"] /\ found' = found
      BY <1>5, <2>1 DEF ProveBefore
    <3> QED
      BY <1>1, <1>2, <3>1, OneJob DEF States
  <2>2. CASE ~Current(p)
    BY <1>4, <1>5, <2>2 DEF ProveBefore
  <2> QED
    BY <2>1, <2>2
<1>6. ASSUME Readable(p), NEW digest, digest = None \/ digest = Digest(p),
             found' = Put(found, p, digest), job' = [job EXCEPT ![p] = "again"]
      PROVE  Jobs'
  <2>1. /\ DOMAIN found' = DOMAIN found \cup {p} /\ found'[p] = digest
        /\ \A q \in DOMAIN found \ {p} : found'[q] = found[q]
    BY <1>6 DEF Put
  <2>2. content[entry[p]] = was[res.meta[p].id] \/ Outdated(p)
    BY <1>1, <1>6, ReadTrue DEF Readable
  <2>3. Digested(p)' \/ Outdated(p)'
    BY <1>2, <1>6, <2>1, <2>2 DEF Digested, Digest, Reads, OnDisk, Outdated, Here
  <2> QED
    BY <1>1, <1>2, <1>6, <2>1, <2>3, OneJob DEF States
<1>7. CASE ReadFile(p)
  <2>1. \/ \E digest \in {None, Digest(p)} : /\ Readable(p) /\ found' = Put(found, p, digest)
                                              /\ job' = [job EXCEPT ![p] = "again"]
        \/ Finish(p, Error)
    BY <1>7 DEF ReadFile
  <2> QED
    BY <1>4, <1>6, <2>1
<1>8. CASE ProveAfter(p)
  <2>1. CASE Current(p)
    <3>1. Finish(p, found[p])
      BY <1>8, <2>1 DEF ProveAfter
    <3>2. Digested(p)
      <4>1. ~Outdated(p)
        BY <1>1, <2>1, ReadTrue DEF Current
      <4> QED
        BY <1>1, <1>8, <4>1 DEF ProveAfter, Jobs
    <3> QED
      BY <1>4, <3>1, <3>2
  <2>2. CASE ~Current(p)
    BY <1>4, <1>8, <2>2 DEF ProveAfter
  <2> QED
    BY <2>1, <2>2
<1> QED
  BY <1>3, <1>5, <1>7, <1>8 DEF Reader

LEMMA TakeFileKeepsJobs ==
  ASSUME Inv, TakeFile
  PROVE  Jobs'
<1>1. Jobs
  BY DEF Inv
<1>2. UNCHANGED <<layout, OnDisk, res, phase>>
  BY WorkLeaves
<1>3. PICK p \in DOMAIN job :
        /\ job' = [job EXCEPT ![p] = IF cancel THEN "done" ELSE IF Gated THEN "gate" ELSE "proof"]
        /\ found' = IF cancel THEN Put(found, p, None) ELSE found
  <2> DEFINE waits == {q \in DOMAIN job : job[q] = "wait"}
             p == CHOOSE q \in waits : TRUE
  <2>1. waits # {} /\ p \in waits
    BY DEF TakeFile
  <2> QED
    BY <2>1 DEF TakeFile
<1>4. /\ job' = [job EXCEPT ![p] = IF cancel THEN "done" ELSE IF Gated THEN "gate" ELSE "proof"]
      /\ found' = IF cancel THEN Put(found, p, None) ELSE found
  BY <1>3
<1>6. CASE cancel
  <2>1. /\ DOMAIN found' = DOMAIN found \cup {p} /\ found'[p] = None
        /\ \A q \in DOMAIN found \ {p} : found'[q] = found[q]
    BY <1>4, <1>6 DEF Put
  <2>2. Digested(p)'
    BY <2>1 DEF Digested
  <2> QED
    BY <1>1, <1>2, <1>4, <1>6, <2>1, <2>2, OneJob DEF States
<1>7. CASE ~cancel
  BY <1>1, <1>2, <1>4, <1>7, OneJob DEF States
<1> QED
  BY <1>6, <1>7

\* What the cache offers was read under the identity that the file has.
LEMMA OfferedTrue ==
  ASSUME Inv, NEW ps \in SUBSET DOMAIN res.meta, NEW kind \in {"p", "f"}, Offered(ps, kind),
         DiskStep, UNCHANGED was, res'.meta = res.meta,
         phase' = IF kind = "f" THEN "full" ELSE "probe"
  PROVE  Jobs'
<1>1. /\ DOMAIN job' = ps /\ \A p \in ps : job'[p] \in {"wait", "done"}
      /\ DOMAIN found' \subseteq ps
      /\ \A p \in DOMAIN found' : CacheHit(p, kind) /\ found'[p] = rows[<<p, kind>>].digest
  BY DEF Offered
<1>2. \A p \in DOMAIN found' : Digested(p)'
  <2> SUFFICES ASSUME NEW p \in DOMAIN found' PROVE Digested(p)'
    OBVIOUS
  <2>1. /\ <<p, kind>> \in DOMAIN rows /\ rows[<<p, kind>>].id = res.meta[p].id
        /\ found'[p] = rows[<<p, kind>>].digest
    BY <1>1 DEF CacheHit
  <2>2. RowTrue(rows[<<p, kind>>], kind, was)
    BY <2>1 DEF Inv, RowsTrue
  <2>3. found'[p] = IF kind = "f" THEN was[res.meta[p].id] ELSE Probe[was[res.meta[p].id]]
    BY <2>1, <2>2 DEF RowTrue
  <2> QED
    BY <2>3 DEF Digested, Reads
<1> QED
  BY <1>1, <1>2 DEF Jobs, Stages, States

LEMMA JobsNext ==
  ASSUME Inv, [Next]_vars
  PROVE  Jobs'
<1>1. DiskStep /\ DiskKept /\ DiskKept' /\ History /\ Jobs /\ ResultTrue(res)
  BY DiskNext DEF Inv
<1>2. ASSUME DOMAIN job' = {}, DOMAIN found' = {} PROVE Jobs'
  BY <1>2 DEF Jobs
<1>3. ASSUME phase \notin Stages, job' = job, found' = found PROVE Jobs'
  BY <1>1, <1>2, <1>3 DEF Jobs
<1>4. CASE UNCHANGED <<res, job, found>> /\ (phase' = phase \/ {phase, phase'} \cap Stages = {})
  BY <1>1, <1>4, JobsKept
<1>5. CASE BySize
  <2> DEFINE files == DOMAIN res.meta
             zero  == {p \in files : res.meta[p].size = 0}
             lone  == {p \in files \ zero : \A q \in files \ {p} : res.meta[q].size # res.meta[p].size}
  <2>1. Offered(files \ (zero \cup lone), "p") /\ phase' = "probe"
    BY <1>5 DEF BySize
  <2>2. UNCHANGED was /\ res'.meta = res.meta
    BY <1>5, WorkLeaves, BySizeTrue DEF OnDisk
  <2> QED
    BY <1>1, <2>1, <2>2, OfferedTrue
<1>6. CASE ProbeDone
  <2>1. Offered(HashedFiles \ (Lone \cup Settled), "f") /\ phase' = "full"
    BY <1>6 DEF ProbeDone
  <2>2. UNCHANGED was /\ res'.meta = res.meta
    BY <1>6, WorkLeaves, ProbeDoneTrue DEF OnDisk
  <2>3. HashedFiles \subseteq DOMAIN res.meta
    BY <1>1 DEF HashedFiles, Jobs
  <2> QED
    BY <1>1, <2>1, <2>2, <2>3, OfferedTrue
<1>7. CASE FullDone
  BY <1>2, <1>7 DEF FullDone, Map0
<1>8. ASSUME NEW d \in Dirs, MergeDir(d) PROVE Jobs'
  BY <1>3, <1>8 DEF MergeDir, Stages, hash
<1>9. CASE WalkCancelled \/ Aggregate \/ Recompute \/ LoadSaved
  BY <1>3, <1>9 DEF WalkCancelled, Aggregate, Recompute, LoadSaved, Stages, hash
<1>10. CASE Aside
  BY <1>4, <1>10, AsideLeaves DEF Stages, Work
<1>11. CASE BeginScan \/ SeedCache
  BY <1>4, <1>11, WorkLeaves DEF BeginScan, SeedCache, Stages
<1>12. ASSUME NEW d \in Dirs, ListDir(d) \/ StatEntry(d) PROVE Jobs'
  BY <1>4, <1>12, WorkLeaves
<1>13. ASSUME NEW better, Tick(better) PROVE Jobs'
  BY <1>4, <1>13, WorkLeaves
<1> QED
  BY Steps, TakeFileKeepsJobs, ReaderKeepsJobs, <1>5, <1>6, <1>7, <1>8, <1>9, <1>10, <1>11,
     <1>12, <1>13
-----------------------------------------------------------------------------
(* Every file gets a class *)

LEMMA PhasesNext ==
  ASSUME [Next]_vars
  PROVE  /\ phase' \in Early => phase \in Early
         /\ phase' \in Late => phase \in Late \/ FullDone \/ WalkCancelled
<1>1. CASE Aside
  BY <1>1 DEF Aside, BeginRefresh, RefreshStopped, SaveScan, ScanFailed, PairScanned,
         RefreshScanned, SaveRefreshed, AnswerRefresh, LoadRefused, RemovePaths, Cancel, Pause, Resume,
         EditFile, SaveOver, DeleteFile, SwapRoot, SwapBack, Outside, Stop, vars, Early, Late
<1>2. CASE phase' = phase
  BY <1>2
<1>3. CASE BeginScan \/ SeedCache \/ BySize \/ ProbeDone \/ FullDone \/ WalkCancelled
           \/ Aggregate \/ LoadSaved \/ Recompute
  BY <1>3 DEF BeginScan, SeedCache, BySize, ProbeDone, FullDone, WalkCancelled, Aggregate,
         LoadSaved, Recompute, Early, Late
<1>4. \/ Aside \/ phase' = phase
      \/ BeginScan \/ SeedCache \/ BySize \/ ProbeDone \/ FullDone \/ WalkCancelled
      \/ Aggregate \/ LoadSaved \/ Recompute
  BY Steps, WorkLeaves
<1> QED
  BY <1>1, <1>2, <1>3, <1>4

\* A file that was offered to a stage that is done has a digest, or none.
LEMMA StageClasses ==
  ASSUME Jobs, StageDone
  PROVE  DOMAIN job = {p \in DOMAIN found : found[p] \in {Error, None}} \cup HashedFiles
BY DEF Jobs, StageDone, HashedFiles

LEMMA ClassedNext ==
  ASSUME Inv, [Next]_vars
  PROVE  Classed'
<1>1. Classed /\ Jobs /\ ResultTrue(res)
  BY DEF Inv
<1>2. CASE res' = res /\ DOMAIN job' = DOMAIN job /\ ~FullDone /\ ~WalkCancelled
           /\ (phase' \in Stages => phase' = phase)
  BY <1>1, <1>2, PhasesNext, BeginningLeft DEF Classed
<1>3. ASSUME NEW d \in Dirs, MergeDir(d) PROVE Classed'
  <2>1. phase = "walk" /\ phase' = "walk"
    BY <1>3 DEF MergeDir
  <2>2. res'.partial = res.partial /\ DOMAIN res'.class = {}
    BY <1>3, MergeDirTrue
  <2> QED
    BY <1>1, <2>1, <2>2 DEF Classed, Early, Stages, Late
<1>4. CASE BySize
  <2>1. phase = "walk" /\ phase' = "probe"
    BY <1>4 DEF BySize
  <2> QED
    BY <1>1, <1>4, <2>1, BySizeTrue DEF Classed, Early, Stages, Late
<1>5. CASE ProbeDone
  <2>1. phase = "probe" /\ phase' = "full" /\ StageDone
        /\ DOMAIN job' = HashedFiles \ (Lone \cup Settled)
    BY <1>5 DEF ProbeDone, Offered
  <2>2. DOMAIN res.meta \subseteq DOMAIN res.class \cup DOMAIN job /\ ~res.partial
    BY <1>1, <2>1 DEF Classed, Early, Stages
  <2> QED
    BY <1>1, <1>5, <2>1, <2>2, ProbeDoneTrue, StageClasses DEF Classed, Early, Stages, Late
<1>6. CASE FullDone
  <2>1. phase = "full" /\ phase' = "aggregate" /\ StageDone
    BY <1>6 DEF FullDone
  <2>2. DOMAIN res.meta \subseteq DOMAIN res.class \cup DOMAIN job /\ ~res.partial
    BY <1>1, <2>1 DEF Classed, Early, Stages
  <2> QED
    BY <1>1, <1>6, <2>1, <2>2, FullDoneTrue, StageClasses DEF Classed, Early, Stages, Late
<1>7. CASE WalkCancelled
  <2>1. phase' = "scanned" /\ res' = PartlyPublished(res)
    BY <1>7 DEF WalkCancelled
  <2>2. res'.partial = TRUE
    BY <1>1, <2>1, PublishedKeeps DEF ResultTrue
  <2> QED
    BY <2>1, <2>2 DEF Classed, Early, Stages, Late
<1>8. CASE Aggregate \/ LoadSaved
  <2>1. phase \in Late /\ phase' \in {"scanned", "loaded"}
    BY <1>8 DEF Aggregate, LoadSaved, Late
  <2>2. /\ res'.meta = res.meta /\ res'.class = res.class
        /\ res'.partial = res.partial \/ res'.partial = TRUE
    BY <1>8, AggregateTrue
  <2> QED
    BY <1>1, <2>1, <2>2 DEF Classed, Early, Stages, Late
<1>9. CASE Recompute
  <2>1. phase = "recompute" /\ phase' \in {"done", "pruned"}
    BY <1>9 DEF Recompute
  <2>2. CASE cancel
    <3>1. res' = res
      BY <1>9, <2>2 DEF Recompute
    <3> QED
      BY <1>1, <2>1, <3>1 DEF Classed, Early, Stages, Late
  <2>3. CASE ~cancel
    BY <1>1, <1>9, <2>1, <2>3, RecomputeTrue DEF Classed, Early, Stages, Late
  <2> QED
    BY <2>2, <2>3
<1>10. CASE Aside
  <2>1. ~FullDone /\ ~WalkCancelled
    <3>1. FullDone => phase = "full" /\ phase' = "aggregate"
      BY DEF FullDone
    <3>2. WalkCancelled => phase = "walk" /\ phase' = "scanned"
      BY DEF WalkCancelled
    <3> QED
      BY <1>10, <3>1, <3>2, AsideLeaves
  <2> QED
    BY <1>2, <1>10, <2>1, AsideLeaves DEF Stages, Work
<1>11. CASE BeginScan \/ SeedCache
  <2>1. phase' = "walk" /\ phase \in {"start", "seed"}
    BY <1>11 DEF BeginScan, SeedCache
  <2>2. res' = res
    BY <1>11, WorkLeaves
  <2> QED
    BY <1>1, <2>1, <2>2 DEF Classed, Early, Stages, Late
<1>12. ASSUME res' = res, DOMAIN job' = DOMAIN job, phase' = phase PROVE Classed'
  BY <1>1, <1>12 DEF Classed
<1>13. ASSUME NEW d \in Dirs, ListDir(d) \/ StatEntry(d) PROVE Classed'
  BY <1>12, <1>13, WorkLeaves
<1>14. ASSUME NEW better, Tick(better) PROVE Classed'
  BY <1>12, <1>14, WorkLeaves
<1>15. CASE TakeFile
  <2>1. DOMAIN job' = DOMAIN job
    BY <1>15 DEF TakeFile
  <2> QED
    BY <1>12, <1>15, <2>1, WorkLeaves
<1>16. ASSUME NEW p \in DOMAIN job, Reader(p) PROVE Classed'
  <2>1. DOMAIN job' = DOMAIN job
    BY <1>16 DEF Reader, Acquire, ProveBefore, ReadFile, ProveAfter, Finish
  <2> QED
    BY <1>12, <1>16, <2>1, WorkLeaves
<1> QED
  BY Steps, <1>3, <1>4, <1>5, <1>6, <1>7, <1>8, <1>9, <1>10, <1>11, <1>13, <1>14, <1>15,
     <1>16
-----------------------------------------------------------------------------
(* The gate *)

Reading == {p \in DOMAIN job : job[p] \in {"proof", "read", "again"}}

LEMMA FilesFinite ==
  ASSUME DiskKept, ResultTrue(res), Jobs
  PROVE  /\ IsFiniteSet(DOMAIN res.meta) /\ IsFiniteSet(DOMAIN job) /\ IsFiniteSet(Reading)
         /\ Cardinality(Reading) \in Nat
<1>1. IsFiniteSet(DOMAIN layout.entry)
  BY LayoutAssumption DEF DiskKept, Volume
<1>2. /\ DOMAIN res.meta \subseteq DOMAIN layout.entry
      /\ DOMAIN job \subseteq DOMAIN layout.entry /\ Reading \subseteq DOMAIN layout.entry
  BY DEF ResultTrue, File, Jobs, Reading
<1> QED
  BY <1>1, <1>2, FS_Subset, FS_CardinalityType

LEMMA GateFacts ==
  ASSUME Gate
  PROVE  /\ {gate.limit, gate.cap, gate.active} \subseteq Nat
         /\ Low \in Nat /\ Low <= gate.limit /\ gate.limit <= gate.cap
         /\ ~cancel => gate.active <= gate.limit + 1
BY DEF Gate, GateHolds, Low

LEMMA CancelStays ==
  ASSUME [Next]_vars
  PROVE  cancel => cancel'
<1>1. Aside => cancel' = cancel \/ cancel'
  BY DEF Aside, BeginRefresh, OpenCache, RefreshStopped, SaveScan, ScanFailed, PairScanned,
         RefreshScanned, SaveRefreshed, AnswerRefresh, LoadRefused, RemovePaths, Cancel, Pause, Resume,
         EditFile, SaveOver, DeleteFile, SwapRoot, SwapBack, Outside, Stop, vars
<1> QED
  BY <1>1, Steps, WorkLeaves DEF Switches

LEMMA SameGate ==
  ASSUME Gate, gate' = gate, cancel => cancel', Reading' = Reading, Gated' = Gated,
         ~Gated => \A p \in DOMAIN job' : job'[p] # "gate"
  PROVE  Gate'
BY DEF Gate, GateHolds, Low, Reading

LEMMA TickKeepsGate ==
  ASSUME Gate, NEW better \in BOOLEAN, Tick(better)
  PROVE  Gate'
<1>1. /\ Gated /\ UNCHANGED <<layout, phase, cancel, job>>
      /\ gate'.active = gate.active /\ gate'.cap = gate.cap
      /\ gate'.pending = IF gate.pending = 0 /\ gate.cooldown = 0
                            /\ gate.limit < gate.cap THEN 1 ELSE 0
      /\ gate'.limit = IF gate.pending = 1 /\ ~better THEN gate.limit - gate.pending
                       ELSE IF gate.pending = 0 /\ gate.cooldown = 0
                               /\ gate.limit < gate.cap THEN gate.limit + 1 ELSE gate.limit
      /\ gate' = [limit |-> gate'.limit, cap |-> gate'.cap, active |-> gate'.active,
                  pending |-> gate'.pending, cooldown |-> gate'.cooldown,
                  streak |-> gate'.streak, ticks |-> gate'.ticks]
  BY DEF Tick, Gate
<1>2. /\ {gate.limit, gate.cap, gate.active} \subseteq Nat
      /\ Low \in Nat /\ Low <= gate.limit /\ gate.limit <= gate.cap
      /\ ~cancel => gate.active <= gate.limit + 1
      /\ gate.pending \in {0, 1}
      /\ gate.pending = 1 => gate.limit > Low /\ (~cancel => gate.active <= gate.limit)
  BY GateFacts DEF Gate
<1>3. Low' = Low /\ Gated' = Gated /\ Reading' = Reading
  BY <1>1 DEF Low, Gated, Reading
<1>4. /\ {gate'.limit, gate'.cap, gate'.active} \subseteq Nat
      /\ Low <= gate'.limit /\ gate'.limit <= gate'.cap
      /\ ~cancel => gate'.active <= gate'.limit + 1
      /\ gate'.pending \in {0, 1}
      /\ gate'.pending = 1 => gate'.limit > Low /\ (~cancel => gate'.active <= gate'.limit)
  <2>1. CASE gate.pending = 1 /\ ~better
    BY <1>1, <1>2, <2>1
  <2>2. CASE gate.pending = 1 /\ better
    BY <1>1, <1>2, <2>2
  <2>3. CASE gate.pending = 0
    BY <1>1, <1>2, <2>3
  <2> QED
    BY <1>2, <2>1, <2>2, <2>3
<1>5. gate'.active = Cardinality(Reading)
  BY <1>1 DEF Gate, GateHolds, Reading
<1>6. GateHolds'
  BY <1>1, <1>3, <1>4, <1>5 DEF GateHolds, Reading, Low
<1> QED
  BY <1>1, <1>3, <1>4, <1>6 DEF Gate

\* A reader that starts, or stops, to count.
LEMMA CountedGate ==
  ASSUME Gate, Gated, UNCHANGED <<layout, phase, cancel>>,
         gate' = [gate EXCEPT !.active = Cardinality(Reading')],
         Cardinality(Reading') \in Nat,
         cancel \/ Cardinality(Reading') <= gate.active \/ Cardinality(Reading') <= gate.limit
  PROVE  Gate'
<1>1. /\ gate'.limit = gate.limit /\ gate'.cap = gate.cap /\ gate'.pending = gate.pending
      /\ gate'.active = Cardinality(Reading')
      /\ gate' = [limit |-> gate'.limit, cap |-> gate'.cap, active |-> gate'.active,
                  pending |-> gate'.pending, cooldown |-> gate'.cooldown,
                  streak |-> gate'.streak, ticks |-> gate'.ticks]
  BY DEF Gate
<1>2. Low' = Low /\ Gated' = Gated
  BY <1>1 DEF Low, Gated
<1>3. gate.active \in Nat /\ gate.limit \in Nat /\ Gated
  BY GateFacts
<1>4. GateHolds'
  BY <1>1, <1>2, <1>3, GateFacts DEF GateHolds, Reading, Low, Gate
<1> QED
  BY <1>1, <1>2, <1>3, <1>4, GateFacts DEF Gate

LEMMA StageIdle ==
  ASSUME Jobs, StageDone
  PROVE  Reading = {}
BY DEF StageDone, Reading

LEMMA FinishKeepsGate ==
  ASSUME Inv, NEW p \in Reading, NEW digest, Finish(p, digest),
         UNCHANGED <<layout, phase, cancel>>
  PROVE  Gate'
<1>1. Gate /\ DiskKept /\ Jobs /\ ResultTrue(res)
  BY DEF Inv
<1>2. job' = [job EXCEPT ![p] = "done"] /\ gate' = Released /\ p \in DOMAIN job
  BY DEF Finish, Reading
<1>3. Reading' = Reading \ {p}
  BY <1>2 DEF Reading
<1>4. IsFiniteSet(Reading) /\ Cardinality(Reading) \in Nat
  BY <1>1, FilesFinite
<1>5. Cardinality(Reading') = Cardinality(Reading) - 1
  BY <1>3, <1>4, FS_RemoveElement
<1>6. Cardinality(Reading') \in Nat
  BY <1>3, <1>4, FS_RemoveElement, FS_CardinalityType
<1>7. CASE Gated
  <2>1. gate.active = Cardinality(Reading)
    BY <1>1, <1>7 DEF Gate, GateHolds, Reading
  <2>2. gate.active > 0 /\ gate.active - 1 = Cardinality(Reading')
    BY <1>4, <1>5, <1>6, <2>1
  <2>3. gate' = [gate EXCEPT !.active = Cardinality(Reading')]
    BY <1>2, <1>7, <2>2 DEF Released
  <2>4. Cardinality(Reading') <= gate.active
    BY <1>1, <1>6, <2>2, GateFacts
  <2> QED
    BY <1>1, <1>6, <1>7, <2>3, <2>4, CountedGate
<1>8. CASE ~Gated
  <2>1. gate' = gate /\ Gated' = Gated /\ Low' = Low
    BY <1>2, <1>8 DEF Released, Gated, Low
  <2>2. \A q \in DOMAIN job' : job'[q] # "gate"
    BY <1>1, <1>2, <1>8 DEF Gate
  <2> QED
    BY <1>1, <1>8, <2>1, <2>2 DEF Gate, GateHolds, Low
<1> QED
  BY <1>7, <1>8

LEMMA ReaderKeepsGate ==
  ASSUME Inv, NEW p \in DOMAIN job, Reader(p)
  PROVE  Gate'
<1>1. Gate /\ DiskKept /\ Jobs /\ ResultTrue(res)
  BY DEF Inv
<1>2. UNCHANGED <<layout, phase, cancel>>
  BY WorkLeaves DEF Switches
<1>3. CASE Acquire(p)
  <2>1. /\ job[p] = "gate" /\ (gate.active < gate.limit \/ cancel)
        /\ gate' = [gate EXCEPT !.active = gate.active + 1]
        /\ job' = [job EXCEPT ![p] = "proof"]
    BY <1>3 DEF Acquire
  <2>2. Gated
    BY <1>1, <2>1 DEF Gate
  <2>3. p \notin Reading /\ Reading' = Reading \cup {p}
    BY <2>1 DEF Reading
  <2>4. IsFiniteSet(Reading) /\ Cardinality(Reading) \in Nat
    BY <1>1, FilesFinite
  <2>5. Cardinality(Reading') = Cardinality(Reading) + 1
    BY <2>3, <2>4, FS_AddElement
  <2>6. gate.active = Cardinality(Reading)
    BY <1>1, <2>2 DEF Gate, GateHolds, Reading
  <2>7. gate' = [gate EXCEPT !.active = Cardinality(Reading')]
    BY <2>1, <2>5, <2>6
  <2>8. Cardinality(Reading') \in Nat /\ (cancel \/ Cardinality(Reading') <= gate.limit)
    BY <1>1, <2>1, <2>4, <2>5, <2>6, GateFacts
  <2> QED
    BY <1>1, <1>2, <2>2, <2>7, <2>8, CountedGate
<1>4. ASSUME NEW state \in {"read", "again"}, job' = [job EXCEPT ![p] = state],
             job[p] \in {"proof", "read"}, gate' = gate
      PROVE  Gate'
  <2>1. Reading' = Reading
    BY <1>4 DEF Reading
  <2>2. Gated' = Gated /\ (cancel => cancel')
    BY <1>2 DEF Gated
  <2>3. ~Gated => \A q \in DOMAIN job' : job'[q] # "gate"
    BY <1>1, <1>4 DEF Gate
  <2> QED
    BY <1>1, <1>4, <2>1, <2>2, <2>3, SameGate
<1>5. ASSUME NEW digest, Finish(p, digest), job[p] \in {"proof", "read", "again"} PROVE Gate'
  BY <1>2, <1>5, FinishKeepsGate DEF Reading
<1>6. CASE ProveBefore(p)
  BY <1>4, <1>5, <1>6 DEF ProveBefore
<1>7. CASE ReadFile(p)
  BY <1>4, <1>5, <1>7 DEF ReadFile
<1>8. CASE ProveAfter(p)
  BY <1>5, <1>8 DEF ProveAfter
<1> QED
  BY <1>3, <1>6, <1>7, <1>8 DEF Reader

LEMMA GateNext ==
  ASSUME Inv, [Next]_vars
  PROVE  Gate'
<1>1. Gate /\ Jobs /\ (cancel => cancel') /\ layout' = layout
  BY CancelStays, DiskNext DEF Inv, DiskStep
\* Into a stage, or out of it, nobody reads.
<1>2. ASSUME gate' = gate, Reading' = {}, Gated => Reading = {},
             \A p \in DOMAIN job' : job'[p] # "gate"
      PROVE  Gate'
  <2>1. gate.active = 0
    <3>1. CASE Gated
      BY <1>1, <1>2, <3>1, FS_EmptySet DEF Gate, GateHolds, Reading
    <3>2. CASE ~Gated
      BY <1>1, <3>2 DEF Gate
    <3> QED
      BY <3>1, <3>2
  <2>2. Low' = Low /\ Cardinality(Reading') = 0
    BY <1>2, FS_EmptySet DEF Low
  <2>3. GateHolds'
    BY <1>1, <1>2, <2>1, <2>2, GateFacts DEF GateHolds, Reading, Low
  <2> QED
    BY <1>1, <1>2, <2>1, <2>2, <2>3, GateFacts DEF Gate
<1>3. ASSUME job' = job, gate' = gate, phase' = phase \/ {phase, phase'} \cap Stages = {}
      PROVE  Gate'
  <2>1. Gated' = Gated /\ Reading' = Reading
    BY <1>1, <1>3 DEF Gated, Reading, Stages
  <2> QED
    BY <1>1, <1>3, <2>1, SameGate DEF Gate
<1>4. CASE BySize \/ ProbeDone
  <2>1. ~Gated /\ gate' = gate
    BY <1>4, WorkLeaves DEF BySize, ProbeDone, Gated
  <2>2. \A p \in DOMAIN job' : job'[p] \in {"wait", "done"}
    BY <1>4 DEF BySize, ProbeDone, Offered
  <2> QED
    BY <1>2, <2>1, <2>2 DEF Reading
<1>5. CASE FullDone
  <2>1. gate' = gate /\ DOMAIN job' = {} /\ Reading = {}
    BY <1>1, <1>5, StageIdle, WorkLeaves DEF FullDone, Map0
  <2> QED
    BY <1>2, <2>1 DEF Reading
<1>6. CASE TakeFile
  <2>1. PICK p \in DOMAIN job :
          /\ job[p] = "wait"
          /\ job' = [job EXCEPT ![p] = IF cancel THEN "done" ELSE IF Gated THEN "gate" ELSE "proof"]
    <3> DEFINE waits == {q \in DOMAIN job : job[q] = "wait"}
               p == CHOOSE q \in waits : TRUE
    <3>1. waits # {} /\ p \in waits
      BY <1>6 DEF TakeFile
    <3> QED
      BY <1>6, <3>1 DEF TakeFile
  <2>2. gate' = gate /\ Gated' = Gated
    BY <1>1, <1>6, WorkLeaves DEF TakeFile, Gated
  <2>3. CASE Gated
    <3>1. Reading' = Reading
      BY <2>1, <2>3 DEF Reading
    <3> QED
      BY <1>1, <2>2, <2>3, <3>1, SameGate
  <2>4. CASE ~Gated
    <3>1. \A q \in DOMAIN job' : job'[q] # "gate"
      BY <1>1, <2>1, <2>4 DEF Gate
    <3> QED
      BY <1>1, <2>2, <2>4, <3>1 DEF Gate, GateHolds, Low
  <2> QED
    BY <2>3, <2>4
<1>7. ASSUME NEW d \in Dirs, ListDir(d) \/ StatEntry(d) \/ MergeDir(d) PROVE Gate'
  BY <1>3, <1>7, WorkLeaves
<1>8. CASE BeginScan \/ SeedCache \/ WalkCancelled \/ Aggregate \/ LoadSaved \/ Recompute
  <2>1. {phase, phase'} \cap Stages = {}
    BY <1>8 DEF BeginScan, SeedCache, WalkCancelled, Aggregate, LoadSaved, Recompute, Stages
  <2> QED
    BY <1>3, <1>8, <2>1, WorkLeaves
<1>9. CASE Aside
  BY <1>3, <1>9, AsideLeaves DEF Work, Stages
<1> QED
  BY Steps, TickKeepsGate, ReaderKeepsGate, <1>1, <1>4, <1>5, <1>6, <1>7, <1>8, <1>9
-----------------------------------------------------------------------------
(* The refresh of an old session *)

LEMMA RootNowIs ==
  ASSUME DiskStep
  PROVE  RootNow \in 1..2 /\ RootNow' \in 1..2 /\ (returned' \/ RootNow <= RootNow')
BY DEF DiskStep, RootNow

\* Where the phases of a refresh come from.
LEMMA RefreshPhases ==
  ASSUME [Next]_vars
  PROVE  /\ phase' = "save" => phase = "save" \/ (phase = "scanned" /\ ~res.partial)
         /\ phase' = "answer" => phase = "answer" \/ (SaveRefreshed /\ ~RootChanged)
         /\ phase' = "recompute" => phase = "recompute" \/ layout.mode = "scan"
         /\ phase' = "save" => phase = "save" \/ layout.mode = "refresh"
BY DEF Next, WorkerStep, BeginScan, BeginRefresh, SeedCache, RefreshStopped,
       ListDir, StatEntry, MergeDir, WalkCancelled, BySize, TakeFile, Acquire,
       ProveBefore, ReadFile, ProveAfter, ProbeDone, FullDone,
       Aggregate, SaveScan, ScanFailed, PairScanned, RefreshScanned, SaveRefreshed, AnswerRefresh,
       Recompute, LoadSaved, LoadRefused, Tick, RemovePaths, Cancel, Pause, Resume,
       EditFile, SaveOver, DeleteFile, SwapRoot, SwapBack, Outside, Stop, vars

\* A save is the refresh's last step but one, or the scan's.
LEMMA SavedWhen ==
  ASSUME [Next]_vars
  PROVE  \/ saved' = saved
         \/ layout.mode = "scan"
         \/ phase' = "answer"
BY DEF Next, WorkerStep, BeginScan, BeginRefresh, SeedCache, RefreshStopped,
       ListDir, StatEntry, MergeDir, WalkCancelled, BySize, TakeFile, Acquire,
       ProveBefore, ReadFile, ProveAfter, ProbeDone, FullDone,
       Aggregate, SaveScan, ScanFailed, PairScanned, RefreshScanned, SaveRefreshed, AnswerRefresh,
       Recompute, LoadSaved, LoadRefused, Tick, RemovePaths, Cancel, Pause, Resume,
       EditFile, SaveOver, DeleteFile, SwapRoot, SwapBack, Outside, Stop, vars, ends

\* Nothing undoes what was saved.
LEMMA SavedStays ==
  ASSUME [Next]_vars, layout.mode = "refresh", saved,
         phase \in {"answer", "done", "loaded", "refused"}
  PROVE  phase' \in {"answer", "done", "loaded", "refused"}
BY DEF Next, WorkerStep, BeginScan, BeginRefresh, SeedCache, RefreshStopped,
       ListDir, StatEntry, MergeDir, WalkCancelled, BySize, TakeFile, Acquire,
       ProveBefore, ReadFile, ProveAfter, ProbeDone, FullDone,
       Aggregate, SaveScan, ScanFailed, PairScanned, RefreshScanned, SaveRefreshed, AnswerRefresh,
       Recompute, LoadSaved, LoadRefused, Tick, RemovePaths, Cancel, Pause, Resume,
       EditFile, SaveOver, DeleteFile, SwapRoot, SwapBack, Outside, Stop, vars, Gated, disk

LEMMA RootedNext ==
  ASSUME Inv, [Next]_vars
  PROVE  Rooted'
<1>1. DiskStep /\ Rooted /\ layout' = layout
  BY DiskNext DEF Inv, DiskStep
<1>2. /\ RootNow \in 1..2 /\ RootNow' \in 1..2 /\ (returned' \/ RootNow <= RootNow')
      /\ returned => returned'
  BY <1>1, RootNowIs DEF DiskStep
<1>3. phase' \in {"save", "answer"} => ~res'.partial
  <2>1. phase' \in {"save", "answer"} => ~res.partial
    BY <1>1, RefreshPhases DEF Rooted, SaveRefreshed
  <2>2. phase' \in {"save", "answer"} => res' = res
    BY Steps, AsideLeaves, WorkLeaves DEF BySize, ProbeDone, FullDone, WalkCancelled,
       Aggregate, LoadSaved, Recompute, MergeDir, Work, Rooted
  <2> QED
    BY <2>1, <2>2
<1>4. /\ phase' = "recompute" => layout.mode = "scan"
      /\ phase' \in {"save", "answer"} => layout.mode = "refresh"
  BY <1>1, RefreshPhases DEF Rooted, SaveRefreshed
<1>5. /\ phase' = "start" => phase = "start"
      /\ phase' = "seed" => phase = "seed" \/ BeginRefresh
  BY BeginningLeft
<1>6. layout.mode = "refresh" /\ saved' => phase' \in {"answer", "done", "loaded", "refused"}
  BY <1>1, SavedWhen, SavedStays DEF Rooted
<1>7. ASSUME phase' = "answer" PROVE returned' \/ rootsRead' \subseteq {rootId'}
  <2>1. UNCHANGED roots
    <3>1. CASE SaveRefreshed
      BY <3>1 DEF SaveRefreshed, Stop
    <3>2. CASE phase = "answer"
      BY <1>7, <3>2 DEF Next, WorkerStep, BeginScan, BeginRefresh, SeedCache, RefreshStopped,
       ListDir, StatEntry, MergeDir, WalkCancelled, BySize, TakeFile, Acquire,
       ProveBefore, ReadFile, ProveAfter, ProbeDone, FullDone,
       Aggregate, SaveScan, ScanFailed, PairScanned, RefreshScanned, SaveRefreshed, AnswerRefresh,
       Recompute, LoadSaved, LoadRefused, Tick, RemovePaths, Cancel, Pause, Resume,
       EditFile, SaveOver, DeleteFile, SwapRoot, SwapBack, Outside, Stop, vars
    <3> QED
      BY <1>7, <3>1, <3>2, RefreshPhases
  <2>2. CASE phase = "answer"
    BY <1>1, <1>2, <2>1, <2>2 DEF Rooted, roots
  <2>3. CASE SaveRefreshed /\ ~RootChanged
    <3>1. phase = "save" /\ RootNow = rootId
      BY <2>3 DEF SaveRefreshed, RootChanged
    <3>2. returned \/ \A n \in rootsRead : n = rootId
      <4>1. \/ returned
            \/ \A n \in rootsRead : rootId <= n /\ n <= rootId
        BY <1>1, <3>1 DEF Rooted
      <4>2. rootId \in 0..2 /\ rootsRead \subseteq 1..2
        BY <1>1 DEF Rooted
      <4> QED
        BY <4>1, <4>2
    <3> QED
      BY <1>2, <2>1, <3>2 DEF roots
  <2> QED
    BY <1>7, <2>2, <2>3, RefreshPhases
<1> DEFINE Bounds == layout.mode = "refresh" /\ phase \notin {"start", "cancelled"} =>
             returned \/ (rootId <= RootNow /\ \A n \in rootsRead : rootId <= n /\ n <= RootNow)
<1>8. ASSUME /\ rootId' \in 0..2 /\ rootsRead' \subseteq 1..2
             /\ layout.mode = "refresh" /\ phase' = "start" => rootsRead' = {}
             /\ phase' = "seed" => rootsRead' = {} /\ layout.mode = "refresh"
             /\ Bounds'
      PROVE  Rooted'
  BY <1>1, <1>3, <1>4, <1>6, <1>7, <1>8 DEF Rooted
<1>9. Bounds
  BY <1>1 DEF Rooted
<1>10. CASE BeginRefresh
  <2>1. /\ phase = "start" /\ layout.mode = "refresh" /\ rootId' = RootNow
        /\ phase' = "seed" /\ rootsRead' = rootsRead /\ away' = away /\ res' = res
    BY <1>10 DEF BeginRefresh, OpenCache
  <2>2. RootNow' = RootNow /\ rootsRead = {}
    BY <1>1, <2>1 DEF Rooted, RootNow
  <2> QED
    BY <1>1, <1>2, <1>8, <2>1, <2>2
<1>11. ASSUME NEW d \in Dirs, ListDir(d) PROVE Rooted'
  <2>1. /\ phase = "walk" /\ phase' = "walk" /\ rootsRead' = rootsRead \cup {RootNow}
        /\ rootId' = rootId /\ RootNow' = RootNow /\ returned' = returned
    BY <1>11, <1>1, WorkLeaves DEF ListDir, RootNow, OnDisk, disk
  <2>2. rootId \in 0..2 /\ rootsRead \subseteq 1..2
    BY <1>1 DEF Rooted
  <2>3. Bounds'
    BY <1>1, <1>2, <1>9, <2>1, <2>2
  <2> QED
    BY <1>2, <1>8, <2>1, <2>2, <2>3
<1>12. ASSUME UNCHANGED roots, ~BeginRefresh,
             phase \in {"start", "cancelled"} =>
               phase' \in {phase, "cancelled"} \/ layout.mode # "refresh"
      PROVE  Rooted'
  <2>1. rootId' = rootId /\ rootsRead' = rootsRead
    BY <1>12 DEF roots
  <2>2. rootId \in 0..2 /\ rootsRead \subseteq 1..2
    BY <1>1 DEF Rooted
  <2>3. Bounds'
    BY <1>1, <1>2, <1>9, <1>12, <2>1, <2>2
  <2>4. /\ layout.mode = "refresh" /\ phase' = "start" => rootsRead' = {}
        /\ phase' = "seed" => rootsRead' = {} /\ layout.mode = "refresh"
    BY <1>1, <1>5, <1>12, <2>1 DEF Rooted
  <2> QED
    BY <1>8, <2>1, <2>2, <2>3, <2>4
<1>13. phase \in {"start", "cancelled"} =>
        BeginRefresh \/ phase' \in {phase, "cancelled"} \/ layout.mode # "refresh"
  BY DEF Next, WorkerStep, BeginScan, SeedCache, RefreshStopped,
       ListDir, StatEntry, MergeDir, WalkCancelled, BySize, TakeFile, Acquire,
       ProveBefore, ReadFile, ProveAfter, ProbeDone, FullDone,
       Aggregate, SaveScan, ScanFailed, PairScanned, RefreshScanned, SaveRefreshed, AnswerRefresh,
       Recompute, LoadSaved, LoadRefused, Tick, RemovePaths, Cancel, Pause, Resume,
       EditFile, SaveOver, DeleteFile, SwapRoot, SwapBack, Outside, Stop, vars
<1>14. \/ UNCHANGED roots \/ BeginRefresh
       \/ \E d \in Dirs : ListDir(d)
  BY DEF Next, WorkerStep, BeginScan, SeedCache, RefreshStopped,
       StatEntry, MergeDir, WalkCancelled, BySize, TakeFile, Acquire,
       ProveBefore, ReadFile, ProveAfter, ProbeDone, FullDone,
       Aggregate, SaveScan, ScanFailed, PairScanned, RefreshScanned, SaveRefreshed, AnswerRefresh,
       Recompute, LoadSaved, LoadRefused, Tick, RemovePaths, Cancel, Pause, Resume,
       EditFile, SaveOver, DeleteFile, SwapRoot, SwapBack, Outside, Stop, vars
<1> QED
  BY <1>10, <1>11, <1>12, <1>13, <1>14

\* What a whole result becomes in a file passes the validation.
LEMMA WholeIsSound ==
  ASSUME Inv, phase = "done", ~res.partial, Fits(res), Dated(res)
  PROVE  Sound(Reread, NormalRoots(layout.roots))
<1>1. PICK r : r = Reread
  OBVIOUS
<1>2. Shape(r) /\ Facts(r) = Facts(res)
  BY <1>1, ReadBackKeeps DEF Reread
<1>3. ResultTrue(res) /\ Maps(res) /\ Scanned
  BY DEF Inv, ResultTrue
<1>4. /\ r.meta = res.meta /\ r.class = res.class /\ r.ok = res.ok
      /\ r.children = res.children /\ r.links = res.links
      /\ r.aliases = res.aliases /\ r.failed = res.failed
  BY <1>2, SameFacts
<1>5. DOMAIN res.class = DOMAIN res.meta
  BY <1>3 DEF Inv, Classed, Late, ResultTrue
<1>6. \A p \in DOMAIN res.meta :
        /\ p[1] \in DOMAIN res.ok
        /\ Shared(res.class[p]) => res.class[p].size = res.meta[p].size
  <2> SUFFICES ASSUME NEW p \in DOMAIN res.meta
               PROVE  /\ p[1] \in DOMAIN res.ok
                      /\ Shared(res.class[p]) => res.class[p].size = res.meta[p].size
    OBVIOUS
  <2>1. File(res, p) /\ ClassTrue(res, p)
    BY <1>3, <1>5 DEF ResultTrue
  <2> QED
    BY <2>1 DEF File, ClassTrue, Class
<1>7. \A d \in DOMAIN res.ok : \E t \in NormalRoots(layout.roots) : Inside(d, t)
  BY <1>3 DEF Scanned, Within
<1>8. /\ \A d \in DOMAIN res.children : \A k \in res.children[d] : ParentOf[k] = d
      /\ \A d \in DOMAIN res.aliases : \A a \in res.aliases[d] :
           a[1][1] = d /\ a[2] \in DOMAIN res.meta
      /\ res.failed \subseteq DOMAIN res.ok
  BY <1>3 DEF Maps
<1>9. Consistent(r, NormalRoots(layout.roots))
  BY <1>4, <1>5, <1>6, <1>7, <1>8 DEF Consistent
<1>10. Fits(r) /\ Dated(r)
  BY <1>4 DEF Fits, Dated
<1> QED
  BY <1>1, <1>9, <1>10 DEF Sound

LEMMA CoherentNext ==
  ASSUME Inv, [Next]_vars
  PROVE  RefreshCoherent'
<1>1. RefreshCoherent /\ Rooted /\ layout' = layout
  BY DiskNext DEF Inv, DiskStep
<1>2. Rooted' /\ (returned => returned')
  BY DiskNext, RootedNext DEF Inv, DiskStep
<1> DEFINE Handed == phase = "done" /\ layout.mode = "refresh" =>
             saved /\ ~res.partial /\ (rootsRead \subseteq {rootId} \/ returned)
           Refused == phase = "refused" => res.partial \/ ~Fits(res) \/ ~Dated(res)
<1>3. layout.mode = "refresh" /\ saved' => phase' \notin {"failed", "cancelled"}
  BY <1>1, <1>2 DEF Rooted
<1>4. Handed'
  <2>1. CASE AnswerRefresh /\ phase' = "done"
    <3>1. phase = "answer" /\ saved /\ UNCHANGED <<saved, res, roots>>
      BY <2>1 DEF AnswerRefresh, Stop, ends
    <3> QED
      BY <1>1, <1>2, <3>1 DEF Rooted, roots
  <2>2. CASE phase' # "done" \/ layout.mode # "refresh"
    BY <1>1, <2>2
  <2>3. CASE phase' = phase /\ UNCHANGED <<saved, res, roots>>
    BY <1>1, <1>2, <2>3 DEF RefreshCoherent, roots
  <2>4. \/ AnswerRefresh /\ phase' = "done"
        \/ phase' # "done" \/ layout.mode # "refresh"
        \/ phase' = phase /\ UNCHANGED <<saved, res, roots>>
    <3>1. CASE Aside
      BY <3>1 DEF Aside, BeginRefresh, RefreshStopped, SaveScan, ScanFailed, PairScanned,
         RefreshScanned, SaveRefreshed, LoadRefused, RemovePaths, Cancel, Pause, Resume,
         EditFile, SaveOver, DeleteFile, SwapRoot, SwapBack, Outside, Stop, AnswerRefresh, vars, ends
    <3>2. CASE ~Aside
      <4>1. Recompute => layout.mode = "scan"
        BY <1>1 DEF Recompute, Rooted
      <4> QED
        BY <3>2, <4>1, Steps DEF BeginScan, SeedCache, ListDir, StatEntry, MergeDir, WalkCancelled,
         BySize, TakeFile, Reader, Acquire, ProveBefore, ReadFile, ProveAfter, ProbeDone,
         FullDone, Aggregate, LoadSaved, Tick, ends, Gated
    <3> QED
      BY <3>1, <3>2
  <2> QED
    BY <2>1, <2>2, <2>3, <2>4
<1>5. Refused'
  <2>1. CASE LoadRefused
    <3>1. /\ phase = "done" /\ ~Sound(Reread, NormalRoots(layout.roots)) /\ res' = res
      BY <2>1 DEF LoadRefused, Stop
    <3>2. res.partial \/ ~Fits(res) \/ ~Dated(res)
      BY <3>1, WholeIsSound
    <3> QED
      BY <3>1, <3>2 DEF Fits, Dated
  <2>2. CASE phase' # "refused"
    BY <2>2
  <2>3. CASE phase' = phase /\ res' = res
    BY <1>1, <2>3 DEF RefreshCoherent, Fits, Dated
  <2>4. LoadRefused \/ phase' # "refused" \/ (phase' = phase /\ res' = res)
    BY DEF Next, WorkerStep, BeginScan, BeginRefresh, SeedCache, RefreshStopped,
       ListDir, StatEntry, MergeDir, WalkCancelled, BySize, TakeFile, Acquire,
       ProveBefore, ReadFile, ProveAfter, ProbeDone, FullDone, Gated,
       Aggregate, SaveScan, ScanFailed, PairScanned, RefreshScanned, SaveRefreshed, AnswerRefresh,
       Recompute, LoadSaved, Tick, RemovePaths, Cancel, Pause, Resume,
       EditFile, SaveOver, DeleteFile, SwapRoot, SwapBack, Outside, Stop, vars, disk
  <2> QED
    BY <2>1, <2>2, <2>3, <2>4
<1> QED
  BY <1>1, <1>3, <1>4, <1>5 DEF RefreshCoherent

LEMMA FlagsNext ==
  ASSUME Inv, [Next]_vars
  PROVE  Flags'
<1>1. Flags
  BY DEF Inv
<1>2. CASE Aside
  BY <1>1, <1>2 DEF Aside, BeginRefresh, OpenCache, RefreshStopped, SaveScan, ScanFailed, PairScanned,
         RefreshScanned, SaveRefreshed, AnswerRefresh, LoadRefused, RemovePaths, Cancel, Pause, Resume,
         EditFile, SaveOver, DeleteFile, SwapRoot, SwapBack, Outside, Stop, vars, ends, store,
         Flags, Phases, Final
<1>3. CASE ~Aside
  <2>1. UNCHANGED Switches
    BY <1>3, Steps, WorkLeaves
  <2>2. phase' \in Phases
    BY <1>1, <1>3, Steps DEF BeginScan, SeedCache, ListDir, StatEntry, MergeDir, WalkCancelled,
         BySize, TakeFile, Reader, Acquire, ProveBefore, ReadFile, ProveAfter, ProbeDone,
         FullDone, Aggregate, LoadSaved, Recompute, Tick, Flags, Phases, Final
  <2>3. cacheOn' \in BOOLEAN
    BY <1>1, <1>3, Steps DEF BeginScan, OpenCache, SeedCache, ListDir, StatEntry, MergeDir,
         WalkCancelled,
         BySize, TakeFile, Reader, Acquire, ProveBefore, ReadFile, ProveAfter, ProbeDone,
         FullDone, CachePut, Aggregate, LoadSaved, Recompute, Tick, Flags, store
  <2> QED
    BY <1>1, <2>1, <2>2, <2>3 DEF Flags, Switches
<1> QED
  BY <1>2, <1>3

LEMMA InvNext ==
  ASSUME Inv, [Next]_vars
  PROVE  Inv'
<1>1. DiskKept /\ History
  BY DEF Inv
<1> QED
  BY <1>1, DiskNext, ResultNext, ScannedNext, SeenNext, ListingsNext, RowsNext, JobsNext, ClassedNext,
     GateNext, RootedNext, CoherentNext, FlagsNext DEF Inv

LEMMA InvInit ==
  ASSUME Init
  PROVE  Inv
<1>1. Volume(layout) /\ layout \in Layouts
  BY LayoutAssumption DEF Init
<1>2. DiskKept
  <2>1. /\ layout \in Layouts /\ entry = layout.entry /\ folders = layout.folders
        /\ away = FALSE /\ returned = FALSE /\ content = layout.content
        /\ stamp = [i \in Inodes |-> 1] /\ events = 0
    BY DEF Init
  <2>2. /\ layout.content \in [Inodes -> Contents]
        /\ \A p \in DOMAIN layout.entry :
             layout.entry[p] \in Inodes /\ Ancestors[p[1]] \subseteq layout.folders
    BY <1>1 DEF Volume
  <2>3. 0 \in 0..MaxEvents
    BY ScanAssumption
  <2> QED
    BY <2>1, <2>2, <2>3 DEF DiskKept
<1>3. History
  BY <1>1 DEF Init, History, HeldBefore, Volume, Ids, Id
<1>4. RowsTrue
  BY <1>1 DEF Init, RowsTrue, Volume
<1>5. /\ todo = {} /\ DOMAIN opened = {} /\ DOMAIN seen = {} /\ DOMAIN job = {} /\ DOMAIN found = {}
      /\ phase = "start" /\ rootId = 0 /\ rootsRead = {} /\ gate = Gate0(layout.cap)
      /\ saved = FALSE
  BY DEF Init, Map0
<1>6. /\ DOMAIN res.meta = {} /\ DOMAIN res.class = {} /\ DOMAIN res.ok = {}
      /\ DOMAIN res.children = {} /\ DOMAIN res.links = {} /\ DOMAIN res.aliases = {}
      /\ res.failed = {} /\ res.partial = FALSE /\ Shape(res)
  BY DEF Init, NewResult, Map0, Shape
<1>7. Scanned /\ Listings /\ SeenKnown /\ Jobs
  BY <1>5, <1>6 DEF Scanned, Listings, SeenKnown, Jobs, Stages
<1>8. ResultTrue(res) /\ KnownWhole
  BY <1>6 DEF ResultTrue, Maps, KnownWhole
<1>9. Classed /\ Rooted /\ RefreshCoherent
  BY <1>5, <1>6 DEF Classed, Early, Stages, Late, Rooted, RefreshCoherent
<1>10. Gate
  BY <1>1, <1>5, FS_EmptySet DEF Gate, GateHolds, Gate0, Low, Gated, Volume
<1>11. Flags
  BY DEF Init, Flags, Phases
<1> QED
  BY <1>2, <1>3, <1>4, <1>7, <1>8, <1>9, <1>10, <1>11 DEF Inv

-----------------------------------------------------------------------------
(* The theorems *)

THEOREM ScanInvariant == Spec => []Inv
<1>1. Inv /\ [Next]_vars => Inv'
  BY InvNext
<1> QED
  BY InvInit, <1>1, PTL DEF Spec

\* A scan and its worker keep to their types, and nothing that is found is about
\* a file, folder or identity that the volume does not have.
THEOREM ScanTypes == Spec => []TypeOK
<1>1. ASSUME Inv PROVE TypeOK
  <2>1. /\ DiskKept /\ History /\ ResultTrue(res) /\ Jobs /\ Flags /\ Rooted /\ Scanned
        /\ RowsTrue
    BY <1>1 DEF Inv
  <2>2. Volume(layout)
    BY <2>1, LayoutAssumption DEF DiskKept
  <2>3. DOMAIN entry \subseteq Paths /\ folders \subseteq Dirs
    BY <2>1, <2>2 DEF DiskKept, Volume, Paths
  <2>4. Range(entry) \subseteq Inodes
    BY <2>1 DEF DiskKept, Range
  <2>5. \A d \in todo \cup DOMAIN opened \cup DOMAIN res.ok : d \in Dirs
    BY <2>1 DEF Scanned, Within, Inside
  <2>6. DOMAIN res.meta \subseteq Paths /\ \A p \in DOMAIN res.meta : res.meta[p].id \in Ids
    BY <2>1, <2>2 DEF ResultTrue, File, History, Volume, Paths
  <2>7. DOMAIN res.class \subseteq DOMAIN res.meta
    BY <2>1 DEF ResultTrue
  <2>8. DOMAIN found \subseteq DOMAIN job /\ DOMAIN job \subseteq DOMAIN res.meta
    BY <2>1 DEF Jobs
  <2>9. \A x \in DOMAIN rows : x[2] \in {"p", "f"}
    BY <2>1 DEF RowsTrue, RowTrue
  <2>10. /\ content \in [Inodes -> Contents] /\ stamp \in [Inodes -> Nat]
         /\ events \in 0..MaxEvents /\ rootId \in 0..2 /\ rootsRead \subseteq 1..2
    BY <2>1 DEF DiskKept, Rooted
  <2>11. phase \in Phases /\ {cancel, paused, cacheOn, saved, away, returned} \subseteq BOOLEAN
    BY <2>1 DEF Flags, DiskKept
  <2> QED
    BY <2>3, <2>4, <2>5, <2>6, <2>7, <2>8, <2>9, <2>10, <2>11 DEF TypeOK
<1> QED
  BY ScanInvariant, <1>1, PTL

\* A class that lets a file be removed, and a row that the next scan believes,
\* tell what the file held under the identity they are kept with, however many
\* files change, in whatever moment between the two looks at their metadata.
THEOREM ScanProofTrue == Spec => []ProofTrue
<1>1. ASSUME Inv PROVE ProofTrue
  BY <1>1 DEF Inv, ResultTrue, ClassTrue, RowsTrue, RowTrue, ProofTrue
<1> QED
  BY ScanInvariant, <1>1, PTL

\* The gate counts the readers and holds them, for any pool, any cap and any
\* measured throughput.
THEOREM ScanGateHolds == Spec => []GateHolds
<1>1. Inv => GateHolds
  BY DEF Inv, Gate
<1> QED
  BY ScanInvariant, <1>1, PTL

\* A refresh is handed over only whole, saved and read under one root, unless that
\* was away and back; what it saved is never denied, and can be opened again
\* unless it is too large or has a file of before 1970.
THEOREM ScanRefreshCoherent == Spec => []RefreshCoherent
<1>1. Inv => RefreshCoherent
  BY DEF Inv
<1> QED
  BY ScanInvariant, <1>1, PTL

\* Where a traversal finds no failed read, it comes to every folder there is, but
\* for those in one that is left out.
LEMMA TraversalComplete ==
  ASSUME Inv, phase # "pruned", Stayed,
         NEW d \in DOMAIN res.ok, TreeMergeable(res, d), NEW e \in Dirs,
         Inside(e, d), Ancestors[e] \subseteq folders,
         \A k \in Ancestors[e] \ Ancestors[d] : k \notin layout.skipped
  PROVE  e \in Reached(res, d)
<1> DEFINE There(k) == /\ Inside(k, d) /\ Ancestors[k] \subseteq folders
                       /\ \A l \in Ancestors[k] \ Ancestors[d] : l \notin layout.skipped
           P == {k \in Dirs : There(k) => k \in Reached(res, d)}
<1>1. ASSUME NEW k \in Dirs, ParentOf[k] # Above => ParentOf[k] \in P
      PROVE  k \in P
  <2> SUFFICES ASSUME There(k) PROVE k \in Reached(res, d)
    OBVIOUS
  <2>1. CASE k = d
    BY <2>1 DEF Reached
  <2>2. CASE k # d
    <3> DEFINE up == ParentOf[k]
    <3>1. /\ up # Above /\ up \in Dirs /\ Inside(up, d)
          /\ Ancestors[up] \subseteq Ancestors[k] /\ k \notin Ancestors[d]
      BY <2>2, InsideStrictly DEF Inside
    <3>2. up \in Reached(res, d)
      BY <1>1, <3>1
    <3>3. up \in DOMAIN res.ok
      BY <3>2 DEF TreeMergeable
    <3>4. k \in folders /\ k \notin layout.skipped
      BY <3>1, AncestorsIn
    <3>5. k \in res.children[up]
      BY <3>3, <3>4 DEF Inv, KnownWhole, ReadWhole
    <3> QED
      BY <3>1, <3>3, <3>5 DEF Reached, Below
  <2> QED
    BY <2>1, <2>2
<1>2. Dirs \subseteq P
  <2> HIDE DEF P
  <2> QED
    BY <1>1, DownTheTree
<1> QED
  BY <1>2

\* What a merge may take from a folder, or put into it, is known: the traversal
\* that found no failed read came to every entry that is there.
THEOREM ScanMergeableKnown == Spec => []MergeableKnown
<1>1. ASSUME Inv, phase \in {"done", "loaded"}, Stayed,
             NEW d \in DOMAIN res.ok, TreeMergeable(res, d), NEW p \in DOMAIN entry,
             Inside(p[1], d), p \notin layout.filtered,
             \A k \in Ancestors[p[1]] \ Ancestors[d] : k \notin layout.skipped
      PROVE  p[1] \in DOMAIN res.ok /\ KnownPath(res, p)
  <2>1. p[1] \in Dirs /\ Ancestors[p[1]] \subseteq folders
    BY <1>1 DEF Inv, DiskKept, Inside
  <2>2. p[1] \in Reached(res, d)
    BY <1>1, <2>1, TraversalComplete
  <2>3. p[1] \in DOMAIN res.ok /\ (res.ok[p[1]] \/ p[1] \notin res.failed)
    BY <1>1, <2>2 DEF TreeMergeable
  <2>4. ReadWhole(res, p[1])
    BY <1>1, <2>3 DEF Inv, KnownWhole
  <2> QED
    BY <1>1, <2>3, <2>4 DEF ReadWhole
<1>2. Inv => MergeableKnown
  BY <1>1 DEF MergeableKnown, KnownPath, Here, Stayed
<1> QED
  BY ScanInvariant, <1>2, PTL

-----------------------------------------------------------------------------
(* A scan while nobody else acts: the result mirrors the disk *)

Still == events = 0 /\ removed = {} /\ ~away /\ ~returned

\* Folders are finitely many.
Opens == DOMAIN opened \cup DOMAIN res.ok \subseteq layout.roots \cup layout.folders

\* An entry as its lstat gave it, and a folder as its listing did.
Mirrored(s) ==
  /\ Here(s.path) /\ s.id = Id(entry[s.path])
  /\ s.kind = Kind[entry[s.path]] /\ s.data = content[entry[s.path]]

Truly(d, o) == /\ \A s \in o.got : Mirrored(s)
               /\ o.ok \in BOOLEAN /\ (o.ok => o.subs = Subfolders(d))

Walked == \A d \in DOMAIN opened : Truly(d, opened[d])

\* What a folder's manifest is made of is what the folder holds.
Entered(r, d, p) ==
  \/ p \in DOMAIN r.meta
  \/ Kind[entry[p]] = "link" /\ <<"L", p[2], content[entry[p]]>> \in r.links[d]
  \/ \E a \in r.aliases[d] : a[1] = p

Exact(r, d) ==
  /\ r.children[d] = Subfolders(d)
  /\ \A p \in DOMAIN entry : p[1] = d => Entered(r, d, p)
  /\ \A l \in r.links[d] : \E p \in DOMAIN entry :
       p[1] = d /\ Kind[entry[p]] = "link" /\ l = <<"L", p[2], content[entry[p]]>>
  /\ r.aliases[d] \subseteq (DOMAIN entry) \X (DOMAIN entry)
  /\ \A a \in r.aliases[d] : entry[a[1]] = entry[a[2]]
  /\ \A a, b \in r.aliases[d] : a[1] = b[1] => a = b

Copied(r) ==
  /\ \A p \in DOMAIN r.meta :
       Here(p) /\ r.meta[p].id = Id(entry[p]) /\ Kind[entry[p]] = "file"
  /\ \A d \in DOMAIN r.ok : r.ok[d] \in BOOLEAN /\ (r.ok[d] => Exact(r, d))

\* A class that is not shared is the file's own.
OwnClass(r) == \A p \in DOMAIN r.class : Shared(r.class[p]) \/ r.class[p] = Unique(p)

SeenHere ==
  phase \in {"start", "seed", "walk"} =>
    \A i \in DOMAIN seen : Here(seen[i]) /\ entry[seen[i]] = i

Grouped == phase \in {"scanned", "save", "answer", "done", "loaded"} => SameInGroups

\* The inductive invariant of EqualFolders, on top of Inv.
QInv ==
  /\ Opens /\ OwnClass(res)
  /\ phase = "loaded" => removed = {}
  /\ phase = "recompute" => removed # {}
  /\ Still => /\ Walked /\ Copied(res) /\ SeenHere /\ Grouped

-----------------------------------------------------------------------------
(* Folders with one manifest are one tree *)

EntriesOf(d) == {<<p[2], Kind[entry[p]], content[entry[p]]>> :
                   p \in {q \in DOMAIN entry : q[1] = d}}

TreeOf(tree, d) == [entries |-> EntriesOf(d),
                    subs |-> {<<DirName[k], tree[k]>> : k \in Subfolders(d)}]

LEMMA TreeIs ==
  ASSUME folders \in SUBSET Dirs, IsFiniteSet(folders)
  PROVE  \A d \in Dirs : Tree[d] = TreeOf(Tree, d)
<1> DEFINE Solves(f, S) == DOMAIN f = folders /\ \A d \in S : f[d] = TreeOf(f, d)
           Closed(S) == \A d \in S : Subfolders(d) \subseteq S
           X == {S \in SUBSET folders : Closed(S) /\ \E f : Solves(f, S)}
<1>0. ASSUME NEW f, NEW g, NEW d, \A k \in Subfolders(d) : f[k] = g[k]
      PROVE  TreeOf(f, d) = TreeOf(g, d)
  <2>1. {<<DirName[k], f[k]>> : k \in Subfolders(d)} = {<<DirName[k], g[k]>> : k \in Subfolders(d)}
    BY <1>0
  <2> QED
    BY <2>1 DEF TreeOf
<1>1. {} \in X
  <2>1. Solves([x \in folders |-> 0], {})
    OBVIOUS
  <2> QED
    BY <2>1
<1>2. ASSUME NEW S \in SUBSET folders, NEW d \in folders \ S, S \in X,
             \A k \in folders : ParentOf[k] = d => k \in S
      PROVE  S \cup {d} \in X
  <2>1. PICK f : Solves(f, S)
    BY <1>2
  <2> DEFINE new == TreeOf(f, d)
             g == [x \in folders |-> IF x = d THEN new ELSE f[x]]
  <2>2. Closed(S) /\ Closed(S \cup {d})
    BY <1>2 DEF Subfolders
  <2>3. ASSUME NEW e \in S \cup {d} PROVE TreeOf(f, e) = TreeOf(g, e)
    <3>1. Subfolders(e) \subseteq S
      BY <1>2, <2>2 DEF Subfolders
    <3>2. \A k \in Subfolders(e) : f[k] = g[k]
      BY <1>2, <3>1
    <3> HIDE DEF g
    <3> QED
      BY <1>0, <3>2
  <2>4. g[d] = new /\ (\A e \in S : g[e] = f[e]) /\ DOMAIN g = folders
    BY <1>2
  <2> HIDE DEF g
  <2>5. \A e \in S \cup {d} : g[e] = TreeOf(g, e)
    BY <2>1, <2>3, <2>4
  <2>6. Solves(g, S \cup {d})
    BY <2>4, <2>5
  <2> QED
    BY <2>2, <2>6
<1>3. folders \in X
  <2>1. \A S \in SUBSET folders : \A d \in folders \ S :
          S \in X /\ (\A k \in folders : ParentOf[k] = d => k \in S) => S \cup {d} \in X
    BY <1>2
  <2> HIDE DEF X
  <2> QED
    BY <1>1, <2>1, UpTheTree
<1>4. PICK f : Solves(f, folders)
  BY <1>3
<1> DEFINE h == [d \in Dirs |-> TreeOf(f, d)]
           tree == CHOOSE t : t = [d \in Dirs |-> TreeOf(t, d)]
<1>5. ASSUME NEW d \in Dirs PROVE TreeOf(f, d) = TreeOf(h, d)
  <2>1. \A k \in Subfolders(d) : f[k] = h[k]
    BY <1>4 DEF Subfolders
  <2> HIDE DEF h
  <2> QED
    BY <1>0, <2>1
<1>6. h = [d \in Dirs |-> TreeOf(h, d)]
  <2>1. h = [d \in Dirs |-> TreeOf(f, d)]
    OBVIOUS
  <2> HIDE DEF h
  <2> QED
    BY <1>5, <2>1
<1>7. tree = [d \in Dirs |-> TreeOf(tree, d)]
  <2> HIDE DEF h
  <2> QED
    BY <1>6
<1>8. Tree = tree
  BY Zenon DEF Tree, TreeOf, EntriesOf
<1> HIDE DEF tree
<1> QED
  BY <1>7, <1>8

LEMMA PairIs ==
  ASSUME NEW S, NEW T, NEW a \in S \X T
  PROVE  a = <<a[1], a[2]>> /\ a[1] \in S /\ a[2] \in T
OBVIOUS

LEMMA OrderlyWhenCopied ==
  ASSUME DiskKept, NEW r, ResultTrue(r), Copied(r), NEW d \in DOMAIN r.ok, r.ok[d]
  PROVE  Orderly(r, d)
<1>1. Volume(layout)
  BY LayoutAssumption DEF DiskKept
<1>2. /\ IsFiniteSet(DOMAIN entry) /\ DOMAIN entry \subseteq Dirs \X Nat
      /\ folders \subseteq Dirs /\ IsFiniteSet(folders)
  <2>1. /\ DOMAIN entry \in SUBSET DOMAIN layout.entry /\ IsFiniteSet(DOMAIN layout.entry)
        /\ DOMAIN layout.entry \subseteq Dirs \X Nat
    BY <1>1 DEF DiskKept, Volume
  <2>2. /\ folders \in SUBSET (layout.roots \cup layout.folders)
        /\ IsFiniteSet(layout.roots \cup layout.folders) /\ layout.folders \subseteq Dirs
    BY <1>1 DEF DiskKept, Volume
  <2> QED
    BY <2>1, <2>2, FS_Subset DEF DiskKept
<1>3. Exact(r, d)
  BY DEF Copied
<1>4. FilesIn(r, d) \in SUBSET DOMAIN entry
  BY DEF FilesIn, Copied, Here
<1>5. IsFiniteSet(r.links[d])
  <2> DEFINE f == [p \in DOMAIN entry |-> <<"L", p[2], content[entry[p]]>>]
  <2>1. r.links[d] \in SUBSET {f[p] : p \in DOMAIN entry} /\ DOMAIN f = DOMAIN entry
    BY <1>3 DEF Exact
  <2> HIDE DEF f
  <2>2. IsFiniteSet({f[p] : p \in DOMAIN entry})
    BY <1>2, <2>1, ImageFinite
  <2> QED
    BY <2>1, <2>2, FS_Subset
<1>6. r.aliases[d] \in SUBSET ((DOMAIN entry) \X (DOMAIN entry)) /\ IsFiniteSet(r.aliases[d])
  <2>1. r.aliases[d] \in SUBSET ((DOMAIN entry) \X (DOMAIN entry))
    BY <1>3 DEF Exact
  <2>2. IsFiniteSet((DOMAIN entry) \X (DOMAIN entry))
    BY <1>2, FS_Product, Zenon
  <2> QED
    BY <2>1, <2>2, FS_Subset
<1>7. r.children[d] \in SUBSET folders /\ \A k \in r.children[d] : ParentOf[k] = d
  BY <1>3 DEF Exact, Subfolders
<1>8. \A l \in r.links[d] : \E n \in Nat : \E t : l = <<"L", n, t>>
  BY <1>2, <1>3 DEF Exact
<1>9. \A l, m \in r.links[d] : l[2] = m[2] => l = m
  <2> SUFFICES ASSUME NEW l \in r.links[d], NEW m \in r.links[d], l[2] = m[2] PROVE l = m
    OBVIOUS
  <2>1. PICK p \in DOMAIN entry : p[1] = d /\ l = <<"L", p[2], content[entry[p]]>>
    BY <1>3 DEF Exact
  <2>2. PICK q \in DOMAIN entry : q[1] = d /\ m = <<"L", q[2], content[entry[q]]>>
    BY <1>3 DEF Exact
  <2>3. p[2] = q[2]
    BY <2>1, <2>2
  <2>4. p = q
    BY <1>2, <2>1, <2>2, <2>3
  <2> QED
    BY <2>1, <2>2, <2>4
<1>10. \A a \in r.aliases[d] : a = <<a[1], a[2]>> /\ a[1] \in Dirs \X Nat /\ a[1][1] = d
  <2> SUFFICES ASSUME NEW a \in r.aliases[d]
               PROVE  a = <<a[1], a[2]>> /\ a[1] \in Dirs \X Nat /\ a[1][1] = d
    OBVIOUS
  <2>1. a \in (DOMAIN entry) \X (DOMAIN entry)
    BY <1>6
  <2>2. a = <<a[1], a[2]>> /\ a[1] \in DOMAIN entry
    BY <2>1, PairIs
  <2>3. a[1][1] = d
    BY DEF ResultTrue, Maps
  <2> QED
    BY <1>2, <2>2, <2>3
<1>11. \A a, b \in r.aliases[d] : a[1] = b[1] => a = b
  BY <1>3 DEF Exact
<1>12. IsFiniteSet(FilesIn(r, d)) /\ IsFiniteSet(r.children[d])
  BY <1>2, <1>4, <1>7, FS_Subset
<1>13. \A p \in FilesIn(r, d) : p \in Dirs \X Nat
  BY <1>2, <1>4
<1>14. \A k \in r.children[d] : k \in Dirs /\ ParentOf[k] = d
  BY <1>2, <1>7
<1> QED
  BY <1>5, <1>6, <1>8, <1>9, <1>10, <1>11, <1>12, <1>13, <1>14 DEF Orderly

\* Files with one class have one content.
LEMMA OneClassOneContent ==
  ASSUME DiskKept, History, NEW r, ResultTrue(r), Copied(r), OwnClass(r),
         NEW p \in DOMAIN r.class, NEW q \in DOMAIN r.class, r.class[p] = r.class[q]
  PROVE  /\ content[entry[p]] = content[entry[q]]
         /\ Kind[entry[p]] = "file" /\ Kind[entry[q]] = "file"
<1>1. ASSUME NEW s \in DOMAIN r.class
      PROVE  /\ Here(s) /\ Kind[entry[s]] = "file" /\ ClassTrue(r, s)
             /\ was[r.meta[s].id] = content[entry[s]]
  <2>1. s \in DOMAIN r.meta /\ ClassTrue(r, s)
    BY DEF ResultTrue
  <2>2. Here(s) /\ r.meta[s].id = Id(entry[s]) /\ Kind[entry[s]] = "file"
    BY <2>1 DEF Copied
  <2>3. entry[s] \in Inodes
    BY <2>2 DEF Here, DiskKept
  <2> QED
    BY <2>1, <2>2, <2>3 DEF History
<1>2. CASE Shared(r.class[p])
  <2>1. /\ r.class[p] = Class(SizeOf[content[entry[p]]], content[entry[p]])
        /\ r.class[q] = Class(SizeOf[content[entry[q]]], content[entry[q]])
    BY <1>1, <1>2 DEF ClassTrue
  <2>2. \A n, c : Class(n, c).digest = c
    BY DEF Class
  <2>3. Class(SizeOf[content[entry[p]]], content[entry[p]]).digest
          = Class(SizeOf[content[entry[q]]], content[entry[q]]).digest
    BY <2>1
  <2>4. content[entry[p]] = content[entry[q]]
    BY <2>2, <2>3
  <2> QED
    BY <1>1, <2>4
<1>3. CASE ~Shared(r.class[p])
  <2>1. Unique(p) = Unique(q)
    BY <1>3 DEF OwnClass
  <2>2. p = q
    BY <2>1 DEF Unique
  <2> QED
    BY <1>1, <2>2
<1> QED
  BY <1>2, <1>3

\* When each part of one has its like in the other, the other holds no less.
LEMMA HoldsNoLess ==
  ASSUME DiskKept, History, NEW r, ResultTrue(r), Copied(r), OwnClass(r),
         NEW man, NEW a \in DOMAIN r.ok, NEW b \in DOMAIN r.ok,
         Complete(r, man, a), Complete(r, man, b),
         \A x \in Parts(r, a) : \E y \in Parts(r, b) : Row(r, man, x) = Row(r, man, y),
         \A k \in r.children[a], l \in r.children[b] :
           man[k].rows = man[l].rows => Tree[k] = Tree[l]
  PROVE  /\ EntriesOf(a) \subseteq EntriesOf(b)
         /\ {<<DirName[k], Tree[k]>> : k \in Subfolders(a)}
              \subseteq {<<DirName[k], Tree[k]>> : k \in Subfolders(b)}
<1>1. Exact(r, a) /\ Exact(r, b)
  BY DEF Complete, Copied
<1>2. \A d \in {a, b} : \A x \in FileRows(r, d) \cup AlsoRows(r, d) : x[3] \in DOMAIN r.class
  BY DEF Complete
<1>3. ASSUME NEW d \in {a, b}
      PROVE  /\ \A x \in FileRows(r, d) \cup AlsoRows(r, d) :
                  x[1] = "F" /\ Row(r, man, x) = <<"F", x[2], r.class[x[3]]>>
             /\ \A x \in r.links[d] : \E n, t : x = <<"L", n, t>> /\ Row(r, man, x) = x
             /\ \A x \in SubRows(r, d) :
                  x[1] = "D" /\ Row(r, man, x) = <<"D", x[2], man[x[3]].rows>>
  <2>1. \A x \in FileRows(r, d) \cup AlsoRows(r, d) : x[1] = "F"
    BY DEF FileRows, AlsoRows
  <2>2. \A x \in r.links[d] : \E n, t : x = <<"L", n, t>>
    BY <1>1 DEF Exact
  <2>3. \A x \in SubRows(r, d) : x[1] = "D"
    BY DEF SubRows
  <2>4. ASSUME NEW x \in r.links[d] PROVE \E n, t : x = <<"L", n, t>> /\ Row(r, man, x) = x
    <3>1. PICK n, t : x = <<"L", n, t>>
      BY <2>2
    <3>2. Row(r, man, x) = x
      BY <3>1 DEF Row
    <3> QED
      BY <3>1, <3>2
  <2> QED
    BY <2>1, <2>3, <2>4 DEF Row
\* The like of a file is an entry of the other folder with its name and content.
<1>4. ASSUME NEW x \in FileRows(r, a) \cup AlsoRows(r, a)
      PROVE  \E q \in DOMAIN entry : /\ q[1] = b /\ q[2] = x[2]
                                     /\ Kind[entry[q]] = "file" /\ Kind[entry[x[3]]] = "file"
                                     /\ content[entry[q]] = content[entry[x[3]]]
  <2>1. PICK y \in Parts(r, b) : Row(r, man, x) = Row(r, man, y)
    BY DEF Parts
  <2>2. y \in FileRows(r, b) \cup AlsoRows(r, b)
    BY <1>3, <2>1 DEF Parts
  <2>3. y[2] = x[2] /\ r.class[y[3]] = r.class[x[3]]
    BY <1>3, <2>1, <2>2
  <2>4. x[3] \in DOMAIN r.class /\ y[3] \in DOMAIN r.class
    BY <1>2, <2>2
  <2>5. /\ content[entry[x[3]]] = content[entry[y[3]]]
        /\ Kind[entry[x[3]]] = "file" /\ Kind[entry[y[3]]] = "file"
    BY <2>3, <2>4, OneClassOneContent
  <2>6. CASE y \in FileRows(r, b)
    <3>1. PICK q \in FilesIn(r, b) : y = <<"F", q[2], q>>
      BY <2>6 DEF FileRows
    <3>2. q \in DOMAIN entry /\ q[1] = b
      BY DEF FilesIn, Copied, Here
    <3> QED
      BY <2>3, <2>5, <3>1, <3>2
  <2>7. CASE y \in AlsoRows(r, b)
    <3>1. PICK al \in r.aliases[b] : y = <<"F", al[1][2], al[2]>>
      BY <2>7 DEF AlsoRows
    <3>2. al[1] \in DOMAIN entry /\ entry[al[1]] = entry[al[2]]
      <4>1. al \in (DOMAIN entry) \X (DOMAIN entry) /\ entry[al[1]] = entry[al[2]]
        BY <1>1 DEF Exact
      <4> QED
        BY <4>1, PairIs
    <3>3. al[1][1] = b
      BY DEF ResultTrue, Maps
    <3> QED
      BY <2>3, <2>5, <3>1, <3>2, <3>3
  <2> QED
    BY <2>2, <2>6, <2>7
<1>5. ASSUME NEW p \in DOMAIN entry, p[1] = a
      PROVE  <<p[2], Kind[entry[p]], content[entry[p]]>> \in EntriesOf(b)
  <2>1. Entered(r, a, p)
    BY <1>1, <1>5 DEF Exact
  <2>2. ASSUME NEW x \in FileRows(r, a) \cup AlsoRows(r, a), x[2] = p[2],
               entry[x[3]] = entry[p]
        PROVE  <<p[2], Kind[entry[p]], content[entry[p]]>> \in EntriesOf(b)
    <3>1. PICK q \in DOMAIN entry : /\ q[1] = b /\ q[2] = p[2]
                                    /\ Kind[entry[q]] = "file" /\ Kind[entry[p]] = "file"
                                    /\ content[entry[q]] = content[entry[p]]
      BY <1>4, <2>2
    <3> QED
      BY <3>1 DEF EntriesOf
  <2>3. CASE p \in DOMAIN r.meta
    <3>1. <<"F", p[2], p>> \in FileRows(r, a)
      BY <1>5, <2>3 DEF FileRows, FilesIn
    <3> QED
      BY <2>2, <3>1
  <2>4. CASE \E al \in r.aliases[a] : al[1] = p
    <3>1. PICK al \in r.aliases[a] : al[1] = p
      BY <2>4
    <3>2. <<"F", p[2], al[2]>> \in AlsoRows(r, a) /\ entry[al[2]] = entry[p]
      BY <1>1, <3>1 DEF AlsoRows, Exact
    <3> QED
      BY <2>2, <3>2
  <2>5. CASE Kind[entry[p]] = "link" /\ <<"L", p[2], content[entry[p]]>> \in r.links[a]
    <3> DEFINE x == <<"L", p[2], content[entry[p]]>>
    <3>1. PICK y \in Parts(r, b) : Row(r, man, x) = Row(r, man, y)
      BY <2>5 DEF Parts
    <3>2. Row(r, man, x) = x
      BY <1>3, <2>5
    <3>3. y \in r.links[b] /\ y = x
      BY <1>3, <3>1, <3>2 DEF Parts
    <3>4. PICK q \in DOMAIN entry : q[1] = b /\ Kind[entry[q]] = "link"
                                    /\ y = <<"L", q[2], content[entry[q]]>>
      BY <1>1, <3>3 DEF Exact
    <3>5. q[2] = p[2] /\ content[entry[q]] = content[entry[p]]
      BY <3>3, <3>4
    <3> QED
      BY <2>5, <3>4, <3>5 DEF EntriesOf
  <2> QED
    BY <2>1, <2>3, <2>4, <2>5 DEF Entered
<1>6. ASSUME NEW k \in Subfolders(a)
      PROVE  \E l \in Subfolders(b) : DirName[k] = DirName[l] /\ Tree[k] = Tree[l]
  <2>1. k \in r.children[a]
    BY <1>1 DEF Exact
  <2> DEFINE x == <<"D", DirName[k], k>>
  <2>2. x \in SubRows(r, a)
    BY <2>1 DEF SubRows
  <2>3. PICK y \in Parts(r, b) : Row(r, man, x) = Row(r, man, y)
    BY <2>2 DEF Parts
  <2>4. Row(r, man, x) = <<"D", DirName[k], man[k].rows>>
    BY <1>3, <2>2
  <2>5. y \in SubRows(r, b)
    BY <1>3, <2>3, <2>4 DEF Parts
  <2>6. PICK l \in r.children[b] : y = <<"D", DirName[l], l>>
    BY <2>5 DEF SubRows
  <2>7. DirName[k] = DirName[l] /\ man[k].rows = man[l].rows
    BY <1>3, <2>3, <2>4, <2>5, <2>6
  <2>8. l \in Subfolders(b)
    BY <1>1 DEF Exact
  <2> QED
    BY <2>1, <2>7, <2>8
<1>7. EntriesOf(a) \subseteq EntriesOf(b)
  BY <1>5 DEF EntriesOf
<1> QED
  BY <1>6, <1>7

LEMMA OneManifestOneTree ==
  ASSUME DiskKept, History, NEW r, ResultTrue(r), Copied(r), OwnClass(r),
         DOMAIN r.ok \subseteq layout.roots \cup layout.folders
  PROVE  \A g \in DirGroupsOf(Manifests(r)) : \A a, b \in g : Tree[a] = Tree[b]
<1> DEFINE D == DOMAIN r.ok
           man == Manifests(r)
           P == {a \in D : \A b \in D : man[a].ok /\ man[b].ok /\ man[a].rows = man[b].rows =>
                                          Tree[a] = Tree[b]}
<1>1. /\ D \in SUBSET Dirs /\ IsFiniteSet(D)
      /\ folders \in SUBSET Dirs /\ IsFiniteSet(folders)
  <2>1. /\ layout.roots \cup layout.folders \in SUBSET Dirs
        /\ IsFiniteSet(layout.roots \cup layout.folders)
        /\ folders \subseteq layout.folders
    BY LayoutAssumption DEF DiskKept, Volume
  <2> QED
    BY <2>1, FS_Subset
<1>2. ASSUME NEW d \in D PROVE r.ok[d] => Orderly(r, d)
  BY <1>2, OrderlyWhenCopied
<1>3. \A d \in D : \A k \in r.children[d] : k \in Dirs /\ ParentOf[k] = d
  BY DEF ResultTrue, Maps
<1>4. DOMAIN man = D /\ \A d \in D : man[d] = ManifestOf(r, man, d)
  BY <1>1, <1>2, <1>3, ManifestsAre
<1> HIDE DEF man
<1>5. ASSUME NEW a \in D, NEW b \in D, man[a].ok, man[b].ok, man[a].rows = man[b].rows
      PROVE  /\ Complete(r, man, a) /\ Complete(r, man, b) /\ Exact(r, a) /\ Exact(r, b)
             /\ \A x \in Parts(r, a) : \E y \in Parts(r, b) : Row(r, man, x) = Row(r, man, y)
  <2>1. /\ Complete(r, man, a) /\ Complete(r, man, b)
        /\ \A x \in Parts(r, a) : \E y \in Parts(r, b) : Row(r, man, x) = Row(r, man, y)
    BY <1>2, <1>4, <1>5, RowsAlike
  <2> QED
    BY <2>1 DEF Complete, Copied
<1>6. ASSUME NEW S \in SUBSET D, NEW a \in D \ S, S \subseteq P,
             \A k \in D : ParentOf[k] = a => k \in S
      PROVE  a \in P
  <2> SUFFICES ASSUME NEW b \in D, man[a].ok, man[b].ok, man[a].rows = man[b].rows
               PROVE  Tree[a] = Tree[b]
    OBVIOUS
  <2>1. /\ Complete(r, man, a) /\ Complete(r, man, b)
        /\ \A x \in Parts(r, a) : \E y \in Parts(r, b) : Row(r, man, x) = Row(r, man, y)
        /\ \A y \in Parts(r, b) : \E x \in Parts(r, a) : Row(r, man, y) = Row(r, man, x)
    BY <1>5
  <2>2. \A k \in r.children[a], l \in r.children[b] :
          man[k].rows = man[l].rows => Tree[k] = Tree[l]
    <3> SUFFICES ASSUME NEW k \in r.children[a], NEW l \in r.children[b],
                        man[k].rows = man[l].rows
                 PROVE  Tree[k] = Tree[l]
      OBVIOUS
    <3>1. k \in D /\ l \in D /\ man[k].ok /\ man[l].ok
      BY <2>1 DEF Complete
    <3>2. k \in P
      BY <1>3, <1>6, <3>1
    <3> QED
      BY <3>1, <3>2
  <2>3. /\ EntriesOf(a) \subseteq EntriesOf(b)
        /\ {<<DirName[k], Tree[k]>> : k \in Subfolders(a)}
             \subseteq {<<DirName[k], Tree[k]>> : k \in Subfolders(b)}
    BY <2>1, <2>2, HoldsNoLess
  <2>4. /\ EntriesOf(b) \subseteq EntriesOf(a)
        /\ {<<DirName[k], Tree[k]>> : k \in Subfolders(b)}
             \subseteq {<<DirName[k], Tree[k]>> : k \in Subfolders(a)}
    <3>1. \A k \in r.children[b], l \in r.children[a] :
            man[k].rows = man[l].rows => Tree[k] = Tree[l]
      BY <2>2
    <3> QED
      BY <2>1, <3>1, HoldsNoLess
  <2>5. TreeOf(Tree, a) = TreeOf(Tree, b)
    BY <2>3, <2>4 DEF TreeOf
  <2> QED
    BY <1>1, <2>5, TreeIs
<1>7. D \subseteq P
  <2> DEFINE X == {S \in SUBSET D : S \subseteq P}
  <2>1. {} \in X
    OBVIOUS
  <2>2. \A S \in SUBSET D : \A d \in D \ S :
          S \in X /\ (\A k \in D : ParentOf[k] = d => k \in S) => S \cup {d} \in X
    <3> HIDE DEF P
    <3> QED
      BY <1>6
  <2>3. D \in X
    <3> HIDE DEF X
    <3> QED
      BY <1>1, <2>1, <2>2, UpTheTree
  <2> QED
    BY <2>3
<1> SUFFICES ASSUME NEW g \in DirGroupsOf(man), NEW a \in g, NEW b \in g
             PROVE  Tree[a] = Tree[b]
  BY DEF man
<1>8. /\ a \in D /\ b \in D /\ man[a].ok /\ man[b].ok /\ man[a].rows = man[b].rows
  BY <1>4, InOneGroup
<1> QED
  BY <1>7, <1>8

-----------------------------------------------------------------------------
(* While nobody else acts, a step leaves the disk *)

LEMMA RemovedNext ==
  ASSUME QInv, [Next]_vars
  PROVE  /\ phase' = "loaded" => removed' = {}
         /\ phase' = "recompute" => removed' # {}
         /\ removed' = {} => removed = {} /\ \A ps \in Removable : ~RemovePaths(ps)
<1>1. \A ps \in Removable : ps # {}
  BY DEF Removable
<1>2. CASE \E ps \in Removable : RemovePaths(ps)
  BY <1>1, <1>2 DEF RemovePaths
<1>3. CASE ~ \E ps \in Removable : RemovePaths(ps)
  <2>1. /\ removed' = removed
        /\ phase' = "loaded" => phase = "loaded" \/ LoadSaved
        /\ phase' = "recompute" => phase = "recompute"
    BY <1>3 DEF Next, WorkerStep, BeginScan, BeginRefresh, SeedCache, RefreshStopped,
           ListDir, StatEntry, MergeDir, WalkCancelled, BySize, TakeFile, Acquire,
           ProveBefore, ReadFile, ProveAfter, ProbeDone, FullDone,
           Aggregate, SaveScan, ScanFailed, PairScanned, RefreshScanned, SaveRefreshed, AnswerRefresh,
           Recompute, LoadSaved, LoadRefused, Tick, Cancel, Pause, Resume,
           EditFile, SaveOver, DeleteFile, SwapRoot, SwapBack, Outside, Stop, vars, ends
  <2> QED
    BY <1>3, <2>1 DEF QInv, LoadSaved
<1> QED
  BY <1>2, <1>3

LEMMA QuietStep ==
  ASSUME DiskKept, QInv, [Next]_vars, Still'
  PROVE  /\ Still /\ layout' = layout /\ UNCHANGED OnDisk
         /\ \A ps \in Removable : ~RemovePaths(ps)
<1>1. events \in Nat /\ events' = 0
  BY ScanAssumption DEF DiskKept, Still
<1>2. events' = events \/ events' = events + 1
  BY DEF Next, WorkerStep, BeginScan, BeginRefresh, OpenCache, SeedCache, RefreshStopped,
         ListDir, StatEntry, MergeDir, WalkCancelled, BySize, TakeFile, Acquire,
         ProveBefore, ReadFile, ProveAfter, Finish, ProbeDone, FullDone, CachePut,
         Aggregate, SaveScan, ScanFailed, PairScanned, RefreshScanned, SaveRefreshed, AnswerRefresh,
         Recompute, LoadSaved, LoadRefused, Tick, RemovePaths, Cancel, Pause, Resume,
         EditFile, SaveOver, DeleteFile, SwapRoot, SwapBack, Outside, Stop, vars, disk
<1>3. events = 0 /\ events' # events + 1
  BY <1>1, <1>2
<1>4. removed = {} /\ (\A ps \in Removable : ~RemovePaths(ps)) /\ ~away /\ ~returned
  BY RemovedNext, <1>3 DEF Still, DiskKept
<1>5. /\ \A i \in Inodes, c \in Contents : ~EditFile(i, c)
      /\ \A p : ~SaveOver(p) /\ ~DeleteFile(p)
      /\ ~SwapRoot /\ ~SwapBack
  BY <1>3 DEF DiskKept, EditFile, SaveOver, DeleteFile, SwapRoot, SwapBack, Outside
<1>6. CASE Aside
  <2>1. layout' = layout
    BY <1>6, AsideLeaves
  <2>2. UNCHANGED OnDisk
    BY <1>4, <1>5, <1>6 DEF Aside, BeginRefresh, OpenCache, RefreshStopped, SaveScan, ScanFailed,
           PairScanned, RefreshScanned, SaveRefreshed, AnswerRefresh, LoadRefused, Cancel, Pause, Resume,
           Stop, OnDisk, vars, disk
  <2> QED
    BY <1>3, <1>4, <2>1, <2>2 DEF Still
<1>7. CASE ~Aside
  <2>1. UNCHANGED <<layout, OnDisk>>
    BY <1>7, Steps, WorkLeaves DEF OnDisk
  <2> QED
    BY <1>3, <1>4, <2>1 DEF Still
<1> QED
  BY <1>6, <1>7

LEMMA TreeStays ==
  ASSUME UNCHANGED <<entry, folders, content>>
  PROVE  Tree' = Tree
BY DEF Tree, Subfolders

-----------------------------------------------------------------------------
(* The stages of the funnel, in one *)

LEMMA FunnelStep ==
  ASSUME Inv, BySize \/ ProbeDone \/ FullDone
  PROVE  \E ps \in SUBSET DOMAIN res.meta : \E new :
           /\ res' = Funnelled(res, ps, new)
           /\ \A p \in DOMAIN new : Shared(new[p]) \/ new[p] = Unique(p)
<1>0. \A n, c : Shared(Class(n, c))
  BY DEF Shared, Class
<1>1. CASE BySize
  <2> DEFINE files == DOMAIN res.meta
             size(p) == res.meta[p].size
             zero  == {p \in files : size(p) = 0}
             still == {p \in zero : Here(p) /\ Kind[entry[p]] = "file"
                                    /\ SizeOf[content[entry[p]]] = 0}
             lone  == {p \in files \ zero : \A q \in files \ {p} : size(q) # size(p)}
             known == Over([p \in still |-> Class(0, Empty)], UniqueClass(lone))
  <2>1. res' = Funnelled(res, zero \ still, known)
    BY <1>1, Zenon DEF BySize, Funnelled
  <2>2. \A p \in DOMAIN known : known[p] = Class(0, Empty) \/ known[p] = Unique(p)
    BY DEF Over, UniqueClass
  <2>3. zero \ still \in SUBSET files
    OBVIOUS
  <2> HIDE DEF known, still, zero
  <2> QED
    BY <1>0, <2>1, <2>2, <2>3
<1>2. ASSUME NEW known, res' = Collected(known)
      PROVE  \E ps \in SUBSET DOMAIN res.meta : \E new :
               /\ res' = Funnelled(res, ps, new)
               /\ \A p \in DOMAIN new : Shared(new[p]) \/ new[p] = Unique(p)
  <2> DEFINE errors == {p \in DOMAIN found : found[p] = Error}
             blank  == {p \in DOMAIN found : found[p] = None}
             new == Over([p \in known |-> ClassFound(p)], UniqueClass(blank \cup Lone))
  <2>1. res' = Funnelled(res, errors, new)
    BY <1>2 DEF Collected, Funnelled
  <2>2. errors \in SUBSET DOMAIN res.meta
    BY DEF Inv, Jobs
  <2>3. \A p \in DOMAIN new : (\E n, c : new[p] = Class(n, c)) \/ new[p] = Unique(p)
    BY DEF Over, UniqueClass, ClassFound
  <2> HIDE DEF new, errors
  <2> QED
    BY <1>0, <2>1, <2>2, <2>3
<1>3. ProbeDone => res' = Collected(Settled)
  BY DEF ProbeDone
<1>4. FullDone => res' = Collected(HashedFiles \ Lone)
  BY DEF FullDone
<1> QED
  BY <1>1, <1>2, <1>3, <1>4

LEMMA FunnelledOwn ==
  ASSUME NEW r, ResultTrue(r), OwnClass(r), NEW ps \in SUBSET DOMAIN r.meta, NEW new,
         \A p \in DOMAIN new : Shared(new[p]) \/ new[p] = Unique(p)
  PROVE  /\ OwnClass(Funnelled(r, ps, new))
         /\ DOMAIN Funnelled(r, ps, new).ok = DOMAIN r.ok
         /\ Copied(r) => Copied(Funnelled(r, ps, new))
<1> DEFINE q == Funnelled(r, ps, new)
<1>1. /\ q.class = Over(new, Over(UniqueClass(ps), r.class))
      /\ q.ok = Over(Unproven(ps), r.ok) /\ q.meta = r.meta /\ q.children = r.children
      /\ q.links = r.links /\ q.aliases = r.aliases
  <2>1. Shape(r)
    BY DEF ResultTrue
  <2> QED
    BY <2>1, FunnelledKeeps
<1> HIDE DEF q
<1>2. FoldersOf(ps) \subseteq DOMAIN r.ok
  BY DEF ResultTrue, File, FoldersOf
<1>3. /\ DOMAIN q.ok = DOMAIN r.ok
      /\ \A d \in DOMAIN r.ok : q.ok[d] = FALSE \/ q.ok[d] = r.ok[d]
  BY <1>1, <1>2 DEF Over, Unproven
<1>4. /\ DOMAIN q.class = DOMAIN new \cup ps \cup DOMAIN r.class
      /\ \A p \in DOMAIN q.class : q.class[p] = IF p \in DOMAIN new THEN new[p]
                                              ELSE IF p \in ps THEN Unique(p) ELSE r.class[p]
  BY <1>1 DEF Over, UniqueClass
<1>5. OwnClass(q)
  BY <1>4 DEF OwnClass
<1>6. ASSUME Copied(r) PROVE Copied(q)
  <2>1. \A d : Exact(r, d) => Exact(q, d)
    BY <1>1 DEF Exact, Entered
  <2> QED
    BY <1>1, <1>3, <1>6, <2>1 DEF Copied
<1> QED
  BY <1>3, <1>5, <1>6 DEF q

\* What is published or read back is what was found.
LEMMA SameFactsOwn ==
  ASSUME NEW r, NEW q, Shape(q), Facts(q) = Facts(r)
  PROVE  /\ OwnClass(r) => OwnClass(q)
         /\ Copied(r) => Copied(q)
<1>1. /\ q.meta = r.meta /\ q.class = r.class /\ q.ok = r.ok
      /\ q.children = r.children /\ q.links = r.links /\ q.aliases = r.aliases
  BY SameFacts
<1>2. OwnClass(r) => OwnClass(q)
  BY <1>1 DEF OwnClass
<1>3. \A d : Exact(r, d) => Exact(q, d)
  BY <1>1 DEF Exact, Entered
<1>4. Copied(r) => Copied(q)
  BY <1>1, <1>3 DEF Copied
<1> QED
  BY <1>2, <1>4

-----------------------------------------------------------------------------
(* Every step keeps what is true of an undisturbed scan *)

LEMMA OpensNext ==
  ASSUME Inv, QInv, [Next]_vars
  PROVE  Opens'
<1>1. layout' = layout /\ Opens /\ folders \subseteq layout.folders
  BY DiskNext DEF Inv, DiskStep, DiskKept, QInv
<1>2. ASSUME DOMAIN opened' \cup DOMAIN res'.ok \subseteq DOMAIN opened \cup DOMAIN res.ok
      PROVE  Opens'
  BY <1>1, <1>2 DEF Opens
<1>3. ASSUME NEW d \in Dirs, ListDir(d) PROVE Opens'
  <2>1. res' = res
    BY <1>3, WorkLeaves
  <2>2. \/ opened' = opened
        \/ d \in folders \cup layout.roots /\ DOMAIN opened' = DOMAIN opened \cup {d}
    BY <1>3 DEF ListDir, Put
  <2> QED
    BY <1>1, <2>1, <2>2 DEF Opens
<1>4. ASSUME NEW d \in Dirs, StatEntry(d) PROVE Opens'
  <2>1. DOMAIN opened' = DOMAIN opened /\ res' = res
    BY <1>4, WorkLeaves DEF StatEntry
  <2> QED
    BY <1>2, <2>1
<1>5. ASSUME NEW d \in Dirs, MergeDir(d) PROVE Opens'
  <2>1. d \in DOMAIN opened /\ DOMAIN opened' \subseteq DOMAIN opened
    BY <1>5 DEF MergeDir, Restrict
  <2>2. DOMAIN res'.ok = DOMAIN res.ok \cup {d}
    BY <1>5, MergeDirTrue
  <2> QED
    BY <1>2, <2>1, <2>2
<1>6. CASE WalkCancelled
  BY <1>2, <1>6, AggregateTrue DEF WalkCancelled, Map0
<1>7. CASE BySize \/ ProbeDone \/ FullDone \/ Aggregate \/ LoadSaved
  <2>1. UNCHANGED opened
    BY <1>7, WorkLeaves
  <2>2. DOMAIN res'.ok = DOMAIN res.ok
    BY <1>7, BySizeTrue, ProbeDoneTrue, FullDoneTrue, AggregateTrue
  <2> QED
    BY <1>2, <2>1, <2>2
<1>8. CASE Recompute
  <2>1. UNCHANGED opened /\ (cancel => res' = res)
    BY <1>8, WorkLeaves DEF Recompute
  <2> QED
    BY <1>2, <1>8, <2>1, RecomputeTrue
<1>9. \/ UNCHANGED <<opened, res>>
      \/ \E d \in Dirs : ListDir(d) \/ StatEntry(d) \/ MergeDir(d)
      \/ WalkCancelled \/ BySize \/ ProbeDone \/ FullDone \/ Aggregate \/ LoadSaved
      \/ Recompute
  BY Steps, AsideLeaves, WorkLeaves DEF Work
<1> QED
  BY <1>2, <1>3, <1>4, <1>5, <1>6, <1>7, <1>8, <1>9

\* What is shown is computed from what was found, and nothing of that changes.
LEMMA ShownFrom ==
  ASSUME Inv, WalkCancelled \/ Aggregate \/ LoadSaved
  PROVE  /\ Shape(res') /\ Facts(res') = Facts(res)
         /\ \/ res'.dirGroups = {}
            \/ \E r : /\ Shape(r) /\ Facts(r) = Facts(res)
                      /\ res'.dirGroups = DirGroupsOf(Manifests(r))
<1>1. Shape(res)
  BY DEF Inv, ResultTrue
<1>2. CASE WalkCancelled \/ (Aggregate /\ cancel)
  <2>1. res' = PartlyPublished(res)
    BY <1>2 DEF WalkCancelled, Aggregate
  <2> QED
    BY <1>1, <2>1, PublishedKeeps
<1>3. CASE Aggregate /\ ~cancel
  <2>1. res' = Aggregated(res, Manifests(res))
    BY <1>3 DEF Aggregate
  <2>2. PICK man : man = Manifests(res)
    OBVIOUS
  <2>3. Shape(res') /\ Facts(res') = Facts(res) /\ res'.dirGroups = DirGroupsOf(man)
    BY <1>1, <2>1, <2>2, PublishedKeeps
  <2> QED
    BY <1>1, <2>2, <2>3
<1>4. CASE LoadSaved
  <2>1. PICK r : r = Reread
    OBVIOUS
  <2>2. res' = Aggregated(r, Manifests(r))
    BY <1>4, <2>1 DEF LoadSaved
  <2>3. PICK man : man = Manifests(r)
    OBVIOUS
  <2>4. Shape(r) /\ Facts(r) = Facts(res)
    BY <2>1, ReadBackKeeps DEF Reread
  <2>5. Shape(res') /\ Facts(res') = Facts(r) /\ res'.dirGroups = DirGroupsOf(man)
    BY <2>2, <2>3, <2>4, PublishedKeeps
  <2> QED
    BY <2>3, <2>4, <2>5
<1> QED
  BY <1>2, <1>3, <1>4

LEMMA OwnNext ==
  ASSUME Inv, QInv, [Next]_vars
  PROVE  OwnClass(res')
<1>1. OwnClass(res) /\ ResultTrue(res) /\ Shape(res)
  BY DEF QInv, Inv, ResultTrue
<1>2. ASSUME NEW d \in Dirs, MergeDir(d) PROVE OwnClass(res')
  BY <1>2, MergeDirTrue DEF OwnClass
<1>3. CASE WalkCancelled \/ Aggregate \/ LoadSaved
  BY <1>1, <1>3, ShownFrom, SameFactsOwn
<1>4. CASE BySize \/ ProbeDone \/ FullDone
  BY <1>1, <1>4, FunnelStep, FunnelledOwn
<1>5. CASE Recompute /\ ~cancel
  <2>1. PICK r : r = Pruned(res, removed)
    OBVIOUS
  <2>2. PICK man : res' = Aggregated(r, man)
    BY <1>5, <2>1 DEF Recompute
  <2>3. /\ Shape(r) /\ DOMAIN r.class \subseteq DOMAIN res.class
        /\ \A p \in DOMAIN r.class : r.class[p] = res.class[p]
    BY <1>1, <2>1, PrunedKeeps
  <2>4. OwnClass(r)
    BY <1>1, <2>3 DEF OwnClass
  <2>5. Shape(res') /\ Facts(res') = Facts(r)
    BY <2>2, <2>3, PublishedKeeps
  <2> QED
    BY <2>4, <2>5, SameFactsOwn
<1>6. \/ res' = res \/ \E d \in Dirs : MergeDir(d)
      \/ BySize \/ ProbeDone \/ FullDone \/ WalkCancelled \/ Aggregate \/ LoadSaved
      \/ Recompute /\ ~cancel
  BY Steps, AsideLeaves, WorkLeaves DEF Work, Recompute
<1> QED
  BY <1>1, <1>2, <1>3, <1>4, <1>5, <1>6

\* A folder that was listed and is merged.
LEMMA NamesHere ==
  ASSUME DiskKept, SeenHere, phase = "walk", NEW d, NEW o, Listing(d, o), Truly(d, o)
  PROVE  \A s \in Taken(o.got) :
           /\ Here(s.path) /\ entry[s.path] = s.id[1] /\ Kind[entry[s.path]] = "file"
           /\ Here(Canonical(o.got, s)) /\ entry[Canonical(o.got, s)] = s.id[1]
<1>1. ASSUME NEW s \in Taken(o.got)
      PROVE  Here(s.path) /\ entry[s.path] = s.id[1] /\ Kind[entry[s.path]] = "file"
  BY DEF Taken, Truly, Mirrored, Id
<1>2. \A i \in DOMAIN seen : Here(seen[i]) /\ entry[seen[i]] = i
  BY DEF SeenHere
<1>3. ASSUME NEW s \in Taken(o.got)
      PROVE  Here(Canonical(o.got, s)) /\ entry[Canonical(o.got, s)] = s.id[1]
  BY <1>1, <1>2, CanonicalTaken
<1> QED
  BY <1>1, <1>3

LEMMA MergedExact ==
  ASSUME DiskKept, Stayed, SeenHere, phase = "walk", NEW d, NEW o, Listing(d, o), Truly(d, o),
         o.left = {}, ManifestWhole(o), Shape(res), NEW q, q = MergedDir(d, o)
  PROVE  Exact(q, d)
<1>1. /\ q.meta = Over(FreshMeta(o), res.meta) /\ q.children[d] = o.subs
      /\ q.links[d] = LinksOf(o) /\ q.aliases[d] = AliasesOf(o)
  <2>1. /\ q.meta = Over(FreshMeta(o), res.meta) /\ q.children = Put(res.children, d, o.subs)
        /\ q.links = Put(res.links, d, LinksOf(o))
        /\ q.aliases = Put(res.aliases, d, AliasesOf(o))
    BY ZenonT(60), MergedKeeps
  <2> QED
    BY <2>1 DEF Put
<1>2. /\ \A s \in Taken(o.got) :
           /\ Here(s.path) /\ entry[s.path] = s.id[1] /\ Kind[entry[s.path]] = "file"
           /\ Here(Canonical(o.got, s)) /\ entry[Canonical(o.got, s)] = s.id[1]
  BY NamesHere
<1>3. o.subs = Subfolders(d)
  BY DEF ManifestWhole, Truly
<1>4. ASSUME NEW p \in DOMAIN entry, p[1] = d PROVE Entered(q, d, p)
  <2>1. PICK s \in o.got : s.path = p
    BY <1>4 DEF Listing
  <2>2. /\ s.kind = Kind[entry[p]] /\ s.data = content[entry[p]] /\ ~Filtered(s)
        /\ s.kind \notin {"special", "cloud"}
    BY <2>1 DEF Truly, Mirrored, ManifestWhole, NotRead
  <2>3. Kind[entry[p]] \in {"file", "link", "special", "cloud"}
    BY ScanAssumption DEF DiskKept
  <2>4. CASE s.kind = "link"
    BY <1>1, <2>1, <2>2, <2>4 DEF Entered, LinksOf
  <2>5. CASE s.kind = "file"
    <3>1. s \in Taken(o.got)
      BY <2>2, <2>5 DEF Taken
    <3>2. CASE s \in Fresh(o)
      <4>1. p \in DOMAIN FreshMeta(o)
        BY <2>1, <3>2 DEF FreshMeta
      <4> QED
        BY <1>1, <4>1 DEF Entered, Over
    <3>3. CASE s \notin Fresh(o)
      <4>1. <<p, Canonical(o.got, s)>> \in AliasesOf(o)
        BY <2>1, <3>1, <3>3 DEF AliasesOf
      <4> QED
        BY <1>1, <4>1 DEF Entered
    <3> QED
      BY <3>2, <3>3
  <2> QED
    BY <2>2, <2>3, <2>4, <2>5
<1>5. ASSUME NEW l \in LinksOf(o)
      PROVE  \E p \in DOMAIN entry :
               p[1] = d /\ Kind[entry[p]] = "link" /\ l = <<"L", p[2], content[entry[p]]>>
  <2>1. PICK s \in o.got : s.kind = "link" /\ l = <<"L", s.path[2], s.data>>
    BY DEF LinksOf
  <2>2. /\ Here(s.path) /\ Kind[entry[s.path]] = "link" /\ s.data = content[entry[s.path]]
        /\ s.path[1] = d
    BY <2>1 DEF Truly, Mirrored, Listing
  <2> QED
    BY <2>1, <2>2 DEF Here
<1>6. AliasesOf(o) \subseteq (DOMAIN entry) \X (DOMAIN entry)
  BY <1>2 DEF AliasesOf, Fresh, Here
<1>7. \A a \in AliasesOf(o) : entry[a[1]] = entry[a[2]]
  BY <1>2 DEF AliasesOf, Fresh
<1>8. ASSUME NEW a \in AliasesOf(o), NEW b \in AliasesOf(o), a[1] = b[1] PROVE a = b
  <2>1. PICK s \in Taken(o.got) : a = <<s.path, Canonical(o.got, s)>>
    BY DEF AliasesOf
  <2>2. PICK t \in Taken(o.got) : b = <<t.path, Canonical(o.got, t)>>
    BY DEF AliasesOf
  <2>3. s = t
    BY <1>8, <2>1, <2>2 DEF Taken, Listing
  <2> QED
    BY <2>1, <2>2, <2>3
<1> QED
  BY <1>1, <1>3, <1>4, <1>5, <1>6, <1>7, <1>8 DEF Exact

LEMMA MergedCopied ==
  ASSUME DiskKept, Stayed, SeenHere, phase = "walk", NEW d, NEW o, Listing(d, o), Truly(d, o),
         o.left = {}, Shape(res), Maps(res), Copied(res), NEW q, q = MergedDir(d, o)
  PROVE  Copied(q)
<1>1. /\ q.meta = Over(FreshMeta(o), res.meta)
      /\ q.ok = Put(res.ok, d, ManifestWhole(o))
      /\ q.children = Put(res.children, d, o.subs)
      /\ q.links = Put(res.links, d, LinksOf(o))
      /\ q.aliases = Put(res.aliases, d, AliasesOf(o))
  BY ZenonT(120), MergedKeeps
<1>2. ASSUME NEW p \in DOMAIN FreshMeta(o)
      PROVE  Here(p) /\ FreshMeta(o)[p].id = Id(entry[p]) /\ Kind[entry[p]] = "file"
  <2>1. \E s \in Fresh(o) : s.path = p
    BY DEF FreshMeta
  <2> DEFINE s == CHOOSE t \in Fresh(o) : t.path = p
  <2>2. s \in Fresh(o) /\ s.path = p
    BY <2>1
  <2>3. FreshMeta(o)[p].id = s.id
    BY DEF FreshMeta
  <2> HIDE DEF s
  <2>4. s \in o.got /\ s.kind = "file"
    BY <2>2 DEF Fresh, Taken
  <2> QED
    BY <2>2, <2>3, <2>4 DEF Truly, Mirrored
<1>3. \A p \in DOMAIN q.meta :
        Here(p) /\ q.meta[p].id = Id(entry[p]) /\ Kind[entry[p]] = "file"
  BY <1>1, <1>2 DEF Over, Copied
<1>4. ManifestWhole(o) \in BOOLEAN
  BY DEF ManifestWhole
<1>5. ManifestWhole(o) => Exact(q, d)
  BY MergedExact
<1>6. ASSUME NEW e \in DOMAIN res.ok, e # d, Exact(res, e) PROVE Exact(q, e)
  <2>1. /\ q.children[e] = res.children[e] /\ q.links[e] = res.links[e]
        /\ q.aliases[e] = res.aliases[e] /\ DOMAIN res.meta \subseteq DOMAIN q.meta
    BY <1>1, <1>6 DEF Put, Over, Maps
  <2>2. \A p : Entered(res, e, p) => Entered(q, e, p)
    BY <2>1 DEF Entered
  <2> QED
    BY <1>6, <2>1, <2>2 DEF Exact
<1> QED
  BY <1>1, <1>3, <1>4, <1>5, <1>6 DEF Copied, Put

LEMMA WalkedAfter ==
  ASSUME UNCHANGED OnDisk, \A d \in DOMAIN opened' : Truly(d, opened'[d])
  PROVE  Walked'
BY DEF OnDisk, Walked, Truly, Mirrored, Here, Id, Subfolders

LEMMA CopiedAfter ==
  ASSUME UNCHANGED OnDisk, Copied(res')
  PROVE  Copied(res)'
BY DEF OnDisk, Copied, Exact, Entered, Here, Id, Subfolders

LEMMA WalkedNext ==
  ASSUME Inv, Stayed, Walked, UNCHANGED OnDisk, [Next]_vars
  PROVE  Walked'
<1>1. CASE opened' = opened
  BY <1>1, WalkedAfter DEF Walked
<1>2. ASSUME NEW d \in Dirs, ListDir(d) PROVE Walked'
  <2> DEFINE o == Listed(d)
  <2>1. opened' = opened \/ opened' = Put(opened, d, o)
    BY <1>2 DEF ListDir
  <2>2. Truly(d, o)
    BY DEF Truly, Listed, Stayed
  <2> HIDE DEF o
  <2> QED
    BY <2>1, <2>2, WalkedAfter DEF Walked, Put
<1>3. ASSUME NEW d \in Dirs, StatEntry(d) PROVE Walked'
  <2> DEFINE o == opened[d]
             p == CHOOSE q \in o.left : \A s \in o.left : q[2] <= s[2]
             i == entry[p]
             st == [path |-> p, kind |-> Kind[i], id |-> Id(i), nlink |-> Links(i),
                    data |-> content[i]]
             rest == [o EXCEPT !.left = o.left \ {p}]
             new == IF Here(p) THEN [rest EXCEPT !.got = rest.got \cup {st}]
                               ELSE [rest EXCEPT !.ok = FALSE, !.err = TRUE]
  <2>1. d \in DOMAIN opened /\ opened' = [opened EXCEPT ![d] = new]
    BY <1>3 DEF StatEntry
  <2>2. /\ o = [left |-> o.left, got |-> o.got, subs |-> o.subs, ok |-> o.ok, err |-> o.err]
        /\ Truly(d, o)
    BY <2>1 DEF Inv, Listings, Listing, Walked
  <2> HIDE DEF p
  <2>3. CASE Here(p)
    <3>1. new = [left |-> o.left \ {p}, got |-> o.got \cup {st}, subs |-> o.subs,
                 ok |-> o.ok, err |-> o.err]
      BY <2>2, <2>3
    <3>2. new.got = o.got \cup {st} /\ new.subs = o.subs /\ new.ok = o.ok
      BY <3>1
    <3>3. Mirrored(st)
      BY <2>3 DEF Mirrored
    <3> HIDE DEF new, st
    <3>4. Truly(d, new)
      BY <2>2, <3>2, <3>3 DEF Truly
    <3> QED
      BY <2>1, <3>4, WalkedAfter DEF Walked
  <2>4. CASE ~Here(p)
    <3>1. new = [left |-> o.left \ {p}, got |-> o.got, subs |-> o.subs,
                 ok |-> FALSE, err |-> TRUE]
      BY <2>2, <2>4
    <3>2. new.got = o.got /\ new.ok = FALSE
      BY <3>1
    <3> HIDE DEF new
    <3>3. Truly(d, new)
      BY <2>2, <3>2 DEF Truly
    <3> QED
      BY <2>1, <3>3, WalkedAfter DEF Walked
  <2> QED
    BY <2>3, <2>4
<1>4. ASSUME NEW d \in Dirs, MergeDir(d) PROVE Walked'
  <2>1. \A e \in DOMAIN opened' : e \in DOMAIN opened /\ opened'[e] = opened[e]
    BY <1>4 DEF MergeDir, Restrict
  <2> QED
    BY <2>1, WalkedAfter DEF Walked
<1>5. CASE WalkCancelled
  <2>1. DOMAIN opened' = {}
    BY <1>5 DEF WalkCancelled, Map0
  <2> QED
    BY <2>1, WalkedAfter
<1>6. \/ opened' = opened \/ \E d \in Dirs : ListDir(d) \/ StatEntry(d) \/ MergeDir(d)
      \/ WalkCancelled
  BY Steps, AsideLeaves, WorkLeaves DEF Work
<1> QED
  BY <1>1, <1>2, <1>3, <1>4, <1>5, <1>6

LEMMA CopiedNext ==
  ASSUME Inv, QInv, Still, UNCHANGED OnDisk, [Next]_vars
  PROVE  Copied(res)'
<1>1. /\ Copied(res) /\ Walked /\ SeenHere /\ OwnClass(res) /\ phase # "recompute"
      /\ DiskKept /\ ResultTrue(res) /\ Shape(res) /\ Maps(res) /\ Stayed
  BY DEF QInv, Still, Inv, ResultTrue, Stayed
<1>2. CASE res' = res
  BY <1>1, <1>2, CopiedAfter
<1>3. ASSUME NEW d \in Dirs, MergeDir(d) PROVE Copied(res)'
  <2>1. PICK o : o = opened[d]
    OBVIOUS
  <2>2. /\ phase = "walk" /\ d \in DOMAIN opened /\ o.left = {}
        /\ res' = MergedDir(d, o)
    BY <1>3, <2>1 DEF MergeDir
  <2>3. Listing(d, o) /\ Truly(d, o)
    BY <1>1, <2>1, <2>2 DEF Inv, Listings, Walked
  <2>4. Copied(res')
    BY <1>1, <2>2, <2>3, MergedCopied
  <2> QED
    BY <2>4, CopiedAfter
<1>4. CASE WalkCancelled \/ Aggregate \/ LoadSaved
  <2>1. Copied(res')
    BY <1>1, <1>4, ShownFrom, SameFactsOwn
  <2> QED
    BY <2>1, CopiedAfter
<1>5. CASE BySize \/ ProbeDone \/ FullDone
  <2>1. Copied(res')
    BY <1>1, <1>5, FunnelStep, FunnelledOwn
  <2> QED
    BY <2>1, CopiedAfter
<1>6. ~Recompute
  BY <1>1 DEF Recompute
<1>7. \/ res' = res \/ \E d \in Dirs : MergeDir(d)
      \/ BySize \/ ProbeDone \/ FullDone \/ WalkCancelled \/ Aggregate \/ LoadSaved
  BY <1>6, Steps, AsideLeaves, WorkLeaves DEF Work
<1> QED
  BY <1>2, <1>3, <1>4, <1>5, <1>7

LEMMA SeenHereNext ==
  ASSUME Inv, Walked, SeenHere, UNCHANGED OnDisk, [Next]_vars
  PROVE  SeenHere'
<1>1. phase' \in {"start", "seed", "walk"} => phase \in {"start", "seed", "walk"}
  BY BeginningLeft
<1>2. CASE seen' = seen
  BY <1>1, <1>2 DEF SeenHere, OnDisk, Here
<1>3. ASSUME NEW d \in Dirs, MergeDir(d) PROVE SeenHere'
  <2>1. PICK o : o = opened[d]
    OBVIOUS
  <2>0. /\ phase = "walk" /\ d \in DOMAIN opened
        /\ seen' = Over([i \in {s.id[1] : s \in {t \in Taken(o.got) : t.nlink > 1}}
                           |-> Canonical(o.got, CHOOSE s \in Taken(o.got) : s.id[1] = i)],
                        seen)
    BY <1>3, <2>1 DEF MergeDir
  <2> DEFINE ids == {s.id[1] : s \in {t \in Taken(o.got) : t.nlink > 1}}
             of(i) == CHOOSE s \in Taken(o.got) : s.id[1] = i
             name(i) == Canonical(o.got, of(i))
  <2>2. /\ phase = "walk" /\ d \in DOMAIN opened
        /\ seen' = Over([i \in ids |-> name(i)], seen)
    BY <2>0, Zenon
  <2>3. Listing(d, o) /\ Truly(d, o) /\ DiskKept
    BY <2>1, <2>2 DEF Inv, Listings, Walked
  <2>4. ASSUME NEW i \in ids PROVE Here(name(i)) /\ entry[name(i)] = i
    <3>1. \E s \in Taken(o.got) : s.id[1] = i
      OBVIOUS
    <3>2. of(i) \in Taken(o.got) /\ of(i).id[1] = i
      BY <3>1
    <3> HIDE DEF of
    <3> QED
      BY <2>2, <2>3, <3>2, NamesHere
  <2> HIDE DEF name, ids
  <2>5. \A i \in DOMAIN seen' : Here(seen'[i]) /\ entry[seen'[i]] = i
    BY <2>2, <2>4 DEF Over, SeenHere
  <2> QED
    BY <2>5 DEF SeenHere, OnDisk, Here
<1>4. seen' = seen \/ \E d \in Dirs : MergeDir(d)
  BY Steps, AsideLeaves, WorkLeaves DEF Work, BySize, ProbeDone, FullDone
<1> QED
  BY <1>2, <1>3, <1>4

\* The groups come with the result and stay while it is shown.
LEMMA ShownAfter ==
  ASSUME [Next]_vars, phase' \in {"scanned", "save", "answer", "done", "loaded"}, phase # "recompute"
  PROVE  \/ phase \in {"scanned", "save", "answer", "done", "loaded"}
         \/ WalkCancelled \/ Aggregate
BY DEF Next, WorkerStep, BeginScan, BeginRefresh, SeedCache, RefreshStopped,
       ListDir, StatEntry, MergeDir, BySize, TakeFile, Acquire,
       ProveBefore, ReadFile, ProveAfter, ProbeDone, FullDone, Gated,
       SaveScan, ScanFailed, PairScanned, RefreshScanned, SaveRefreshed, AnswerRefresh,
       Recompute, LoadSaved, LoadRefused, Tick, RemovePaths, Cancel, Pause, Resume,
       EditFile, SaveOver, DeleteFile, SwapRoot, SwapBack, Outside, Stop, vars, disk, Final

LEMMA GroupedNext ==
  ASSUME Inv, QInv, Still, UNCHANGED OnDisk, [Next]_vars
  PROVE  Grouped'
<1>1. /\ Copied(res) /\ OwnClass(res) /\ Grouped /\ phase # "recompute"
      /\ DiskKept /\ History /\ ResultTrue(res) /\ Opens
  BY DEF QInv, Still, Inv
<1>2. Tree' = Tree
  BY TreeStays DEF OnDisk
<1>3. ASSUME \A g \in res'.dirGroups : \A a, b \in g : Tree[a] = Tree[b]
      PROVE  Grouped'
  BY <1>2, <1>3 DEF Grouped, SameInGroups
<1>4. CASE WalkCancelled \/ Aggregate \/ LoadSaved
  <2>1. CASE res'.dirGroups = {}
    BY <1>3, <2>1
  <2>2. ASSUME NEW r, Shape(r), Facts(r) = Facts(res), res'.dirGroups = DirGroupsOf(Manifests(r))
        PROVE  Grouped'
    <3>1. /\ ResultTrue(r) /\ Copied(r) /\ OwnClass(r) /\ r.ok = res.ok
      BY <1>1, <2>2, SameFacts, SameFactsOwn
    <3>2. DOMAIN r.ok \subseteq layout.roots \cup layout.folders
      BY <1>1, <3>1 DEF Opens
    <3>3. \A g \in DirGroupsOf(Manifests(r)) : \A a, b \in g : Tree[a] = Tree[b]
      BY <1>1, <3>1, <3>2, OneManifestOneTree
    <3> QED
      BY <1>3, <2>2, <3>3
  <2> QED
    BY <1>4, <2>1, <2>2, ShownFrom
<1>5. CASE ~(WalkCancelled \/ Aggregate \/ LoadSaved)
  <2> SUFFICES ASSUME phase' \in {"scanned", "save", "answer", "done", "loaded"} PROVE Grouped'
    BY DEF Grouped
  <2>1. phase \in {"scanned", "save", "answer", "done", "loaded"}
    BY <1>1, <1>5, ShownAfter
  <2>2. /\ ~BySize /\ ~ProbeDone /\ ~FullDone /\ ~Recompute /\ \A d : ~MergeDir(d)
    BY <2>1 DEF BySize, ProbeDone, FullDone, Recompute, MergeDir
  <2>3. res' = res
    BY <1>5, <2>2, Steps, AsideLeaves, WorkLeaves DEF Work
  <2> QED
    BY <1>1, <1>3, <2>1, <2>3 DEF Grouped, SameInGroups
<1> QED
  BY <1>4, <1>5

LEMMA QInvNext ==
  ASSUME Inv, QInv, [Next]_vars
  PROVE  QInv'
<1>1. Opens' /\ OwnClass(res')
  BY OpensNext, OwnNext
<1>2. OwnClass(res)'
  BY <1>1 DEF OwnClass, Shared
<1>3. (phase' = "loaded" => removed' = {}) /\ (phase' = "recompute" => removed' # {})
  BY RemovedNext
<1>4. ASSUME Still' PROVE Walked' /\ Copied(res)' /\ SeenHere' /\ Grouped'
  <2>1. Still /\ UNCHANGED OnDisk
    BY <1>4, QuietStep DEF Inv
  <2>2. Walked /\ SeenHere /\ Stayed
    BY <2>1 DEF QInv, Still, Stayed
  <2> QED
    BY <2>1, <2>2, WalkedNext, CopiedNext, SeenHereNext, GroupedNext
<1> QED
  BY <1>1, <1>2, <1>3, <1>4 DEF QInv

LEMMA QInvInit ==
  ASSUME Init
  PROVE  QInv
<1>1. /\ DOMAIN opened = {} /\ DOMAIN seen = {} /\ phase = "start"
      /\ DOMAIN res.ok = {} /\ DOMAIN res.meta = {} /\ DOMAIN res.class = {}
  BY DEF Init, Map0, NewResult
<1> QED
  BY <1>1 DEF QInv, Opens, OwnClass, Still, Walked, Copied, SeenHere, Grouped

\* While nobody else changes anything, folders that are shown as identical hold
\* the same names with the same contents, links and subfolders, at any depth,
\* also of what the scan was not to read.
THEOREM ScanEqualFolders == Spec => []EqualFolders
<1>1. Init => QInv
  BY QInvInit
<1>2. Inv /\ Inv' /\ QInv /\ [Next]_vars => QInv'
  BY QInvNext
<1>3. Inv /\ QInv => EqualFolders
  BY DEF Inv, DiskKept, QInv, EqualFolders, Shown, Quiet, Still, Grouped
<1> QED
  BY <1>1, <1>2, <1>3, ScanInvariant, PTL DEF Spec

-----------------------------------------------------------------------------
(* A whole result misses nothing *)

\* The way from a root down to a folder is open to the walk.
WalkTo(d) ==
  \E top \in NormalRoots(layout.roots) :
    /\ Inside(d, top) /\ top \notin layout.denied
    /\ \A e \in Ancestors[d] \ Ancestors[top] : e \notin layout.denied \cup layout.skipped

\* A folder holds nothing that keeps the scan from reading it.
Bare(d) ==
  /\ Subfolders(d) \cap (layout.denied \cup layout.skipped) = {}
  /\ \A p \in DOMAIN entry : p[1] = d =>
       /\ Kind[entry[p]] \in {"file", "link"} /\ Links(entry[p]) = 1
       /\ p \notin layout.filtered

\* What a folder that the scan could read whole holds is what the result has.
Holds(r, d) ==
  /\ r.ok[d] = TRUE
  /\ r.children[d] = Subfolders(d) /\ Subfolders(d) \subseteq DOMAIN r.ok
  /\ r.aliases[d] = {}
  /\ r.links[d] = {<<"L", p[2], content[entry[p]]>> :
                     p \in {q \in DOMAIN entry : q[1] = d /\ Kind[entry[q]] = "link"}}
  /\ \A p \in DOMAIN entry : p[1] = d /\ Kind[entry[p]] # "link" => p \in DOMAIN r.meta

\* Every content that two inodes have gives their files one class.
Told(r) ==
  /\ DOMAIN r.class = DOMAIN r.meta
  /\ \A p \in DOMAIN r.class :
       Shared(r.class[p]) => r.class[p] = Class(SizeOf[content[entry[p]]], content[entry[p]])
  /\ \A p, q \in DOMAIN r.meta : p # q /\ content[entry[p]] = content[entry[q]] =>
       Shared(r.class[p]) /\ Shared(r.class[q])

\* Every inode there is to read has one name in the result.
Named(r) ==
  /\ DOMAIN r.meta \subseteq Visible
  /\ \A p \in Visible : \E q \in DOMAIN r.meta : entry[q] = entry[p]
  /\ \A p, q \in DOMAIN r.meta : entry[p] = entry[q] => p = q

Faithful(r) ==
  /\ Told(r) /\ Named(r)
  /\ DOMAIN r.ok \subseteq layout.roots \cup layout.folders
  /\ \A d \in DOMAIN r.ok :
       /\ r.ok[d] \in BOOLEAN /\ (r.ok[d] => Orderly(r, d))
       /\ \A k \in r.children[d] : k \in Dirs /\ ParentOf[k] = d
       /\ Bare(d) => Holds(r, d)

LEMMA TwoOf ==
  ASSUME NEW S, IsFiniteSet(S)
  PROVE  Cardinality(S) >= 2 <=> \E x, y \in S : x # y
<1>1. Cardinality(S) \in Nat
  BY FS_CardinalityType
<1>2. ASSUME NEW x \in S, NEW y \in S, x # y PROVE Cardinality(S) >= 2
  <2>1. {x, y} \in SUBSET S /\ IsFiniteSet({x, y})
    BY FS_Subset
  <2>2. Cardinality({x, y}) <= Cardinality(S) /\ Cardinality({x, y}) \in Nat
    BY <2>1, FS_Subset, FS_CardinalityType
  <2>3. Cardinality({x, y}) # 0
    BY <2>1, FS_EmptySet
  <2>4. Cardinality({x, y}) # 1
    <3> SUFFICES ASSUME Cardinality({x, y}) = 1 PROVE FALSE
      OBVIOUS
    <3>1. PICK z : {x, y} = {z}
      BY <2>1, FS_Singleton
    <3> QED
      BY <1>2, <3>1
  <2> QED
    BY <1>1, <2>2, <2>3, <2>4
<1>3. ASSUME ~\E x, y \in S : x # y PROVE ~(Cardinality(S) >= 2)
  <2>1. CASE S = {}
    BY <2>1, FS_EmptySet
  <2>2. ASSUME NEW x \in S PROVE ~(Cardinality(S) >= 2)
    <3>1. S = {x}
      BY <1>3
    <3>2. Cardinality(S) = 1
      BY <3>1, FS_Singleton
    <3> QED
      BY <3>2
  <2> QED
    BY <2>1, <2>2
<1> QED
  BY <1>2, <1>3

LEMMA EntriesFinite ==
  ASSUME DiskKept
  PROVE  /\ IsFiniteSet(DOMAIN entry) /\ DOMAIN entry \subseteq Dirs \X Nat
         /\ folders \in SUBSET Dirs /\ IsFiniteSet(folders)
         /\ layout.roots \cup layout.folders \in SUBSET Dirs
         /\ IsFiniteSet(layout.roots \cup layout.folders)
<1>1. Volume(layout)
  BY LayoutAssumption DEF DiskKept
<1>2. /\ DOMAIN entry \in SUBSET DOMAIN layout.entry /\ IsFiniteSet(DOMAIN layout.entry)
      /\ DOMAIN layout.entry \subseteq Dirs \X Nat
  BY <1>1 DEF DiskKept, Volume
<1>3. /\ folders \in SUBSET (layout.roots \cup layout.folders)
      /\ IsFiniteSet(layout.roots \cup layout.folders)
      /\ layout.folders \subseteq Dirs /\ layout.roots \subseteq Dirs
  BY <1>1 DEF DiskKept, Volume
<1> QED
  BY <1>2, <1>3, FS_Subset

\* The groups of files are the inodes that share a content.
LEMMA FilesExact ==
  ASSUME DiskKept, NEW r, Told(r), Named(r)
  PROVE  LET inodes == {entry[p] : p \in Visible}
             alike(i) == {j \in inodes : content[j] = content[i]}
         IN  {{entry[p] : p \in g} : g \in FileGroups(r)} =
               {s \in {alike(i) : i \in inodes} : Cardinality(s) >= 2}
<1> DEFINE M == DOMAIN r.meta
           inodes == {entry[p] : p \in Visible}
           alike(i) == {j \in inodes : content[j] = content[i]}
           in(g) == {entry[p] : p \in g}
           of(p) == Members(r, r.class[p])
<1>1. M \in SUBSET DOMAIN entry /\ IsFiniteSet(M)
  <2>1. M \in SUBSET DOMAIN entry
    BY DEF Named, Visible
  <2> QED
    BY <2>1, EntriesFinite, FS_Subset
<1>2. \A n, c : Class(n, c).digest = c /\ Shared(Class(n, c))
  BY DEF Class, Shared
<1>3. ASSUME NEW p \in M, NEW q \in M, p # q
      PROVE  content[entry[p]] = content[entry[q]] <=>
               Shared(r.class[p]) /\ r.class[p] = r.class[q]
  <2>1. ASSUME content[entry[p]] = content[entry[q]]
        PROVE  Shared(r.class[p]) /\ r.class[p] = r.class[q]
    <3>1. Shared(r.class[p]) /\ Shared(r.class[q])
      BY <1>3, <2>1 DEF Told
    <3> QED
      BY <2>1, <3>1 DEF Told
  <2>2. ASSUME Shared(r.class[p]), r.class[p] = r.class[q]
        PROVE  content[entry[p]] = content[entry[q]]
    <3>1. /\ r.class[p] = Class(SizeOf[content[entry[p]]], content[entry[p]])
          /\ r.class[q] = Class(SizeOf[content[entry[q]]], content[entry[q]])
      BY <2>2 DEF Told
    <3>2. Class(SizeOf[content[entry[p]]], content[entry[p]]).digest
            = Class(SizeOf[content[entry[q]]], content[entry[q]]).digest
      BY <2>2, <3>1
    <3> QED
      BY <1>2, <3>2
  <2> QED
    BY <2>1, <2>2
<1>4. \A i \in inodes : \E p \in M : entry[p] = i
  BY DEF Named
<1>5. \A p \in M : entry[p] \in inodes
  BY DEF Named
<1>6. \A p, q \in M : entry[p] = entry[q] => p = q
  BY DEF Named
<1>7. \A p \in M : of(p) = {q \in M : r.class[q] = r.class[p]}
  BY DEF Members, Told
<1> HIDE DEF inodes, of
\* A group of files and the inodes of one content.
<1>8. ASSUME NEW p \in M, Shared(r.class[p]) PROVE in(of(p)) = alike(entry[p])
  <2>1. ASSUME NEW q \in M
        PROVE  q \in of(p) <=> content[entry[q]] = content[entry[p]]
    BY <1>3, <1>7, <1>8
  <2> QED
    BY <1>4, <1>5, <1>7, <2>1
<1>9. ASSUME NEW p \in M
      PROVE  /\ Cardinality(of(p)) >= 2 <=> \E q, s \in of(p) : q # s
             /\ Cardinality(alike(entry[p])) >= 2 <=> \E i, j \in alike(entry[p]) : i # j
  <2>1. IsFiniteSet(of(p))
    <3>1. of(p) \in SUBSET M
      BY <1>7
    <3> QED
      BY <1>1, <3>1, FS_Subset
  <2>2. IsFiniteSet(alike(entry[p]))
    <3> DEFINE f == [q \in M |-> entry[q]]
    <3>1. alike(entry[p]) \in SUBSET {f[q] : q \in M} /\ DOMAIN f = M
      BY <1>4
    <3> HIDE DEF f
    <3>2. IsFiniteSet({f[q] : q \in M})
      BY <1>1, <3>1, ImageFinite
    <3> HIDE DEF alike
    <3> QED
      BY <3>1, <3>2, FS_Subset
  <2> HIDE DEF alike
  <2> QED
    BY <2>1, <2>2, TwoOf
<1>10. ASSUME NEW p \in M
       PROVE  /\ Shared(r.class[p]) =>
                  (Cardinality(of(p)) >= 2 <=> Cardinality(alike(entry[p])) >= 2)
              /\ Cardinality(alike(entry[p])) >= 2 => Shared(r.class[p])
  <2>1. ASSUME Shared(r.class[p]), NEW q \in of(p), NEW s \in of(p), q # s
        PROVE  entry[q] \in alike(entry[p]) /\ entry[s] \in alike(entry[p]) /\ entry[q] # entry[s]
    BY <1>6, <1>7, <1>8, <2>1
  <2>2. ASSUME Shared(r.class[p]), NEW i \in alike(entry[p]), NEW j \in alike(entry[p]), i # j
        PROVE  \E q, s \in of(p) : q # s
    BY <1>8, <2>2
  <2>3. ASSUME NEW i \in alike(entry[p]), NEW j \in alike(entry[p]), i # j
        PROVE  Shared(r.class[p])
    <3>1. PICK q \in M : content[entry[q]] = content[entry[p]] /\ q # p
      BY <1>4, <2>3
    <3> QED
      BY <1>3, <3>1
  <2> HIDE DEF alike
  <2> QED
    BY <1>9, <2>1, <2>2, <2>3
<1>11. ASSUME NEW g \in FileGroups(r)
       PROVE  \E i \in inodes : in(g) = alike(i) /\ Cardinality(alike(i)) >= 2
  <2>1. PICK p \in M : Shared(r.class[p]) /\ g = of(p) /\ Cardinality(g) >= 2
    BY DEF FileGroups, Classes, Told, of
  <2> HIDE DEF in, alike
  <2>2. in(g) = alike(entry[p]) /\ Cardinality(alike(entry[p])) >= 2
    BY <1>8, <1>10, <2>1
  <2> QED
    BY <1>5, <2>2
<1>12. ASSUME NEW i \in inodes, Cardinality(alike(i)) >= 2
       PROVE  \E g \in FileGroups(r) : in(g) = alike(i)
  <2>1. PICK p \in M : entry[p] = i
    BY <1>4
  <2> HIDE DEF in, alike
  <2>2. Shared(r.class[p]) /\ Cardinality(of(p)) >= 2 /\ in(of(p)) = alike(i)
    BY <1>8, <1>10, <1>12, <2>1
  <2>3. of(p) \in FileGroups(r)
    BY <2>2 DEF FileGroups, Classes, Told, of
  <2> QED
    BY <2>2, <2>3
<1> HIDE DEF in, alike
<1>13. {in(g) : g \in FileGroups(r)} = {s \in {alike(i) : i \in inodes} : Cardinality(s) >= 2}
  BY <1>11, <1>12
<1> QED
  BY <1>13 DEF in, alike, inodes

\* Folders.
LEMMA PlainBelow ==
  ASSUME DiskKept, NEW d \in Dirs, Plain(d), NEW k \in Subfolders(d)
  PROVE  k \in folders /\ k \in Dirs /\ ParentOf[k] = d /\ Plain(k)
<1>1. k \in folders /\ k \in Dirs /\ ParentOf[k] = d
  BY EntriesFinite DEF Subfolders
<1>2. \A e : Inside(e, k) => Inside(e, d)
  <2>1. d \in Ancestors[k]
    BY <1>1, TreeAssumption, AncestorsAre, AncestorsIn
  <2> QED
    BY <2>1, AncestorsIn DEF Inside
<1> QED
  BY <1>1, <1>2 DEF Plain

LEMMA ManifestsOfFaithful ==
  ASSUME DiskKept, NEW r, Faithful(r)
  PROVE  /\ DOMAIN r.ok \in SUBSET Dirs /\ IsFiniteSet(DOMAIN r.ok)
         /\ DOMAIN Manifests(r) = DOMAIN r.ok
         /\ \A d \in DOMAIN r.ok : Manifests(r)[d] = ManifestOf(r, Manifests(r), d)
<1>1. DOMAIN r.ok \in SUBSET Dirs /\ IsFiniteSet(DOMAIN r.ok)
  BY EntriesFinite, FS_Subset DEF Faithful
<1>2. \A d \in DOMAIN r.ok : /\ r.ok[d] => Orderly(r, d)
                             /\ \A k \in r.children[d] : k \in Dirs /\ ParentOf[k] = d
  BY DEF Faithful
<1> QED
  BY <1>1, <1>2, ManifestsAre

LEMMA PlainHolds ==
  ASSUME DiskKept, NEW r, Faithful(r)
  PROVE  \A d \in DOMAIN r.ok : Plain(d) => Holds(r, d)
<1> SUFFICES ASSUME NEW d \in DOMAIN r.ok, Plain(d) PROVE Bare(d)
  BY DEF Faithful
<1>1. d \in Dirs /\ Inside(d, d)
  BY ManifestsOfFaithful, AncestorsIn DEF Inside
<1>2. ASSUME NEW k \in Subfolders(d) PROVE k \in folders /\ Inside(k, d)
  <2>1. k \in folders /\ k \in Dirs /\ ParentOf[k] = d
    BY EntriesFinite DEF Subfolders
  <2> QED
    BY <1>1, <2>1, InsideChild
<1> QED
  BY <1>1, <1>2 DEF Plain, Bare

LEMMA PlainIsWhole ==
  ASSUME DiskKept, NEW r, Faithful(r), NEW man,
         \A d \in DOMAIN r.ok : man[d] = ManifestOf(r, man, d)
  PROVE  \A d \in DOMAIN r.ok \cap folders : Plain(d) => Complete(r, man, d) /\ man[d].ok
<1> DEFINE D == DOMAIN r.ok
           P == {d \in D : d \in folders /\ Plain(d) => Complete(r, man, d) /\ man[d].ok}
           X == {S \in SUBSET D : S \subseteq P}
<1>1. D \in SUBSET Dirs /\ IsFiniteSet(D)
  BY ManifestsOfFaithful
<1>2. ASSUME NEW S \in SUBSET D, NEW d \in D \ S, S \subseteq P,
             \A k \in D : ParentOf[k] = d => k \in S
      PROVE  d \in P
  <2> SUFFICES ASSUME d \in folders, Plain(d) PROVE Complete(r, man, d) /\ man[d].ok
    OBVIOUS
  <2>1. Holds(r, d)
    BY PlainHolds
  <2>2. ASSUME NEW k \in r.children[d] PROVE k \in DOMAIN r.ok /\ man[k].ok
    <3>1. k \in Subfolders(d) /\ k \in D
      BY <2>1 DEF Holds
    <3>2. ParentOf[k] = d /\ k \in folders /\ Plain(k)
      BY <1>1, <3>1, PlainBelow
    <3> QED
      BY <1>2, <3>1, <3>2
  <2>3. \A x \in FileRows(r, d) \cup AlsoRows(r, d) : x[3] \in DOMAIN r.class
    <3>1. AlsoRows(r, d) = {}
      BY <2>1 DEF Holds, AlsoRows
    <3>2. \A x \in FileRows(r, d) : x[3] \in DOMAIN r.meta
      BY DEF FileRows, FilesIn
    <3> QED
      BY <3>1, <3>2 DEF Faithful, Told
  <2>4. Complete(r, man, d) = TRUE
    BY <2>1, <2>2, <2>3 DEF Complete, Holds
  <2>5. man[d] = ManifestOf(r, man, d)
    OBVIOUS
  <2>6. man[d].ok = TRUE
    BY <2>4, <2>5 DEF ManifestOf
  <2> QED
    BY <2>4, <2>6
<1>3. D \in X
  <2>1. {} \in X
    OBVIOUS
  <2>2. \A S \in SUBSET D : \A d \in D \ S :
          S \in X /\ (\A k \in D : ParentOf[k] = d => k \in S) => S \cup {d} \in X
    <3> HIDE DEF P
    <3> QED
      BY <1>2
  <2> HIDE DEF X
  <2> QED
    BY <1>1, <2>1, <2>2, UpTheTree
<1> QED
  BY <1>3

\* Folders that hold the same and were read whole have their parts in step.
LEMMA EntriesInStep ==
  ASSUME DiskKept, NEW r, Faithful(r), NEW a \in DOMAIN r.ok, NEW b \in DOMAIN r.ok,
         NEW man, Holds(r, a), Holds(r, b), EntriesOf(a) \subseteq EntriesOf(b)
  PROVE  /\ \A x \in FileRows(r, a) : \E y \in FileRows(r, b) : x[2] = y[2]
         /\ \A x \in FileRows(r, a), y \in FileRows(r, b) : x[2] = y[2] =>
              Row(r, man, x) = Row(r, man, y)
         /\ r.links[a] \subseteq r.links[b]
<1>1. DOMAIN entry \subseteq Dirs \X Nat
  BY EntriesFinite
<1>2. /\ \A p \in DOMAIN r.meta : p \in DOMAIN entry /\ Kind[entry[p]] = "file"
      /\ DOMAIN r.class = DOMAIN r.meta
  BY DEF Faithful, Named, Visible, Told
<1>3. ASSUME NEW p \in DOMAIN entry, p[1] = a
      PROVE  \E q \in DOMAIN entry : /\ q[1] = b /\ q[2] = p[2] /\ Kind[entry[q]] = Kind[entry[p]]
                                     /\ content[entry[q]] = content[entry[p]]
  <2>1. <<p[2], Kind[entry[p]], content[entry[p]]>> \in EntriesOf(b)
    BY <1>3 DEF EntriesOf
  <2>2. PICK q \in DOMAIN entry :
          q[1] = b /\ <<p[2], Kind[entry[p]], content[entry[p]]>>
                        = <<q[2], Kind[entry[q]], content[entry[q]]>>
    BY <2>1 DEF EntriesOf
  <2> QED
    BY <2>2
<1>4. ASSUME NEW p \in DOMAIN entry, NEW q \in DOMAIN entry, p[1] = a, q[1] = b, p[2] = q[2]
      PROVE  content[entry[p]] = content[entry[q]]
  <2>1. PICK s \in DOMAIN entry : s[1] = b /\ s[2] = p[2] /\ content[entry[s]] = content[entry[p]]
    BY <1>3, <1>4
  <2>2. s = q
    BY <1>1, <1>4, <2>1
  <2> QED
    BY <2>1, <2>2
<1>5. ASSUME NEW x \in FileRows(r, a) PROVE \E y \in FileRows(r, b) : x[2] = y[2]
  <2>1. PICK p \in DOMAIN r.meta : p[1] = a /\ x = <<"F", p[2], p>>
    BY DEF FileRows, FilesIn
  <2>2. PICK q \in DOMAIN entry : q[1] = b /\ q[2] = p[2] /\ Kind[entry[q]] = "file"
    BY <1>2, <1>3, <2>1
  <2>3. q \in DOMAIN r.meta
    BY <2>2 DEF Holds
  <2>4. <<"F", q[2], q>> \in FileRows(r, b)
    BY <2>2, <2>3 DEF FileRows, FilesIn
  <2> QED
    BY <2>1, <2>2, <2>4
<1>6. ASSUME NEW x \in FileRows(r, a), NEW y \in FileRows(r, b), x[2] = y[2]
      PROVE  Row(r, man, x) = Row(r, man, y)
  <2>1. PICK p \in DOMAIN r.meta : p[1] = a /\ x = <<"F", p[2], p>>
    BY DEF FileRows, FilesIn
  <2>2. PICK q \in DOMAIN r.meta : q[1] = b /\ y = <<"F", q[2], q>>
    BY DEF FileRows, FilesIn
  <2>3. p[2] = q[2] /\ content[entry[p]] = content[entry[q]]
    BY <1>2, <1>4, <1>6, <2>1, <2>2
  <2>4. r.class[p] = r.class[q]
    BY <1>2, <2>3 DEF Faithful, Told
  <2>5. Row(r, man, x) = <<"F", p[2], r.class[p]>> /\ Row(r, man, y) = <<"F", q[2], r.class[q]>>
    BY <2>1, <2>2 DEF Row
  <2> QED
    BY <2>3, <2>4, <2>5
<1>7. ASSUME NEW l \in r.links[a] PROVE l \in r.links[b]
  <2>1. PICK p \in DOMAIN entry : /\ p[1] = a /\ Kind[entry[p]] = "link"
                                  /\ l = <<"L", p[2], content[entry[p]]>>
    BY DEF Holds
  <2>2. PICK q \in DOMAIN entry : /\ q[1] = b /\ q[2] = p[2] /\ Kind[entry[q]] = "link"
                                  /\ content[entry[q]] = content[entry[p]]
    BY <1>3, <2>1
  <2> QED
    BY <2>1, <2>2 DEF Holds
<1> QED
  BY <1>5, <1>6, <1>7

LEMMA OneTreeOneManifest ==
  ASSUME DiskKept, NEW r, Faithful(r), NEW man,
         \A d \in DOMAIN r.ok : man[d] = ManifestOf(r, man, d)
  PROVE  \A a, b \in DOMAIN r.ok \cap folders :
           Plain(a) /\ Plain(b) /\ Tree[a] = Tree[b] => man[a] = man[b]
<1> DEFINE D == DOMAIN r.ok
           P == {a \in D : \A b \in D :
                   a \in folders /\ b \in folders /\ Plain(a) /\ Plain(b) /\ Tree[a] = Tree[b]
                     => man[a] = man[b]}
           X == {S \in SUBSET D : S \subseteq P}
<1>1. D \in SUBSET Dirs /\ IsFiniteSet(D)
  BY ManifestsOfFaithful
<1>2. ASSUME NEW S \in SUBSET D, NEW a \in D \ S, S \subseteq P,
             \A k \in D : ParentOf[k] = a => k \in S
      PROVE  a \in P
  <2> SUFFICES ASSUME NEW b \in D, a \in folders, b \in folders, Plain(a), Plain(b),
                      Tree[a] = Tree[b]
               PROVE  man[a] = man[b]
    OBVIOUS
  <2>1. Holds(r, a) /\ Holds(r, b)
    BY PlainHolds
  <2>2. /\ Complete(r, man, a) /\ Complete(r, man, b)
        /\ Orderly(r, a) /\ Orderly(r, b)
    BY <2>1, PlainIsWhole DEF Faithful, Holds
  <2>3. TreeOf(Tree, a) = TreeOf(Tree, b)
    BY <1>1, EntriesFinite, TreeIs
  <2>4. /\ EntriesOf(a) = EntriesOf(b)
        /\ {<<DirName[k], Tree[k]>> : k \in Subfolders(a)}
             = {<<DirName[k], Tree[k]>> : k \in Subfolders(b)}
    BY <2>3 DEF TreeOf
  <2>5. /\ InStep(r, man, FileRows(r, a), FileRows(r, b))
        /\ r.links[a] = r.links[b]
    <3>1. EntriesOf(a) \subseteq EntriesOf(b) /\ EntriesOf(b) \subseteq EntriesOf(a)
      BY <2>4
    <3>2. /\ \A x \in FileRows(r, a) : \E y \in FileRows(r, b) : x[2] = y[2]
          /\ \A x \in FileRows(r, a), y \in FileRows(r, b) : x[2] = y[2] =>
               Row(r, man, x) = Row(r, man, y)
          /\ r.links[a] \subseteq r.links[b]
      BY <2>1, <3>1, EntriesInStep
    <3>3. /\ \A x \in FileRows(r, b) : \E y \in FileRows(r, a) : x[2] = y[2]
          /\ r.links[b] \subseteq r.links[a]
      BY <2>1, <3>1, EntriesInStep
    <3> QED
      BY <3>2, <3>3 DEF InStep
  <2>6. InStep(r, man, r.links[a], r.links[b])
    <3>1. \A x, y \in r.links[a] : x[2] = y[2] => x = y
      BY <2>2 DEF Orderly
    <3> QED
      BY <2>5, <3>1 DEF InStep
  <2>7. InStep(r, man, AlsoRows(r, a), AlsoRows(r, b))
    BY <2>1 DEF Holds, AlsoRows, InStep
  <2>8. ASSUME NEW k \in Subfolders(a)
        PROVE  /\ \E l \in Subfolders(b) : DirName[k] = DirName[l]
               /\ \A l \in Subfolders(b) : DirName[k] = DirName[l] => man[k] = man[l]
    <3>1. \E l \in Subfolders(b) : DirName[k] = DirName[l] /\ Tree[k] = Tree[l]
      <4>1. <<DirName[k], Tree[k]>> \in {<<DirName[l], Tree[l]>> : l \in Subfolders(b)}
        BY <2>4
      <4> QED
        BY <4>1
    <3>2. ASSUME NEW l \in Subfolders(b), DirName[k] = DirName[l] PROVE man[k] = man[l]
      <4>1. PICK m \in Subfolders(b) : DirName[k] = DirName[m] /\ Tree[k] = Tree[m]
        BY <3>1
      <4>2. /\ k \in folders /\ ParentOf[k] = a /\ Plain(k) /\ k \in D
            /\ l \in folders /\ ParentOf[l] = b /\ Plain(l) /\ l \in D
        BY <1>1, <2>1, PlainBelow DEF Holds
      <4>3. m \in Dirs /\ l \in Dirs /\ ParentOf[m] = b
        BY <1>1, PlainBelow
      <4>4. m = l
        BY <3>2, <4>1, <4>2, <4>3, TreeAssumption
      <4>5. k \in P
        BY <1>2, <4>2
      <4> QED
        BY <4>1, <4>2, <4>4, <4>5
    <3> QED
      BY <3>1, <3>2
  <2>9. \A l \in Subfolders(b) : \E k \in Subfolders(a) : DirName[k] = DirName[l]
    <3> SUFFICES ASSUME NEW l \in Subfolders(b)
                 PROVE  \E k \in Subfolders(a) : DirName[k] = DirName[l]
      OBVIOUS
    <3>1. <<DirName[l], Tree[l]>> \in {<<DirName[k], Tree[k]>> : k \in Subfolders(a)}
      BY <2>4
    <3> QED
      BY <3>1
  <2>10. InStep(r, man, SubRows(r, a), SubRows(r, b))
    <3>1. /\ SubRows(r, a) = {<<"D", DirName[k], k>> : k \in Subfolders(a)}
          /\ SubRows(r, b) = {<<"D", DirName[k], k>> : k \in Subfolders(b)}
      BY <2>1 DEF Holds, SubRows
    <3>2. \A n, k : Row(r, man, <<"D", n, k>>) = <<"D", n, man[k].rows>>
      BY DEF Row
    <3> DEFINE row(k) == <<"D", DirName[k], k>>
    <3>3. ASSUME NEW x \in SubRows(r, a) PROVE \E y \in SubRows(r, b) : x[2] = y[2]
      <4>1. PICK k \in Subfolders(a) : x = row(k)
        BY <3>1
      <4>2. PICK l \in Subfolders(b) : DirName[k] = DirName[l]
        BY <2>8
      <4>3. row(l) \in SubRows(r, b) /\ x[2] = row(l)[2]
        BY <3>1, <4>1, <4>2
      <4> QED
        BY <4>3
    <3>4. ASSUME NEW y \in SubRows(r, b) PROVE \E x \in SubRows(r, a) : x[2] = y[2]
      <4>1. PICK l \in Subfolders(b) : y = row(l)
        BY <3>1
      <4>2. PICK k \in Subfolders(a) : DirName[k] = DirName[l]
        BY <2>9
      <4>3. row(k) \in SubRows(r, a) /\ row(k)[2] = y[2]
        BY <3>1, <4>1, <4>2
      <4> QED
        BY <4>3
    <3>5. ASSUME NEW x \in SubRows(r, a), NEW y \in SubRows(r, b), x[2] = y[2]
          PROVE  Row(r, man, x) = Row(r, man, y)
      <4>1. PICK k \in Subfolders(a) : x = row(k)
        BY <3>1
      <4>2. PICK l \in Subfolders(b) : y = row(l)
        BY <3>1
      <4>3. DirName[k] = DirName[l]
        BY <3>5, <4>1, <4>2
      <4>4. man[k] = man[l]
        BY <2>8, <4>3
      <4> QED
        BY <3>2, <4>1, <4>2, <4>3, <4>4
    <3> QED
      BY <3>3, <3>4, <3>5 DEF InStep
  <2>11. /\ DOMAIN InOrder(r, a) = DOMAIN InOrder(r, b)
         /\ \A n \in DOMAIN InOrder(r, a) :
              Row(r, man, InOrder(r, a)[n]) = Row(r, man, InOrder(r, b)[n])
    BY <2>2, <2>5, <2>6, <2>7, <2>10, RowsInStep
  <2>12. [n \in DOMAIN InOrder(r, a) |-> Row(r, man, InOrder(r, a)[n])]
           = [n \in DOMAIN InOrder(r, b) |-> Row(r, man, InOrder(r, b)[n])]
    BY <2>11
  <2>13. man[a] = ManifestOf(r, man, a) /\ man[b] = ManifestOf(r, man, b)
    OBVIOUS
  <2>14. Complete(r, man, a) = TRUE /\ Complete(r, man, b) = TRUE
    BY <2>2 DEF Complete
  <2> QED
    BY <2>12, <2>13, <2>14 DEF ManifestOf
<1>3. D \in X
  <2>1. {} \in X
    OBVIOUS
  <2>2. \A S \in SUBSET D : \A d \in D \ S :
          S \in X /\ (\A k \in D : ParentOf[k] = d => k \in S) => S \cup {d} \in X
    <3> HIDE DEF P
    <3> QED
      BY <1>2
  <2> HIDE DEF X
  <2> QED
    BY <1>1, <2>1, <2>2, UpTheTree
<1> QED
  BY <1>3

\* The groups of folders.
Paired(man, x) == man[x].ok /\ \E y \in DOMAIN man \ {x} : man[y] = man[x]
Hidden(man, d) == \E x \in (Ancestors[d] \ {d}) \cap DOMAIN man : Paired(man, x)

LEMMA GroupOfTwo ==
  ASSUME NEW man, IsFiniteSet(DOMAIN man), NEW d \in DOMAIN man, NEW e \in DOMAIN man,
         d # e, man[d] = man[e], man[d].ok, ~Hidden(man, d), ~Hidden(man, e)
  PROVE  \E g \in DirGroupsOf(man) : {d, e} \subseteq g
<1> DEFINE like(x)    == {y \in DOMAIN man : man[y].ok /\ man[y] = man[x]}
           grouped    == {x \in DOMAIN man : man[x].ok /\ Cardinality(like(x)) >= 2}
           covered(x) == (Ancestors[x] \ {x}) \cap grouped # {}
           g == {x \in like(d) : ~covered(x)}
<1>1. ASSUME NEW x PROVE IsFiniteSet(like(x))
  <2>1. like(x) \in SUBSET DOMAIN man
    OBVIOUS
  <2> QED
    BY <2>1, FS_Subset
<1>2. \A x : Cardinality(like(x)) >= 2 <=> \E y, z \in like(x) : y # z
  <2> HIDE DEF like
  <2> QED
    BY <1>1, TwoOf
<1>3. \A x \in grouped : Paired(man, x)
  BY <1>2 DEF Paired
<1>4. ~covered(d) /\ ~covered(e)
  BY <1>3 DEF Hidden
<1>5. d \in like(d) /\ e \in like(d)
  OBVIOUS
<1>6. d \in grouped
  BY <1>2, <1>5
<1>7. d \in g /\ e \in g
  BY <1>4, <1>5
<1>8. Cardinality(g) >= 2
  <2>1. g \in SUBSET like(d)
    OBVIOUS
  <2>2. IsFiniteSet(g)
    BY <1>1, <2>1, FS_Subset
  <2> HIDE DEF g
  <2> QED
    BY <1>7, <2>2, TwoOf
<1>9. DirGroupsOf(man) = {s \in {{y \in like(x) : ~covered(y)} : x \in grouped} : Cardinality(s) >= 2}
  BY DEF DirGroupsOf
<1>10. g \in {{y \in like(x) : ~covered(y)} : x \in grouped}
  BY <1>6
<1>11. g \in DirGroupsOf(man)
  <2> HIDE DEF g, grouped, covered, like
  <2> QED
    BY <1>8, <1>9, <1>10
<1> QED
  BY <1>7, <1>11

LEMMA FoldersExact ==
  ASSUME DiskKept, NEW r, Faithful(r), NEW man, DOMAIN man = DOMAIN r.ok,
         \A d \in DOMAIN r.ok : man[d] = ManifestOf(r, man, d)
  PROVE  \A d \in {e \in folders : Plain(e) /\ e \in DOMAIN r.ok} :
           \A e \in Twins(d) \cap DOMAIN r.ok : d # e =>
             \/ \E g \in DirGroupsOf(man) : {d, e} \subseteq g
             \/ Hidden(man, d) \/ Hidden(man, e)
<1> SUFFICES ASSUME NEW d \in folders, Plain(d), d \in DOMAIN r.ok,
                    NEW e \in Twins(d), e \in DOMAIN r.ok, d # e,
                    ~Hidden(man, d), ~Hidden(man, e)
             PROVE  \E g \in DirGroupsOf(man) : {d, e} \subseteq g
  OBVIOUS
<1>1. e \in folders /\ Plain(e) /\ Tree[e] = Tree[d]
  BY DEF Twins
<1>2. man[e] = man[d]
  BY <1>1, OneTreeOneManifest
<1>3. man[d].ok
  BY PlainIsWhole
<1>4. IsFiniteSet(DOMAIN man)
  BY ManifestsOfFaithful
<1> QED
  BY <1>2, <1>3, <1>4, GroupOfTwo

-----------------------------------------------------------------------------
(* What makes a whole result miss nothing *)

\* A folder the walk is to list: a root, or what a folder it read holds.
Due(d) ==
  /\ d \in layout.roots \cup folders
  /\ \/ d \in NormalRoots(layout.roots)
     \/ d \notin layout.skipped /\ ParentOf[d] \in Dirs /\ WalkTo(ParentOf[d])

\* The folders that were listed, are being listed or will be, and those that
\* cannot be opened.
Coming == todo \cup DOMAIN opened \cup DOMAIN res.ok \cup layout.denied

Begun == {"walk", "probe", "full", "aggregate", "scanned", "save", "answer", "done", "loaded"}

OnTheWay ==
  /\ \A d \in todo : Due(d)
  /\ \A d \in DOMAIN opened \cup DOMAIN res.ok : WalkTo(d)
  /\ ~res.partial =>
       /\ phase \in Begun => NormalRoots(layout.roots) \subseteq Coming
       /\ \A d \in DOMAIN res.ok : res.children[d] \subseteq Coming

\* A listing fails only for what the folder holds.
Watched(d, o) ==
  /\ o.left \subseteq DOMAIN entry /\ o.subs \subseteq folders \ layout.skipped
  /\ Subfolders(d) \cap layout.skipped = {} => o.ok = TRUE
  /\ \A s \in o.got : s.nlink = Links(entry[s.path])

Watching == \A d \in DOMAIN opened : Watched(d, opened[d])

\* What was read has every inode once, and a folder fails only for what it holds.
Gathered(r) ==
  /\ \A p \in DOMAIN r.meta : p \notin layout.filtered
  /\ \A p, q \in DOMAIN r.meta : entry[p] = entry[q] => p = q
  /\ \A d \in DOMAIN r.ok :
       /\ \A p \in DOMAIN entry :
            p[1] = d /\ Kind[entry[p]] = "file" /\ p \notin layout.filtered =>
              \E q \in DOMAIN r.meta : entry[q] = entry[p]
       /\ Bare(d) => r.ok[d] = TRUE
       /\ \A a \in r.aliases[d] : a[1] # a[2]

\* A file with several names is known by the first that was met.
FirstMet ==
  phase \in {"start", "seed", "walk"} =>
    \A p \in DOMAIN res.meta :
      Links(entry[p]) # 1 => entry[p] \in DOMAIN seen /\ seen[entry[p]] = p

\* No read fails.
Answered == \A p \in DOMAIN found : found[p] # Error /\ (~cancel => found[p] # None)

\* A content that two inodes have is told of both, or of neither so far.
Alone(r, p) ==
  \A q \in DOMAIN r.meta : p # q /\ content[entry[p]] = content[entry[q]] =>
    q \in DOMAIN r.class /\ Shared(r.class[p]) /\ Shared(r.class[q])

Sorted ==
  /\ DOMAIN res.class \cap DOMAIN job = {}
  /\ ~res.partial /\ (phase \in {"probe", "full", "aggregate"} => ~cancel) =>
       \A p \in DOMAIN res.class : Alone(res, p)

\* What the result shows is computed from what was found.
Published(r) ==
  /\ r.fileGroups = FileGroups(r) /\ r.dirGroups = DirGroupsOf(Manifests(r))
  /\ PairsMeet(r)

Ends == {"scanned", "save", "answer", "done", "loaded"}

\* No file has two names.
Single == \A p, q \in DOMAIN layout.entry : layout.entry[p] = layout.entry[q] => p = q

Idle == phase # "walk" => todo = {} /\ DOMAIN opened = {}

Origin == events = 0 => \A p \in DOMAIN entry : entry[p] = layout.entry[p]

\* What is left after a removal has the files and folders that are left.
PrunedTrue == Faithful(Pruned(res, removed))

Whole == events = 0 /\ ~res.partial /\ Single

\* The inductive invariant of GroupsExact, on top of Inv and QInv.
ExactInv ==
  /\ Idle /\ Origin
  /\ Still => /\ OnTheWay /\ Watching /\ Gathered(res) /\ FirstMet /\ Answered /\ Sorted
              /\ phase \in Ends /\ ~res.partial => Published(res)
  /\ Whole => /\ phase = "recompute" => PrunedTrue
              /\ phase = "pruned" => Faithful(res) /\ Published(res)

-----------------------------------------------------------------------------
(* The worker and the disk *)

LEMMA IdleNext ==
  ASSUME Idle, [Next]_vars
  PROVE  Idle'
<1>1. CASE Aside
  BY <1>1, AsideLeaves DEF Idle, Work
<1>2. CASE BeginScan \/ SeedCache
  BY <1>2 DEF Idle, BeginScan, SeedCache
<1>3. CASE \E d \in Dirs : ListDir(d) \/ StatEntry(d) \/ MergeDir(d)
  BY <1>3, WorkLeaves DEF Idle, ListDir, StatEntry, MergeDir
<1>4. CASE WalkCancelled
  BY <1>4 DEF Idle, WalkCancelled, Map0
<1>5. CASE BySize
  BY <1>5, WorkLeaves DEF Idle, BySize
<1>6. CASE TakeFile \/ (\E p \in DOMAIN job : Reader(p)) \/ (\E better \in BOOLEAN : Tick(better))
  BY <1>6, WorkLeaves DEF Idle
<1>7. CASE ProbeDone \/ FullDone
  BY <1>7, WorkLeaves DEF Idle, ProbeDone, FullDone
<1>8. CASE Aggregate \/ Recompute \/ LoadSaved
  BY <1>8, WorkLeaves DEF Idle, Aggregate, Recompute, LoadSaved
<1> QED
  BY <1>1, <1>2, <1>3, <1>4, <1>5, <1>6, <1>7, <1>8, Steps

\* Without an event only a removal changes the disk.
LEMMA NoEvents ==
  ASSUME DiskKept, [Next]_vars, events' = 0
  PROVE  /\ events = 0 /\ layout' = layout
         /\ \/ UNCHANGED <<OnDisk, removed>>
            \/ \E ps \in Removable : RemovePaths(ps)
<1>1. events \in Nat
  BY ScanAssumption DEF DiskKept
<1>2. events' = events \/ events' = events + 1
  BY DEF Next, WorkerStep, BeginScan, BeginRefresh, OpenCache, SeedCache, RefreshStopped,
         ListDir, StatEntry, MergeDir, WalkCancelled, BySize, TakeFile, Acquire,
         ProveBefore, ReadFile, ProveAfter, Finish, ProbeDone, FullDone, CachePut,
         Aggregate, SaveScan, ScanFailed, PairScanned, RefreshScanned, SaveRefreshed, AnswerRefresh,
         Recompute, LoadSaved, LoadRefused, Tick, RemovePaths, Cancel, Pause, Resume,
         EditFile, SaveOver, DeleteFile, SwapRoot, SwapBack, Outside, Stop, vars, disk
<1>3. events = 0 /\ events' # events + 1
  BY <1>1, <1>2
<1>5. /\ \A i \in Inodes, c \in Contents : ~EditFile(i, c)
      /\ \A p : ~SaveOver(p) /\ ~DeleteFile(p)
      /\ ~SwapRoot /\ ~SwapBack
  BY <1>3 DEF DiskKept, EditFile, SaveOver, DeleteFile, SwapRoot, SwapBack, Outside
<1>6. CASE Aside
  <2>1. layout' = layout
    BY <1>6, AsideLeaves
  <2>2. UNCHANGED <<OnDisk, removed>> \/ \E ps \in Removable : RemovePaths(ps)
    BY <1>5, <1>6 DEF Aside, BeginRefresh, OpenCache, RefreshStopped, SaveScan, ScanFailed,
           PairScanned, RefreshScanned, SaveRefreshed, AnswerRefresh, LoadRefused, Cancel, Pause, Resume,
           Stop, OnDisk, vars, disk, ends
  <2> QED
    BY <1>3, <2>1, <2>2
<1>7. CASE ~Aside
  <2>1. UNCHANGED <<layout, OnDisk, removed>>
    BY <1>7, Steps, WorkLeaves DEF OnDisk, Switches
  <2> QED
    BY <1>3, <2>1
<1> QED
  BY <1>6, <1>7

LEMMA OriginNext ==
  ASSUME DiskKept, Origin, [Next]_vars
  PROVE  Origin'
<1> SUFFICES ASSUME events' = 0
             PROVE  \A p \in DOMAIN entry' : entry'[p] = layout'.entry[p]
  BY DEF Origin
<1>1. /\ layout' = layout /\ \A p \in DOMAIN entry : entry[p] = layout.entry[p]
      /\ UNCHANGED OnDisk \/ \E ps \in Removable : RemovePaths(ps)
  BY NoEvents DEF Origin
<1>2. CASE UNCHANGED OnDisk
  BY <1>1, <1>2 DEF OnDisk
<1>3. CASE \E ps \in Removable : RemovePaths(ps)
  BY <1>1, <1>3 DEF RemovePaths, Restrict
<1> QED
  BY <1>1, <1>2, <1>3

-----------------------------------------------------------------------------
(* The walk *)

LEMMA DueOpens ==
  ASSUME NEW d \in Dirs, Due(d), d \notin layout.denied
  PROVE  WalkTo(d)
<1>1. d \in Ancestors[d]
  BY AncestorsIn
<1>2. CASE d \in NormalRoots(layout.roots)
  BY <1>1, <1>2 DEF WalkTo, Inside
<1>3. CASE d \notin layout.skipped /\ ParentOf[d] \in Dirs /\ WalkTo(ParentOf[d])
  <2>1. PICK top \in NormalRoots(layout.roots) :
          /\ top \in Ancestors[ParentOf[d]] /\ top \notin layout.denied
          /\ \A e \in Ancestors[ParentOf[d]] \ Ancestors[top] :
               e \notin layout.denied \cup layout.skipped
    BY <1>3 DEF WalkTo, Inside
  <2>2. Ancestors[d] = {d} \cup Ancestors[ParentOf[d]]
    BY <1>3, AncestorsAre, TreeAssumption
  <2> QED
    BY <1>3, <2>1, <2>2 DEF WalkTo, Inside
<1> QED
  BY <1>2, <1>3 DEF Due

LEMMA BegunNext ==
  ASSUME [Next]_vars, phase' \in Begun, phase \notin Begun
  PROVE  BeginScan \/ SeedCache \/ phase = "recompute"
BY DEF Begun, Next, WorkerStep, BeginRefresh, RefreshStopped,
       ListDir, StatEntry, MergeDir, WalkCancelled, BySize, TakeFile, Acquire, Aggregate,
       ProveBefore, ReadFile, ProveAfter, ProbeDone, FullDone, Gated,
       SaveScan, ScanFailed, PairScanned, RefreshScanned, SaveRefreshed, AnswerRefresh,
       Recompute, LoadSaved, LoadRefused, Tick, RemovePaths, Cancel, Pause, Resume,
       EditFile, SaveOver, DeleteFile, SwapRoot, SwapBack, Outside, Stop, vars, disk, Final

LEMMA OnTheWayAfter ==
  ASSUME UNCHANGED <<layout, OnDisk>>,
         \A d \in todo' : Due(d),
         \A d \in DOMAIN opened' \cup DOMAIN res'.ok : WalkTo(d),
         ~res'.partial =>
           LET coming == todo' \cup DOMAIN opened' \cup DOMAIN res'.ok \cup layout.denied
           IN  /\ phase' \in Begun => NormalRoots(layout.roots) \subseteq coming
               /\ \A d \in DOMAIN res'.ok : res'.children[d] \subseteq coming
  PROVE  OnTheWay'
BY DEF OnTheWay, OnDisk, Coming, Due, WalkTo, Begun

LEMMA OnTheWayStays ==
  ASSUME OnTheWay, UNCHANGED <<layout, OnDisk, todo>>, DOMAIN opened' = DOMAIN opened,
         DOMAIN res'.ok = DOMAIN res.ok, res'.children = res.children,
         ~res'.partial => ~res.partial, phase' \in Begun => phase \in Begun
  PROVE  OnTheWay'
BY OnTheWayAfter DEF OnTheWay, Coming

LEMMA SameChildren ==
  ASSUME Inv, BySize \/ ProbeDone \/ FullDone \/ WalkCancelled \/ Aggregate \/ LoadSaved
  PROVE  /\ DOMAIN res'.ok = DOMAIN res.ok /\ res'.children = res.children
         /\ ~res'.partial => ~res.partial
<1>1. ResultTrue(res) /\ Shape(res)
  BY DEF Inv, ResultTrue
<1>2. CASE BySize \/ ProbeDone \/ FullDone
  <2>1. PICK ps \in SUBSET DOMAIN res.meta : \E new : res' = Funnelled(res, ps, new)
    BY <1>2, FunnelStep
  <2>2. PICK new : res' = Funnelled(res, ps, new)
    BY <2>1
  <2>3. res'.children = res.children
    BY <1>1, <2>2, FunnelledKeeps
  <2> QED
    BY <1>2, <2>3, BySizeTrue, ProbeDoneTrue, FullDoneTrue
<1>3. CASE WalkCancelled \/ Aggregate \/ LoadSaved
  <2>1. /\ DOMAIN res'.ok = DOMAIN res.ok
        /\ res'.partial = res.partial \/ res'.partial = TRUE
    BY <1>3, AggregateTrue
  <2>2. Shape(res') /\ Facts(res') = Facts(res)
    BY <1>1, <1>3, ShownFrom
  <2>3. res'.children = res.children
    BY <2>2, SameFacts
  <2> QED
    BY <2>1, <2>3
<1> QED
  BY <1>2, <1>3

LEMMA OnTheWayNext ==
  ASSUME Inv, Stayed, Idle, OnTheWay, Watching, UNCHANGED <<layout, OnDisk>>, phase # "recompute",
         [Next]_vars
  PROVE  OnTheWay'
<1>0. ~(BeginScan \/ SeedCache) => (phase' \in Begun => phase \in Begun)
  BY BegunNext
<1>1. CASE BeginScan \/ SeedCache
  <2>1. /\ todo' = NormalRoots(layout.roots) /\ todo = {} /\ opened' = opened /\ res' = res
    BY <1>1, WorkLeaves DEF BeginScan, SeedCache, Idle
  <2>2. \A d \in NormalRoots(layout.roots) : Due(d)
    BY DEF Due, NormalRoots
  <2> QED
    BY <2>1, <2>2, OnTheWayAfter DEF OnTheWay, Coming
<1>2. ASSUME NEW d \in Dirs, ListDir(d) PROVE OnTheWay'
  <2>1. /\ d \in todo /\ todo' = todo \ {d} /\ res' = res /\ phase' = phase
        /\ \/ opened' = opened /\ (d \in layout.denied \/ d \notin folders \cup layout.roots)
           \/ d \notin layout.denied /\ DOMAIN opened' = DOMAIN opened \cup {d}
    BY <1>2, WorkLeaves DEF ListDir, Put, Stayed
  <2>2. Due(d)
    BY <2>1 DEF OnTheWay
  <2>3. d \in folders \cup layout.roots
    BY <2>2 DEF Due
  <2>4. /\ d \in layout.denied => DOMAIN opened' = DOMAIN opened
        /\ d \notin layout.denied => WalkTo(d) /\ DOMAIN opened' = DOMAIN opened \cup {d}
    BY <2>1, <2>2, <2>3, DueOpens
  <2> QED
    BY <2>1, <2>4, OnTheWayAfter DEF OnTheWay, Coming
<1>3. ASSUME NEW d \in Dirs, StatEntry(d) PROVE OnTheWay'
  <2>1. /\ DOMAIN opened' = DOMAIN opened /\ UNCHANGED <<todo, res, phase>>
    BY <1>3, WorkLeaves DEF StatEntry
  <2> QED
    BY <2>1, OnTheWayStays
<1>4. ASSUME NEW d \in Dirs, MergeDir(d) PROVE OnTheWay'
  <2>1. PICK o : o = opened[d]
    OBVIOUS
  <2>2. /\ d \in DOMAIN opened /\ todo' = todo \cup o.subs /\ res' = MergedDir(d, o)
        /\ DOMAIN opened' = DOMAIN opened \ {d} /\ phase' = phase /\ phase = "walk"
    BY <1>4, <2>1, WorkLeaves DEF MergeDir, Restrict
  <2>3. WalkTo(d) /\ Watched(d, o) /\ Listing(d, o) /\ Shape(res) /\ Maps(res)
    BY <2>1, <2>2 DEF OnTheWay, Watching, Inv, Listings, ResultTrue
  <2>4. /\ res'.ok = Put(res.ok, d, ManifestWhole(o))
        /\ res'.children = Put(res.children, d, o.subs) /\ res'.partial = res.partial
    BY <2>2, <2>3, MergedKeeps, ZenonT(60)
  <2>5. /\ DOMAIN res'.ok = DOMAIN res.ok \cup {d} /\ res'.children[d] = o.subs
        /\ \A e \in DOMAIN res.ok \ {d} : res'.children[e] = res.children[e]
    BY <2>3, <2>4 DEF Put, Maps
  <2>6. \A k \in o.subs : Due(k)
    BY <2>3 DEF Watched, Listing, Due
  <2>7. \A e \in todo' : Due(e)
    BY <2>2, <2>6 DEF OnTheWay
  <2>8. \A e \in DOMAIN opened' \cup DOMAIN res'.ok : WalkTo(e)
    BY <2>2, <2>3, <2>5 DEF OnTheWay
  <2>9. Coming \subseteq todo' \cup DOMAIN opened' \cup DOMAIN res'.ok \cup layout.denied
    BY <2>2, <2>5 DEF Coming
  <2>10. \A e \in DOMAIN res'.ok : e = d \/ res'.children[e] = res.children[e]
    BY <2>5
  <2>11. o.subs \subseteq todo'
    BY <2>2
  <2> QED
    BY <2>2, <2>4, <2>5, <2>7, <2>8, <2>9, <2>10, <2>11, OnTheWayAfter DEF OnTheWay
<1>5. CASE WalkCancelled
  <2>1. todo' = {} /\ DOMAIN opened' = {} /\ res'.partial = TRUE
    <3>1. Shape(res) /\ res' = PartlyPublished(res)
      BY <1>5 DEF Inv, ResultTrue, WalkCancelled
    <3> QED
      BY <1>5, <3>1, PublishedKeeps DEF WalkCancelled, Map0
  <2>2. DOMAIN res'.ok = DOMAIN res.ok
    BY <1>5, SameChildren
  <2> QED
    BY <2>1, <2>2, OnTheWayAfter DEF OnTheWay
<1>6. CASE BySize \/ ProbeDone \/ FullDone \/ Aggregate \/ LoadSaved
  <2>1. UNCHANGED <<todo, opened>> /\ ~(BeginScan \/ SeedCache)
    BY <1>6, WorkLeaves DEF BySize, ProbeDone, FullDone, Aggregate, LoadSaved, BeginScan, SeedCache
  <2>2. phase' \in Begun => phase \in Begun
    BY <1>0, <2>1
  <2> QED
    BY <1>6, <2>1, <2>2, SameChildren, OnTheWayStays
<1>7. CASE Aside \/ TakeFile \/ (\E p \in DOMAIN job : Reader(p)) \/ (\E b \in BOOLEAN : Tick(b))
  <2>1. UNCHANGED <<todo, opened, res>>
    BY <1>7, AsideLeaves, WorkLeaves DEF Work
  <2>2. CASE ~(BeginScan \/ SeedCache)
    BY <1>0, <2>1, <2>2, OnTheWayStays
  <2> QED
    BY <1>1, <2>2
<1> QED
  BY <1>1, <1>2, <1>3, <1>4, <1>5, <1>6, <1>7, Steps DEF Recompute

LEMMA WatchingAfter ==
  ASSUME UNCHANGED <<layout, OnDisk>>, \A d \in DOMAIN opened' : Watched(d, opened'[d])
  PROVE  Watching'
BY DEF OnDisk, Watching, Watched, Subfolders, Links

\* The entry that is looked at next.
LEMMA FirstLeft ==
  ASSUME DiskKept, NEW d, NEW o, Listing(d, o), o.left # {}
  PROVE  (CHOOSE q \in o.left : \A s \in o.left : q[2] <= s[2]) \in o.left
<1> DEFINE names == {q[2] : q \in o.left}
<1>0. DOMAIN layout.entry \subseteq Dirs \X Nat
  BY LayoutAssumption DEF DiskKept, Volume
<1>1. \A q \in o.left : q[2] \in Nat
  BY <1>0 DEF Listing
<1>2. names \in SUBSET Nat /\ names # {}
  BY <1>1
<1>3. PICK n \in names : \A m \in names : n <= m
  BY <1>2, HasLeast
<1>4. PICK q \in o.left : q[2] = n
  BY <1>3
<1>5. \A s \in o.left : q[2] <= s[2]
  BY <1>3, <1>4
<1> QED
  BY <1>4, <1>5

LEMMA WatchingNext ==
  ASSUME Inv, Stayed, Watching, UNCHANGED <<layout, OnDisk>>, [Next]_vars
  PROVE  Watching'
<1>1. CASE opened' = opened
  BY <1>1, WatchingAfter DEF Watching
<1>2. ASSUME NEW d \in Dirs, ListDir(d) PROVE Watching'
  <2> DEFINE o == Listed(d)
  <2>1. opened' = opened \/ opened' = Put(opened, d, o)
    BY <1>2 DEF ListDir
  <2>2. Watched(d, o)
    BY DEF Watched, Listed, Subfolders, Stayed, Here
  <2> HIDE DEF o
  <2> QED
    BY <2>1, <2>2, WatchingAfter DEF Watching, Put
<1>3. ASSUME NEW d \in Dirs, StatEntry(d) PROVE Watching'
  <2> DEFINE o == opened[d]
             p == CHOOSE q \in o.left : \A s \in o.left : q[2] <= s[2]
             i == entry[p]
             st == [path |-> p, kind |-> Kind[i], id |-> Id(i), nlink |-> Links(i),
                    data |-> content[i]]
             rest == [o EXCEPT !.left = o.left \ {p}]
             new == IF Here(p) THEN [rest EXCEPT !.got = rest.got \cup {st}]
                               ELSE [rest EXCEPT !.ok = FALSE, !.err = TRUE]
  <2>1. d \in DOMAIN opened /\ o.left # {} /\ opened' = [opened EXCEPT ![d] = new]
    BY <1>3 DEF StatEntry
  <2>2. /\ o = [left |-> o.left, got |-> o.got, subs |-> o.subs, ok |-> o.ok, err |-> o.err]
        /\ Watched(d, o) /\ Listing(d, o) /\ DiskKept
    BY <2>1 DEF Inv, Listings, Listing, Watching
  <2>3. p \in o.left
    BY <2>1, <2>2, FirstLeft
  <2> HIDE DEF p
  <2>4. Here(p)
    BY <2>2, <2>3 DEF Watched, Here, Stayed
  <2>5. new = [left |-> o.left \ {p}, got |-> o.got \cup {st}, subs |-> o.subs,
               ok |-> o.ok, err |-> o.err]
    BY <2>2, <2>4
  <2>6. new.left = o.left \ {p} /\ new.got = o.got \cup {st} /\ new.subs = o.subs /\ new.ok = o.ok
    BY <2>5
  <2>7. st.nlink = Links(entry[st.path])
    OBVIOUS
  <2> HIDE DEF new, st
  <2>8. Watched(d, new)
    BY <2>2, <2>6, <2>7 DEF Watched
  <2> QED
    BY <2>1, <2>8, WatchingAfter DEF Watching
<1>4. ASSUME NEW d \in Dirs, MergeDir(d) PROVE Watching'
  <2>1. \A e \in DOMAIN opened' : e \in DOMAIN opened /\ opened'[e] = opened[e]
    BY <1>4 DEF MergeDir, Restrict
  <2> QED
    BY <2>1, WatchingAfter DEF Watching
<1>5. CASE WalkCancelled
  <2>1. DOMAIN opened' = {}
    BY <1>5 DEF WalkCancelled, Map0
  <2> QED
    BY <2>1, WatchingAfter
<1>6. \/ opened' = opened \/ \E d \in Dirs : ListDir(d) \/ StatEntry(d) \/ MergeDir(d)
      \/ WalkCancelled
  BY Steps, AsideLeaves, WorkLeaves DEF Work
<1> QED
  BY <1>1, <1>2, <1>3, <1>4, <1>5, <1>6

-----------------------------------------------------------------------------
(* The merge of a listed folder and the names of its files *)

LEMMA LinksAre ==
  ASSUME DiskKept, NEW i
  PROVE  /\ Links(i) \in Nat
         /\ Links(i) = 1 => \A p, q \in DOMAIN entry : entry[p] = i /\ entry[q] = i => p = q
         /\ \A p \in DOMAIN entry : entry[p] = i => Links(i) # 0
<1> DEFINE S == {p \in DOMAIN entry : entry[p] = i}
<1>1. IsFiniteSet(S)
  <2>1. S \in SUBSET DOMAIN entry
    OBVIOUS
  <2> QED
    BY <2>1, EntriesFinite, FS_Subset
<1>2. Links(i) = Cardinality(S)
  BY DEF Links
<1> HIDE DEF S
<1>3. Cardinality(S) \in Nat /\ (Cardinality(S) = 1 => \E p : S = {p})
      /\ (Cardinality(S) = 0 => S = {})
  BY <1>1, FS_CardinalityType, FS_Singleton, FS_EmptySet
<1> QED
  BY <1>2, <1>3 DEF S

\* A file with several names has the name that its inode is known by.
LEMMA CanonicalAlike ==
  ASSUME NEW got, NEW s, NEW t, s.id[1] = t.id[1], s.nlink # 1, t.nlink # 1
  PROVE  Canonical(got, s) = Canonical(got, t)
BY DEF Canonical

LEMMA FreshIs ==
  ASSUME NEW o
  PROVE  DOMAIN FreshMeta(o) = {s.path : s \in Fresh(o)}
BY DEF FreshMeta

LEMMA MergedGathered ==
  ASSUME DiskKept, Stayed, SeenHere, SeenKnown, FirstMet, Copied(res), phase = "walk", NEW d, NEW o,
         Listing(d, o), Truly(d, o), Watched(d, o), o.left = {}, Shape(res), Maps(res),
         Gathered(res), NEW q, q = MergedDir(d, o)
  PROVE  /\ Gathered(q)
         /\ \A s \in Taken(o.got) : Canonical(o.got, s) \in DOMAIN q.meta
         /\ DOMAIN q.meta = DOMAIN res.meta \cup {s.path : s \in Fresh(o)}
<1>1. /\ q.meta = Over(FreshMeta(o), res.meta)
      /\ q.ok = Put(res.ok, d, ManifestWhole(o))
      /\ q.aliases = Put(res.aliases, d, AliasesOf(o))
  BY ZenonT(120), MergedKeeps
<1>2. /\ DOMAIN q.meta = DOMAIN res.meta \cup {s.path : s \in Fresh(o)}
      /\ DOMAIN q.ok = DOMAIN res.ok \cup {d} /\ q.ok[d] = ManifestWhole(o)
      /\ q.aliases[d] = AliasesOf(o)
      /\ \A e \in DOMAIN res.ok \ {d} : q.ok[e] = res.ok[e] /\ q.aliases[e] = res.aliases[e]
  BY <1>1, FreshIs DEF Over, Put, Maps
<1>3. \A s \in Taken(o.got) :
        /\ s.path \in DOMAIN entry /\ entry[s.path] = s.id[1] /\ s.nlink = Links(s.id[1])
        /\ Canonical(o.got, s) \in DOMAIN entry /\ entry[Canonical(o.got, s)] = s.id[1]
        /\ s.path \notin layout.filtered
  BY NamesHere DEF Watched, Taken, Here, Filtered
<1>4. \A p \in DOMAIN res.meta : p \in DOMAIN entry /\ entry[p] \in Inodes
  BY DEF Copied, Here, DiskKept
<1>5. \A s \in Fresh(o) : s \in Taken(o.got) /\ Canonical(o.got, s) = s.path
  BY DEF Fresh
<1>6. \A p \in DOMAIN q.meta : p \notin layout.filtered
  BY <1>2, <1>3, <1>5 DEF Gathered
<1>7. ASSUME NEW s \in Fresh(o), NEW t \in Fresh(o), entry[s.path] = entry[t.path]
      PROVE  s.path = t.path
  <2>1. s.id[1] = t.id[1] /\ s.nlink = Links(s.id[1]) /\ t.nlink = Links(s.id[1])
    BY <1>3, <1>5, <1>7
  <2>2. CASE s.nlink = 1
    BY <1>3, <1>5, <2>1, <2>2, LinksAre
  <2>3. CASE s.nlink # 1
    BY <1>5, <2>1, <2>3, CanonicalAlike
  <2> QED
    BY <2>2, <2>3
<1>8. ASSUME NEW p \in DOMAIN res.meta, NEW s \in Fresh(o), entry[p] = entry[s.path]
      PROVE  p = s.path
  <2>1. s.id[1] = entry[p] /\ s.nlink = Links(entry[p])
    BY <1>3, <1>5, <1>8
  <2>2. CASE s.nlink = 1
    BY <1>3, <1>4, <1>5, <1>8, <2>1, <2>2, LinksAre
  <2>3. CASE s.nlink # 1
    <3>1. entry[p] \in DOMAIN seen /\ seen[entry[p]] = p
      BY <2>1, <2>3 DEF FirstMet
    <3>2. Canonical(o.got, s) = p
      BY <2>1, <2>3, <3>1 DEF Canonical
    <3> QED
      BY <1>5, <3>2
  <2> QED
    BY <2>2, <2>3
<1>9. \A p, r \in DOMAIN q.meta : entry[p] = entry[r] => p = r
  BY <1>2, <1>7, <1>8 DEF Gathered
<1>10. ASSUME NEW s \in Taken(o.got) PROVE Canonical(o.got, s) \in DOMAIN q.meta
  BY <1>2, CanonicalTaken DEF Fresh, SeenKnown
<1>11. ASSUME NEW p \in DOMAIN entry, p[1] = d, Kind[entry[p]] = "file", p \notin layout.filtered
       PROVE  \E r \in DOMAIN q.meta : entry[r] = entry[p]
  <2>1. PICK s \in o.got : s.path = p
    BY <1>11 DEF Listing
  <2>2. s \in Taken(o.got)
    BY <1>11, <2>1 DEF Truly, Mirrored, Taken, Filtered
  <2> QED
    BY <1>3, <1>10, <2>1, <2>2
<1>12. ASSUME Bare(d) PROVE ManifestWhole(o) = TRUE
  <2>1. o.ok = TRUE
    BY <1>12 DEF Bare, Watched
  <2>2. ASSUME NEW s \in o.got PROVE s.kind \in {"file", "link"} /\ ~Filtered(s)
    <3>1. s.path \in DOMAIN entry /\ s.path[1] = d /\ s.kind = Kind[entry[s.path]]
      BY DEF Truly, Mirrored, Here, Listing
    <3> QED
      BY <1>12, <3>1 DEF Bare, Filtered
  <2> QED
    BY <2>1, <2>2 DEF ManifestWhole, NotRead
<1>13. \A a \in AliasesOf(o) : a[1] # a[2]
  BY DEF AliasesOf, Fresh
<1>14. ASSUME NEW e \in DOMAIN q.ok
       PROVE  /\ \A p \in DOMAIN entry :
                   p[1] = e /\ Kind[entry[p]] = "file" /\ p \notin layout.filtered =>
                     \E r \in DOMAIN q.meta : entry[r] = entry[p]
              /\ Bare(e) => q.ok[e] = TRUE
              /\ \A a \in q.aliases[e] : a[1] # a[2]
  <2>1. CASE e = d
    BY <1>2, <1>11, <1>12, <1>13, <2>1
  <2>2. CASE e # d
    <3>1. e \in DOMAIN res.ok /\ q.ok[e] = res.ok[e] /\ q.aliases[e] = res.aliases[e]
          /\ DOMAIN res.meta \subseteq DOMAIN q.meta
      BY <1>2, <2>2
    <3> QED
      BY <3>1 DEF Gathered
  <2> QED
    BY <2>1, <2>2
<1>15. Gathered(q)
  BY <1>6, <1>9, <1>14 DEF Gathered
<1> QED
  BY <1>2, <1>10, <1>15

LEMMA GatheredAfter ==
  ASSUME UNCHANGED <<layout, OnDisk>>, Gathered(res')
  PROVE  Gathered(res)'
BY DEF OnDisk, Gathered, Bare, Subfolders, Links

LEMMA SameGathered ==
  ASSUME NEW r, NEW q, Gathered(r), q.meta = r.meta, q.ok = r.ok, q.aliases = r.aliases
  PROVE  Gathered(q)
BY DEF Gathered

\* The names that inodes are known by, after a folder.
LEMMA FirstMetNext ==
  ASSUME Inv, QInv, Still, Watching, Gathered(res), FirstMet, UNCHANGED <<layout, OnDisk>>,
         phase # "recompute", [Next]_vars
  PROVE  FirstMet'
<1>1. phase' \in {"start", "seed", "walk"} => phase \in {"start", "seed", "walk"}
  BY BeginningLeft
<1>2. ASSUME NEW d \in Dirs, MergeDir(d) PROVE FirstMet'
  <2>1. PICK o : o = opened[d]
    OBVIOUS
  <2>2. /\ phase = "walk" /\ d \in DOMAIN opened /\ o.left = {} /\ res' = MergedDir(d, o)
        /\ seen' = Over([i \in {s.id[1] : s \in {t \in Taken(o.got) : t.nlink > 1}}
                           |-> Canonical(o.got, CHOOSE s \in Taken(o.got) : s.id[1] = i)],
                        seen)
    BY <1>2, <2>1 DEF MergeDir
  <2>3. /\ DiskKept /\ SeenHere /\ SeenKnown /\ Copied(res) /\ Shape(res) /\ Maps(res)
        /\ Listing(d, o) /\ Truly(d, o) /\ Watched(d, o) /\ Stayed
    BY <2>1, <2>2 DEF Inv, QInv, Listings, Walked, Watching, ResultTrue, Still, Stayed
  <2>4. DOMAIN res'.meta = DOMAIN res.meta \cup {s.path : s \in Fresh(o)}
    BY <2>2, <2>3, MergedGathered
  <2>5. \A s \in Taken(o.got) : entry[s.path] = s.id[1] /\ s.nlink = Links(s.id[1])
                                /\ s.path \in DOMAIN entry
    BY <2>2, <2>3, NamesHere DEF Watched, Taken, Here
  <2> DEFINE ids == {s.id[1] : s \in {t \in Taken(o.got) : t.nlink > 1}}
             of(i) == CHOOSE s \in Taken(o.got) : s.id[1] = i
  <2>6. /\ \A i \in ids : i \in DOMAIN seen' /\ seen'[i] = Canonical(o.got, of(i))
        /\ \A i \in DOMAIN seen \ ids : i \in DOMAIN seen' /\ seen'[i] = seen[i]
    BY <2>2 DEF Over
  <2>7. \A i \in ids : of(i) \in Taken(o.got) /\ of(i).id[1] = i
    OBVIOUS
  <2>8. \A s \in Taken(o.got) : s.nlink > 1 => s.id[1] \in ids
    OBVIOUS
  <2> HIDE DEF of, ids
  <2>9. ASSUME NEW p \in DOMAIN res.meta, Links(entry[p]) # 1
        PROVE  entry[p] \in DOMAIN seen' /\ seen'[entry[p]] = p
    <3>1. entry[p] \in DOMAIN seen /\ seen[entry[p]] = p
      BY <2>2, <2>9 DEF FirstMet
    <3>2. CASE entry[p] \in ids
      <4>1. of(entry[p]).nlink = Links(entry[p]) /\ of(entry[p]).id[1] = entry[p]
        BY <2>5, <2>7, <3>2
      <4>2. Canonical(o.got, of(entry[p])) = p
        BY <2>9, <3>1, <4>1 DEF Canonical
      <4> QED
        BY <2>6, <3>2, <4>2
    <3> QED
      BY <2>6, <3>1, <3>2
  <2>10. ASSUME NEW s \in Fresh(o), Links(entry[s.path]) # 1
         PROVE  entry[s.path] \in DOMAIN seen' /\ seen'[entry[s.path]] = s.path
    <3>1. s \in Taken(o.got) /\ Canonical(o.got, s) = s.path
      BY DEF Fresh
    <3>2. entry[s.path] = s.id[1] /\ s.nlink = Links(s.id[1]) /\ s.path \in DOMAIN entry
      BY <2>5, <3>1
    <3>3. Links(s.id[1]) \in Nat /\ Links(s.id[1]) # 0 /\ Links(s.id[1]) # 1
      BY <2>3, <2>10, <3>2, LinksAre
    <3>4. s.id[1] \in ids
      BY <2>8, <3>1, <3>2, <3>3
    <3>5. of(s.id[1]).nlink = s.nlink /\ of(s.id[1]).id[1] = s.id[1]
      BY <2>5, <2>7, <3>2, <3>4
    <3>6. Canonical(o.got, of(s.id[1])) = Canonical(o.got, s)
      BY <3>2, <3>3, <3>5, CanonicalAlike
    <3> QED
      BY <2>6, <3>1, <3>2, <3>4, <3>6
  <2>11. \A p \in DOMAIN res'.meta :
           Links(entry[p]) # 1 => entry[p] \in DOMAIN seen' /\ seen'[entry[p]] = p
    BY <2>4, <2>9, <2>10
  <2> QED
    BY <2>11 DEF FirstMet, OnDisk, Links
<1>3. CASE seen' = seen /\ res'.meta = res.meta
  BY <1>1, <1>3 DEF FirstMet, OnDisk, Links
<1>4. CASE WalkCancelled \/ BySize \/ ProbeDone \/ FullDone \/ Aggregate \/ LoadSaved
  BY <1>3, <1>4, WorkLeaves, AggregateTrue, BySizeTrue, ProbeDoneTrue, FullDoneTrue
<1>5. CASE Aside \/ BeginScan \/ SeedCache \/ TakeFile \/ (\E p \in DOMAIN job : Reader(p))
           \/ (\E b \in BOOLEAN : Tick(b)) \/ (\E d \in Dirs : ListDir(d) \/ StatEntry(d))
  BY <1>3, <1>5, AsideLeaves, WorkLeaves DEF Work
<1> QED
  BY <1>2, <1>4, <1>5, Steps DEF Recompute

-----------------------------------------------------------------------------
(* The funnel, while nobody disturbs it *)

\* Every file of the result is still what the walk saw.
LEMMA ReadsNow ==
  ASSUME DiskKept, History, ResultTrue(res), Copied(res), NEW p \in DOMAIN res.meta
  PROVE  /\ Here(p) /\ Kind[entry[p]] = "file" /\ Current(p) /\ Readable(p)
         /\ content[entry[p]] = was[res.meta[p].id] /\ content[entry[p]] \in Contents
         /\ res.meta[p].size = SizeOf[content[entry[p]]]
<1>1. Here(p) /\ res.meta[p].id = Id(entry[p]) /\ Kind[entry[p]] = "file"
  BY DEF Copied
<1>2. entry[p] \in Inodes
  BY <1>1 DEF DiskKept, Here
<1>3. was[Id(entry[p])] = content[entry[p]] /\ content[entry[p]] \in Contents
  BY <1>2 DEF History, DiskKept
<1>4. res.meta[p].size = SizeOf[was[res.meta[p].id]]
  BY DEF ResultTrue, File
<1> QED
  BY <1>1, <1>3, <1>4 DEF Current, Readable

\* A stage in which nothing fails gives classes and touches nothing else.
LEMMA QuietFunnel ==
  ASSUME NEW r, Shape(r), NEW new, NEW q, q = Funnelled(r, {}, new)
  PROVE  /\ q.meta = r.meta /\ q.children = r.children /\ q.links = r.links
         /\ q.aliases = r.aliases /\ q.partial = r.partial
         /\ DOMAIN q.ok = DOMAIN r.ok /\ \A d \in DOMAIN r.ok : q.ok[d] = r.ok[d]
         /\ DOMAIN q.class = DOMAIN new \cup DOMAIN r.class
         /\ \A p \in DOMAIN new : q.class[p] = new[p]
         /\ \A p \in DOMAIN r.class \ DOMAIN new : q.class[p] = r.class[p]
<1>1. /\ q.meta = r.meta /\ q.children = r.children /\ q.links = r.links
      /\ q.aliases = r.aliases /\ q.partial = r.partial
      /\ q.class = Over(new, Over(UniqueClass({}), r.class))
      /\ q.ok = Over(Unproven({}), r.ok)
  BY FunnelledKeeps
<1>2. DOMAIN Unproven({}) = {} /\ DOMAIN UniqueClass({}) = {}
  BY DEF Unproven, FoldersOf, UniqueClass
<1>3. /\ DOMAIN Over(UniqueClass({}), r.class) = DOMAIN r.class
      /\ \A p \in DOMAIN r.class : Over(UniqueClass({}), r.class)[p] = r.class[p]
  BY <1>2 DEF Over
<1>4. DOMAIN q.ok = DOMAIN r.ok /\ \A d \in DOMAIN r.ok : q.ok[d] = r.ok[d]
  BY <1>1, <1>2 DEF Over
<1>5. /\ DOMAIN q.class = DOMAIN new \cup DOMAIN r.class
      /\ \A p \in DOMAIN new : q.class[p] = new[p]
      /\ \A p \in DOMAIN r.class \ DOMAIN new : q.class[p] = r.class[p]
  <2>1. PICK old : old = Over(UniqueClass({}), r.class)
    OBVIOUS
  <2>2. q.class = Over(new, old)
    BY <1>1, <2>1
  <2>3. DOMAIN old = DOMAIN r.class /\ \A p \in DOMAIN r.class : old[p] = r.class[p]
    BY <1>3, <2>1
  <2> QED
    BY <2>2, <2>3 DEF Over
<1> QED
  BY <1>1, <1>4, <1>5

Zero == {p \in DOMAIN res.meta : res.meta[p].size = 0}

LoneSizes == {p \in DOMAIN res.meta \ Zero :
                \A q \in DOMAIN res.meta \ {p} : res.meta[q].size # res.meta[p].size}

\* The classes that sizes tell.
BySizes == Over([p \in Zero |-> Class(0, Empty)], UniqueClass(LoneSizes))

LEMMA QuietSize ==
  ASSUME DiskKept, History, ResultTrue(res), Copied(res), BySize
  PROVE  /\ res' = Funnelled(res, {}, BySizes)
         /\ DOMAIN job' = DOMAIN res.meta \ (Zero \cup LoneSizes)
<1> DEFINE files == DOMAIN res.meta
           size(p) == res.meta[p].size
           zero  == {p \in files : size(p) = 0}
           still == {p \in zero : Here(p) /\ Kind[entry[p]] = "file"
                                  /\ SizeOf[content[entry[p]]] = 0}
           lone  == {p \in files \ zero : \A q \in files \ {p} : size(q) # size(p)}
           known == Over([p \in still |-> Class(0, Empty)], UniqueClass(lone))
<1>1. res' = Funnelled(res, zero \ still, known) /\ Offered(files \ (zero \cup lone), "p")
  BY Zenon DEF BySize, Funnelled
<1>2. zero = Zero /\ lone = LoneSizes
  BY DEF Zero, LoneSizes
<1>3. still = zero
  BY ReadsNow
<1>4. zero \ still = {} /\ known = BySizes
  BY <1>2, <1>3, Zenon DEF BySizes
<1>5. DOMAIN job' = files \ (zero \cup lone)
  BY <1>1 DEF Offered
<1> HIDE DEF zero, still, known, lone
<1> QED
  BY <1>1, <1>2, <1>4, <1>5

\* The classes that a stage of hashing tells.
Blank == {p \in DOMAIN found : found[p] = None}

ByDigest(known) == Over([p \in known |-> ClassFound(p)], UniqueClass(Blank \cup Lone))

LEMMA QuietStage ==
  ASSUME Answered, NEW known, NEW q, q = Collected(known)
  PROVE  q = Funnelled(res, {}, ByDigest(known))
<1>1. {p \in DOMAIN found : found[p] = Error} = {}
  BY DEF Answered
<1> QED
  BY <1>1, Zenon DEF Collected, Funnelled, ByDigest, Blank

LEMMA QuietFunnelStep ==
  ASSUME Inv, QInv, Still, Answered, BySize \/ ProbeDone \/ FullDone
  PROVE  \E new : res' = Funnelled(res, {}, new)
<1>1. DiskKept /\ History /\ ResultTrue(res) /\ Copied(res)
  BY DEF Inv, QInv
<1>2. CASE BySize
  BY <1>1, <1>2, QuietSize
<1>3. CASE ProbeDone \/ FullDone
  <2>1. PICK known : res' = Collected(known)
    BY <1>3 DEF ProbeDone, FullDone
  <2> QED
    BY <2>1, QuietStage
<1> QED
  BY <1>2, <1>3

LEMMA GatheredNext ==
  ASSUME Inv, QInv, Still, Watching, Gathered(res), FirstMet, Answered,
         UNCHANGED <<layout, OnDisk>>, phase # "recompute", [Next]_vars
  PROVE  Gathered(res)'
<1> SUFFICES Gathered(res')
  BY GatheredAfter
<1>1. /\ DiskKept /\ SeenHere /\ SeenKnown /\ Copied(res) /\ Shape(res) /\ Maps(res)
      /\ ResultTrue(res)
  BY DEF Inv, QInv, ResultTrue
<1>2. ASSUME NEW d \in Dirs, MergeDir(d) PROVE Gathered(res')
  <2>1. PICK o : o = opened[d]
    OBVIOUS
  <2>2. /\ phase = "walk" /\ d \in DOMAIN opened /\ o.left = {} /\ res' = MergedDir(d, o)
    BY <1>2, <2>1 DEF MergeDir
  <2>3. Listing(d, o) /\ Truly(d, o) /\ Watched(d, o) /\ Stayed
    BY <2>1, <2>2 DEF Inv, QInv, Listings, Walked, Watching, Still, Stayed
  <2> QED
    BY <1>1, <2>2, <2>3, MergedGathered
<1>3. CASE BySize \/ ProbeDone \/ FullDone
  <2>1. PICK new : res' = Funnelled(res, {}, new)
    BY <1>3, QuietFunnelStep
  <2>2. /\ res'.meta = res.meta /\ res'.aliases = res.aliases
        /\ DOMAIN res'.ok = DOMAIN res.ok /\ \A d \in DOMAIN res.ok : res'.ok[d] = res.ok[d]
    BY <1>1, <2>1, QuietFunnel
  <2> QED
    BY <2>2 DEF Gathered
<1>4. CASE WalkCancelled \/ Aggregate \/ LoadSaved
  <2>1. Shape(res') /\ Facts(res') = Facts(res)
    BY <1>4, ShownFrom
  <2>2. res'.meta = res.meta /\ res'.ok = res.ok /\ res'.aliases = res.aliases
    BY <2>1, SameFacts
  <2> QED
    BY <2>2, SameGathered
<1>5. CASE res' = res
  BY <1>5
<1>6. \/ res' = res \/ \E d \in Dirs : MergeDir(d)
      \/ BySize \/ ProbeDone \/ FullDone \/ WalkCancelled \/ Aggregate \/ LoadSaved
  BY Steps, AsideLeaves, WorkLeaves DEF Work, Recompute
<1> QED
  BY <1>2, <1>3, <1>4, <1>5, <1>6

-----------------------------------------------------------------------------
(* No read fails *)

LEMMA AnsweredWhen ==
  ASSUME \A p \in DOMAIN found' : found'[p] # Error /\ (~cancel' => found'[p] # None)
  PROVE  Answered'
BY DEF Answered, Error, None

LEMMA OfferedAnswers ==
  ASSUME DiskKept, History, RowsTrue, NEW ps, NEW kind \in {"p", "f"}, Offered(ps, kind)
  PROVE  Answered'
<1> SUFFICES ASSUME NEW p \in DOMAIN found' PROVE found'[p] \notin {Error, None}
  BY AnsweredWhen
<1>1. /\ <<p, kind>> \in DOMAIN rows /\ found'[p] = rows[<<p, kind>>].digest
  BY DEF Offered, CacheHit
<1>2. RowTrue(rows[<<p, kind>>], kind, was)
  BY <1>1 DEF RowsTrue
<1>3. PICK c \in Contents : found'[p] = c \/ found'[p] = Probe[c]
  BY <1>1, <1>2 DEF RowTrue, History
<1> QED
  BY <1>3, ScanAssumption

LEMMA ReaderAnswers ==
  ASSUME Inv, QInv, Still, Answered, events' = 0, cancel' = cancel, NEW p \in DOMAIN job, Reader(p)
  PROVE  Answered'
<1>1. /\ DiskKept /\ History /\ ResultTrue(res) /\ Copied(res) /\ p \in DOMAIN res.meta
      /\ Jobs
  BY DEF Inv, QInv, Jobs
<1>2. Current(p) /\ Readable(p) /\ content[entry[p]] \in Contents
  BY <1>1, ReadsNow
<1>3. Digest(p) \notin {Error, None}
  BY <1>2, ScanAssumption DEF Digest
<1>4. CASE Acquire(p)
  BY <1>4 DEF Acquire, Answered
<1>5. CASE ProveBefore(p)
  BY <1>2, <1>5 DEF ProveBefore, Answered
<1>6. CASE ReadFile(p)
  <2>1. events' # events + 1
    BY DEF Still
  <2>2. \/ found' = Put(found, p, Digest(p))
        \/ cancel /\ found' = Put(found, p, None)
    BY <1>2, <1>6, <2>1 DEF ReadFile
  <2> QED
    BY <1>3, <2>2, AnsweredWhen DEF Answered, Put, Error, None
<1>7. CASE ProveAfter(p)
  <2>1. p \in DOMAIN found /\ found' = Put(found, p, found[p])
    BY <1>1, <1>2, <1>7 DEF ProveAfter, Finish, Jobs
  <2> QED
    BY <2>1, AnsweredWhen DEF Answered, Put
<1> QED
  BY <1>4, <1>5, <1>6, <1>7 DEF Reader

LEMMA AnsweredNext ==
  ASSUME Inv, QInv, Still, Answered, UNCHANGED <<layout, OnDisk>>, events' = 0, [Next]_vars
  PROVE  Answered'
<1>0. DiskKept /\ History /\ RowsTrue
  BY DEF Inv
<1>1. cancel => cancel'
  BY CancelStays
<1>2. CASE found' = found
  BY <1>1, <1>2 DEF Answered
<1>3. CASE BySize \/ ProbeDone
  BY <1>0, <1>3, OfferedAnswers DEF BySize, ProbeDone
<1>4. CASE FullDone
  BY <1>4 DEF FullDone, Map0, Answered
<1>5. CASE TakeFile
  <2>1. cancel' = cancel
    BY <1>5, WorkLeaves DEF Switches
  <2>2. \/ found' = found
        \/ cancel /\ \E p : found' = Put(found, p, None)
    <3> DEFINE p == CHOOSE q \in {x \in DOMAIN job : job[x] = "wait"} : TRUE
    <3>1. found' = IF cancel THEN Put(found, p, None) ELSE found
      BY <1>5 DEF TakeFile
    <3> HIDE DEF p
    <3> QED
      BY <3>1
  <2> QED
    BY <1>2, <2>1, <2>2, AnsweredWhen DEF Answered, Put, Error, None
<1>6. ASSUME NEW p \in DOMAIN job, Reader(p) PROVE Answered'
  <2>1. cancel' = cancel
    BY <1>6, WorkLeaves DEF Switches
  <2> QED
    BY <1>6, <2>1, ReaderAnswers
<1>7. \/ found' = found \/ BySize \/ ProbeDone \/ FullDone \/ TakeFile
      \/ \E p \in DOMAIN job : Reader(p)
  BY Steps, AsideLeaves, WorkLeaves DEF Work
<1> QED
  BY <1>2, <1>3, <1>4, <1>5, <1>6, <1>7

-----------------------------------------------------------------------------
(* What is told of one file of a content is told of the others *)

LEMMA SortedWhen ==
  ASSUME UNCHANGED OnDisk, DOMAIN res'.class \cap DOMAIN job' = {},
         ~res'.partial /\ (phase' \in {"probe", "full", "aggregate"} => ~cancel') =>
           \A p \in DOMAIN res'.class : Alone(res', p)
  PROVE  Sorted'
BY DEF Sorted, Alone, OnDisk, Shared

LEMMA AloneStays ==
  ASSUME NEW r, NEW q, q.meta = r.meta, DOMAIN r.class \subseteq DOMAIN q.class,
         \A p \in DOMAIN r.class : q.class[p] = r.class[p]
  PROVE  \A p \in DOMAIN r.class : Alone(r, p) => Alone(q, p)
BY DEF Alone

LEMMA ClassIsShared ==
  \A n, c : Shared(Class(n, c)) /\ Class(n, c).digest = c
BY DEF Shared, Class

LEMMA SizeAlone ==
  ASSUME DiskKept, History, ResultTrue(res), Copied(res), BySize, DOMAIN res.class = {}
  PROVE  /\ DOMAIN res'.class \cap DOMAIN job' = {}
         /\ \A p \in DOMAIN res'.class : Alone(res', p)
<1>1. /\ res' = Funnelled(res, {}, BySizes) /\ Shape(res)
      /\ DOMAIN job' = DOMAIN res.meta \ (Zero \cup LoneSizes)
  BY QuietSize DEF ResultTrue
<1>2. /\ DOMAIN BySizes = Zero \cup LoneSizes
      /\ \A p \in Zero : BySizes[p] = Class(0, Empty)
  BY DEF BySizes, Over, UniqueClass
<1>3. PICK q : q = res'
  OBVIOUS
<1>4. q.meta = res.meta /\ DOMAIN q.class = Zero \cup LoneSizes
      /\ \A p \in Zero : q.class[p] = Class(0, Empty)
  BY <1>1, <1>2, <1>3, QuietFunnel
<1>5. ASSUME NEW p \in Zero \cup LoneSizes, NEW s \in DOMAIN res.meta, p # s,
             content[entry[p]] = content[entry[s]]
      PROVE  p \in Zero /\ s \in Zero
  <2>1. p \in DOMAIN res.meta
    BY DEF Zero, LoneSizes
  <2>2. res.meta[p].size = res.meta[s].size
    BY <1>5, <2>1, ReadsNow
  <2> QED
    BY <1>5, <2>1, <2>2 DEF Zero, LoneSizes
<1>6. \A p \in DOMAIN q.class : Alone(q, p)
  BY <1>4, <1>5, ClassIsShared DEF Alone
<1> QED
  BY <1>1, <1>3, <1>4, <1>6

LEMMA StageAlone ==
  ASSUME Inv, QInv, Still, Answered, Sorted, StageDone, phase \in Stages,
         NEW known, known \subseteq HashedFiles \ Lone,
         \A p \in known : Alike(p) \subseteq known, NEW q, q = Collected(known)
  PROVE  /\ DOMAIN q.class \cap (HashedFiles \ (Lone \cup known)) = {}
         /\ q.partial = res.partial
         /\ ~cancel /\ ~res.partial => \A p \in DOMAIN q.class : Alone(q, p)
<1>1. /\ DiskKept /\ History /\ ResultTrue(res) /\ Copied(res) /\ Shape(res) /\ Jobs
      /\ DOMAIN res.meta \subseteq DOMAIN res.class \cup DOMAIN job
      /\ DOMAIN res.class \cap DOMAIN job = {} /\ DOMAIN res.class \subseteq DOMAIN res.meta
  BY DEF Inv, QInv, ResultTrue, Classed, Sorted
<1> DEFINE new == ByDigest(known)
<1>2. q = Funnelled(res, {}, new)
  BY QuietStage
<1>3. /\ DOMAIN new = known \cup Blank \cup Lone
      /\ \A p \in known : new[p] = ClassFound(p)
  BY DEF ByDigest, Over, UniqueClass
<1> HIDE DEF new
<1>4. /\ q.meta = res.meta /\ q.partial = res.partial
      /\ DOMAIN q.class = known \cup Blank \cup Lone \cup DOMAIN res.class
      /\ \A p \in known : q.class[p] = ClassFound(p)
      /\ \A p \in DOMAIN res.class \ (known \cup Blank \cup Lone) : q.class[p] = res.class[p]
  <2>1. /\ q.meta = res.meta /\ q.partial = res.partial
        /\ DOMAIN q.class = DOMAIN new \cup DOMAIN res.class
        /\ \A p \in DOMAIN new : q.class[p] = new[p]
        /\ \A p \in DOMAIN res.class \ DOMAIN new : q.class[p] = res.class[p]
    BY <1>1, <1>2, QuietFunnel
  <2> QED
    BY <1>3, <2>1
<1>5. /\ HashedFiles \subseteq DOMAIN job /\ Blank \subseteq DOMAIN job
      /\ Blank \cap HashedFiles = {} /\ Lone \subseteq HashedFiles
      /\ DOMAIN job = DOMAIN found /\ DOMAIN found \subseteq DOMAIN res.meta
  BY <1>1 DEF HashedFiles, Blank, Lone, Jobs, StageDone
<1>6. DOMAIN q.class \cap (HashedFiles \ (Lone \cup known)) = {}
  BY <1>1, <1>4, <1>5
<1>7. ASSUME ~cancel, ~res.partial, NEW p \in DOMAIN q.class PROVE Alone(q, p)
  <2>1. Blank = {} /\ HashedFiles = DOMAIN job
    BY <1>5, <1>7 DEF Answered, Blank, HashedFiles
  <2>2. \A s \in DOMAIN res.class : Alone(res, s)
    BY <1>7 DEF Sorted
  <2>3. CASE p \in DOMAIN res.class
    <3>1. DOMAIN res.class \subseteq DOMAIN q.class
          /\ \A s \in DOMAIN res.class : q.class[s] = res.class[s]
      BY <1>1, <1>4, <1>5
    <3> QED
      BY <1>4, <2>2, <2>3, <3>1, AloneStays
  <2>4. CASE p \in known \cup Lone
    <3> SUFFICES ASSUME NEW s \in DOMAIN res.meta, p # s, content[entry[p]] = content[entry[s]]
                 PROVE  p \in known /\ s \in known
      BY <1>4, ClassIsShared DEF Alone, ClassFound
    <3>1. p \in HashedFiles /\ p \in DOMAIN res.meta /\ p \notin DOMAIN res.class
      BY <1>1, <1>5, <2>4
    <3>2. s \notin DOMAIN res.class
      BY <2>2, <3>1 DEF Alone
    <3>3. s \in HashedFiles
      BY <1>1, <2>1, <3>2
    <3>4. /\ content[entry[p]] = was[res.meta[p].id] /\ content[entry[s]] = was[res.meta[s].id]
          /\ res.meta[p].size = res.meta[s].size
      BY <1>1, <3>1, ReadsNow
    <3>5. /\ found[p] = Reads(was[res.meta[p].id]) /\ found[s] = Reads(was[res.meta[s].id])
      BY <1>1, <3>1, <3>3 DEF Jobs, StageDone, HashedFiles, Digested
    <3>6. s \in Alike(p)
      BY <3>3, <3>4, <3>5 DEF Alike
    <3>7. p \notin Lone
      BY <3>6 DEF Lone
    <3> QED
      BY <2>4, <3>6, <3>7
  <2> QED
    BY <1>4, <2>1, <2>3, <2>4
<1> QED
  BY <1>4, <1>6, <1>7

\* Two files of one digest and size are settled together.
LEMMA SettledTogether ==
  /\ Settled \subseteq HashedFiles \ Lone
  /\ \A p \in Settled : Alike(p) \subseteq Settled
  /\ \A p \in HashedFiles \ Lone : Alike(p) \subseteq HashedFiles \ Lone
<1>1. ASSUME NEW p \in HashedFiles \ Lone, NEW s \in Alike(p) PROVE s \in HashedFiles \ Lone
  <2>1. s \in HashedFiles /\ p \in Alike(p) /\ p \in Alike(s) /\ s \in Alike(s)
    BY DEF Alike
  <2>2. CASE s = p
    BY <2>2
  <2>3. CASE s # p
    BY <2>1, <2>3 DEF Lone
  <2> QED
    BY <2>2, <2>3
<1>2. ASSUME NEW p \in Settled, NEW s \in Alike(p) PROVE s \in Settled
  BY <1>1, <1>2 DEF Settled, Alike
<1> QED
  BY <1>1, <1>2 DEF Settled

LEMMA SortedNext ==
  ASSUME Inv, QInv, Still, Answered, Sorted, UNCHANGED <<layout, OnDisk>>,
         phase # "recompute", [Next]_vars
  PROVE  Sorted'
<1>1. /\ DiskKept /\ History /\ ResultTrue(res) /\ Copied(res) /\ Shape(res) /\ Jobs
      /\ phase \in {"start", "seed", "walk"} => DOMAIN res.class = {}
      /\ phase \notin Stages => DOMAIN job = {}
  BY DEF Inv, QInv, ResultTrue, Classed, Jobs
<1>2. cancel => cancel'
  BY CancelStays
<1>3. CASE BySize
  <2>1. DOMAIN res.class = {}
    BY <1>1, <1>3 DEF BySize
  <2> QED
    BY <1>1, <1>3, <2>1, SizeAlone, SortedWhen
<1>4. CASE ProbeDone
  <2>1. PICK q : q = Collected(Settled)
    OBVIOUS
  <2>2. /\ res' = q /\ DOMAIN job' = HashedFiles \ (Lone \cup Settled) /\ phase' = "full"
        /\ StageDone /\ phase = "probe"
    BY <1>4, <2>1 DEF ProbeDone, Offered
  <2>3. /\ DOMAIN q.class \cap (HashedFiles \ (Lone \cup Settled)) = {}
        /\ q.partial = res.partial
        /\ ~cancel /\ ~res.partial => \A p \in DOMAIN q.class : Alone(q, p)
    BY <2>1, <2>2, StageAlone, SettledTogether DEF Stages
  <2>4. ~res'.partial /\ (phase' \in {"probe", "full", "aggregate"} => ~cancel') =>
          \A p \in DOMAIN res'.class : Alone(res', p)
    BY <1>2, <2>2, <2>3
  <2> QED
    BY <2>2, <2>3, <2>4, SortedWhen
<1>5. CASE FullDone
  <2>1. PICK q : q = Collected(HashedFiles \ Lone)
    OBVIOUS
  <2>2. /\ res' = q /\ DOMAIN job' = {} /\ phase' = "aggregate" /\ StageDone /\ phase = "full"
    BY <1>5, <2>1 DEF FullDone, Map0
  <2>3. /\ q.partial = res.partial
        /\ ~cancel /\ ~res.partial => \A p \in DOMAIN q.class : Alone(q, p)
    BY <2>1, <2>2, StageAlone, SettledTogether DEF Stages
  <2>4. ~res'.partial /\ (phase' \in {"probe", "full", "aggregate"} => ~cancel') =>
          \A p \in DOMAIN res'.class : Alone(res', p)
    BY <1>2, <2>2, <2>3
  <2> QED
    BY <2>2, <2>4, SortedWhen
<1>6. ASSUME NEW d \in Dirs, MergeDir(d) PROVE Sorted'
  <2>1. DOMAIN res'.class = {}
    BY <1>6, MergeDirTrue
  <2> QED
    BY <2>1, SortedWhen
<1>7. CASE WalkCancelled
  <2>1. res' = PartlyPublished(res) /\ job' = job /\ phase = "walk"
    BY <1>7, WorkLeaves DEF WalkCancelled
  <2>2. PICK q : q = PartlyPublished(res)
    OBVIOUS
  <2>3. q.partial = TRUE
    BY <1>1, <2>2, PublishedKeeps
  <2>4. DOMAIN job = {}
    BY <1>1, <2>1 DEF Stages
  <2> QED
    BY <2>1, <2>2, <2>3, <2>4, SortedWhen
<1>8. CASE Aggregate \/ LoadSaved
  <2>1. /\ res'.meta = res.meta /\ res'.class = res.class /\ job' = job
        /\ res'.partial = res.partial \/ res'.partial = TRUE
    BY <1>8, WorkLeaves, AggregateTrue
  <2>2. phase \notin Stages
    BY <1>8 DEF Aggregate, LoadSaved, Stages
  <2>3. ASSUME Aggregate, cancel PROVE res'.partial = TRUE
    <3>1. res' = PartlyPublished(res)
      BY <2>3 DEF Aggregate
    <3>2. PICK q : q = PartlyPublished(res)
      OBVIOUS
    <3>3. q.partial = TRUE
      BY <1>1, <3>2, PublishedKeeps
    <3> QED
      BY <3>1, <3>2, <3>3
  <2>4. LoadSaved => phase = "done"
    BY DEF LoadSaved
  <2>5. ~res'.partial => ~res.partial /\ (phase \in {"probe", "full", "aggregate"} => ~cancel)
    BY <1>8, <2>1, <2>2, <2>3, <2>4 DEF Stages
  <2>6. ~res'.partial => \A p \in DOMAIN res'.class : Alone(res', p)
    BY <2>1, <2>5 DEF Sorted, Alone
  <2>7. DOMAIN job' = {}
    BY <1>1, <2>1, <2>2
  <2> QED
    BY <2>6, <2>7, SortedWhen
<1>9. ASSUME res' = res, DOMAIN job' = DOMAIN job,
             phase \in {"probe", "full", "aggregate"} => phase' = phase
      PROVE  Sorted'
  <2>1. ~res'.partial /\ (phase' \in {"probe", "full", "aggregate"} => ~cancel') =>
          \A p \in DOMAIN res'.class : Alone(res', p)
    BY <1>2, <1>9 DEF Sorted
  <2> QED
    BY <1>9, <2>1, SortedWhen DEF Sorted
<1>10. CASE Aside
  BY <1>9, <1>10, AsideLeaves DEF Work
<1>11. CASE BeginScan \/ SeedCache
  BY <1>9, <1>11, WorkLeaves DEF BeginScan, SeedCache
<1>12. CASE TakeFile \/ \E p \in DOMAIN job : Reader(p)
  <2>1. UNCHANGED <<res, phase>>
    BY <1>12, WorkLeaves
  <2>2. DOMAIN job' = DOMAIN job
    BY <1>12 DEF TakeFile, Reader, Acquire, ProveBefore, ReadFile, ProveAfter, Finish
  <2> QED
    BY <1>9, <2>1, <2>2
<1>13. CASE (\E b \in BOOLEAN : Tick(b)) \/ (\E d \in Dirs : ListDir(d) \/ StatEntry(d))
  BY <1>9, <1>13, WorkLeaves
<1> QED
  BY <1>3, <1>4, <1>5, <1>6, <1>7, <1>8, <1>10, <1>11, <1>12, <1>13, Steps DEF Recompute

-----------------------------------------------------------------------------
(* What is shown is computed from what was found *)

\* Folders whose manifests are what they are made of.
Arranged(r) ==
  /\ DOMAIN r.ok \in SUBSET Dirs /\ IsFiniteSet(DOMAIN r.ok)
  /\ \A d \in DOMAIN r.ok : /\ r.ok[d] => Orderly(r, d)
                            /\ \A k \in r.children[d] : k \in Dirs /\ ParentOf[k] = d

LEMMA OneSolution ==
  ASSUME NEW r, Arranged(r), NEW f, NEW g, \A d \in DOMAIN r.ok : f[d] = ManifestOf(r, f, d),
         \A d \in DOMAIN r.ok : g[d] = ManifestOf(r, g, d)
  PROVE  \A d \in DOMAIN r.ok : f[d] = g[d]
<1> DEFINE D == DOMAIN r.ok
           X == {S \in SUBSET D : \A d \in S : f[d] = g[d]}
<1>1. D \in SUBSET Dirs /\ IsFiniteSet(D)
  BY DEF Arranged
<1>2. ASSUME NEW S \in SUBSET D, NEW d \in D \ S, \A k \in S : f[k] = g[k],
             \A k \in D : ParentOf[k] = d => k \in S
      PROVE  f[d] = g[d]
  <2>1. r.ok[d] => Orderly(r, d)
    BY DEF Arranged
  <2>2. \A k \in r.children[d] : k \in DOMAIN r.ok => f[k] = g[k]
    BY <1>2 DEF Arranged
  <2>3. ManifestOf(r, f, d) = ManifestOf(r, g, d)
    BY <2>1, <2>2, ManifestDepends
  <2> QED
    BY <2>3
<1>3. {} \in X
  OBVIOUS
<1>4. \A S \in SUBSET D : \A d \in D \ S :
        S \in X /\ (\A k \in D : ParentOf[k] = d => k \in S) => S \cup {d} \in X
  BY <1>2
<1>5. D \in X
  <2> HIDE DEF X
  <2> QED
    BY <1>1, <1>3, <1>4, UpTheTree
<1> QED
  BY <1>5

LEMMA SameRows ==
  ASSUME NEW r, NEW q, q.meta = r.meta, q.class = r.class, q.ok = r.ok,
         q.children = r.children, q.links = r.links, q.aliases = r.aliases
  PROVE  /\ \A d : Orderly(r, d) => Orderly(q, d)
         /\ \A man, d : ManifestOf(q, man, d) = ManifestOf(r, man, d)
<1>1. \A d : FilesIn(q, d) = FilesIn(r, d)
  BY DEF FilesIn
<1>2. \A d : Orderly(r, d) => Orderly(q, d)
  BY <1>1 DEF Orderly
<1>3. \A d : /\ FileRows(q, d) = FileRows(r, d) /\ AlsoRows(q, d) = AlsoRows(r, d)
             /\ SubRows(q, d) = SubRows(r, d)
  BY <1>1 DEF FileRows, AlsoRows, SubRows
<1>4. \A d : InOrder(q, d) = InOrder(r, d)
  BY <1>3 DEF InOrder
<1>5. \A man, d : Complete(q, man, d) = Complete(r, man, d)
  BY <1>3 DEF Complete
<1>6. \A man, x : Row(q, man, x) = Row(r, man, x)
  BY DEF Row
<1>7. ASSUME NEW man, NEW d PROVE ManifestOf(q, man, d) = ManifestOf(r, man, d)
  <2>1. [i \in DOMAIN InOrder(q, d) |-> Row(q, man, InOrder(q, d)[i])]
          = [i \in DOMAIN InOrder(r, d) |-> Row(r, man, InOrder(r, d)[i])]
    BY <1>4, <1>6
  <2> QED
    BY <1>5, <2>1 DEF ManifestOf
<1> QED
  BY <1>2, <1>7

LEMMA SameManifests ==
  ASSUME NEW r, Arranged(r), NEW q, q.meta = r.meta, q.class = r.class, q.ok = r.ok,
         q.children = r.children, q.links = r.links, q.aliases = r.aliases
  PROVE  Arranged(q) /\ Manifests(q) = Manifests(r)
<1>1. Arranged(q)
  BY SameRows DEF Arranged
<1>2. PICK f : f = Manifests(q)
  OBVIOUS
<1>3. PICK g : g = Manifests(r)
  OBVIOUS
<1>4. DOMAIN f = DOMAIN q.ok /\ \A d \in DOMAIN q.ok : f[d] = ManifestOf(q, f, d)
  BY <1>1, <1>2, ManifestsAre DEF Arranged
<1>5. DOMAIN g = DOMAIN r.ok /\ \A d \in DOMAIN r.ok : g[d] = ManifestOf(r, g, d)
  BY <1>3, ManifestsAre DEF Arranged
<1>6. \A d \in DOMAIN r.ok : f[d] = ManifestOf(r, f, d)
  BY <1>4, SameRows
<1>7. \A d \in DOMAIN r.ok : f[d] = g[d]
  BY <1>5, <1>6, OneSolution
<1>8. f = [d \in DOMAIN q.ok |-> f[d]] /\ g = [d \in DOMAIN r.ok |-> g[d]]
  BY <1>1, <1>2, <1>3, ManifestsAre DEF Arranged
<1>9. f = g
  BY <1>7, <1>8
<1> QED
  BY <1>1, <1>2, <1>3, <1>9

LEMMA AggregatedIs ==
  ASSUME NEW r, Shape(r), Arranged(r), NEW man, man = Manifests(r), NEW q, q = Aggregated(r, man)
  PROVE  Published(q) /\ Facts(q) = Facts(r) /\ Shape(q)
<1>1. /\ Shape(q) /\ Facts(q) = Facts(r) /\ q.fileGroups = FileGroups(r)
      /\ q.dirGroups = DirGroupsOf(man)
  BY PublishedKeeps
<1>2. /\ q.meta = r.meta /\ q.class = r.class /\ q.ok = r.ok
      /\ q.children = r.children /\ q.links = r.links /\ q.aliases = r.aliases
  BY <1>1, SameFacts
<1>3. Manifests(q) = Manifests(r)
  BY <1>2, SameManifests
<1>4. FileGroups(q) = FileGroups(r)
  BY <1>2 DEF FileGroups, Classes, Members
<1>5. PairsMeet(q)
  BY <1>2, AggregatedPairs
<1> QED
  BY <1>1, <1>3, <1>4, <1>5 DEF Published

LEMMA ArrangedNow ==
  ASSUME DiskKept, NEW r, ResultTrue(r), Copied(r),
         DOMAIN r.ok \subseteq layout.roots \cup layout.folders
  PROVE  Arranged(r)
<1>1. DOMAIN r.ok \in SUBSET Dirs /\ IsFiniteSet(DOMAIN r.ok)
  BY EntriesFinite, FS_Subset
<1>2. \A d \in DOMAIN r.ok : r.ok[d] => Orderly(r, d)
  BY OrderlyWhenCopied
<1>3. \A d \in DOMAIN r.ok : \A k \in r.children[d] : k \in Dirs /\ ParentOf[k] = d
  BY DEF ResultTrue, Maps
<1> QED
  BY <1>1, <1>2, <1>3 DEF Arranged

LEMMA PublishedNext ==
  ASSUME Inv, QInv, Still, phase \in Ends /\ ~res.partial => Published(res),
         phase # "recompute", [Next]_vars, phase' \in Ends, ~res'.partial
  PROVE  Published(res)'
<1> SUFFICES Published(res')
  BY DEF Published
<1>1. /\ DiskKept /\ ResultTrue(res) /\ Copied(res) /\ Shape(res)
      /\ DOMAIN res.ok \subseteq layout.roots \cup layout.folders
  BY DEF Inv, QInv, ResultTrue, Opens
<1>2. Arranged(res)
  BY <1>1, ArrangedNow
<1>3. CASE WalkCancelled \/ (Aggregate /\ cancel)
  <2>1. PICK q : q = PartlyPublished(res)
    OBVIOUS
  <2>2. res' = q
    BY <1>3, <2>1 DEF WalkCancelled, Aggregate
  <2>3. q.partial = TRUE
    BY <1>1, <2>1, PublishedKeeps
  <2> QED
    BY <2>2, <2>3
<1>4. CASE Aggregate /\ ~cancel
  <2>1. PICK man : man = Manifests(res)
    OBVIOUS
  <2>2. res' = Aggregated(res, man)
    BY <1>4, <2>1 DEF Aggregate
  <2> QED
    BY <1>1, <1>2, <2>1, <2>2, AggregatedIs
<1>5. CASE LoadSaved
  <2>1. PICK r : r = Reread
    OBVIOUS
  <2>2. PICK man : man = Manifests(r)
    OBVIOUS
  <2>3. res' = Aggregated(r, man)
    BY <1>5, <2>1, <2>2 DEF LoadSaved
  <2>4. Shape(r) /\ Facts(r) = Facts(res)
    BY <2>1, ReadBackKeeps DEF Reread
  <2>5. Arranged(r)
    <3>1. /\ r.meta = res.meta /\ r.class = res.class /\ r.ok = res.ok
          /\ r.children = res.children /\ r.links = res.links /\ r.aliases = res.aliases
      BY <2>4, SameFacts
    <3> QED
      BY <1>2, <3>1, SameManifests
  <2> QED
    BY <2>2, <2>3, <2>4, <2>5, AggregatedIs
<1>6. CASE ~(WalkCancelled \/ Aggregate \/ LoadSaved)
  <2>1. phase \in Ends
    BY <1>6, ShownAfter DEF Ends
  <2>2. /\ ~BySize /\ ~ProbeDone /\ ~FullDone /\ ~Recompute /\ \A d : ~MergeDir(d)
    BY <2>1 DEF BySize, ProbeDone, FullDone, Recompute, MergeDir, Ends
  <2>3. res' = res
    BY <1>6, <2>2, Steps, AsideLeaves, WorkLeaves DEF Work
  <2> QED
    BY <2>1, <2>3
<1> QED
  BY <1>3, <1>4, <1>5, <1>6

-----------------------------------------------------------------------------
(* A whole result is faithful to the disk *)

LEMMA WalkComplete ==
  ASSUME Inv, Stayed, Idle, OnTheWay, phase \in Begun \ {"walk"}, ~res.partial
  PROVE  \A d \in Dirs : WalkTo(d) /\ Ancestors[d] \subseteq folders => d \in DOMAIN res.ok
<1> DEFINE P == {d \in Dirs : WalkTo(d) /\ Ancestors[d] \subseteq folders => d \in DOMAIN res.ok}
<1>1. /\ Coming = DOMAIN res.ok \cup layout.denied
      /\ NormalRoots(layout.roots) \subseteq Coming
      /\ \A d \in DOMAIN res.ok : res.children[d] \subseteq Coming /\ ReadWhole(res, d)
  BY DEF Idle, OnTheWay, Coming, Inv, KnownWhole, Begun
<1>2. ASSUME NEW d \in Dirs, ParentOf[d] # Above => ParentOf[d] \in P PROVE d \in P
  <2> SUFFICES ASSUME WalkTo(d), Ancestors[d] \subseteq folders PROVE d \in DOMAIN res.ok
    OBVIOUS
  <2>1. PICK top \in NormalRoots(layout.roots) :
          /\ top \in Ancestors[d] /\ top \notin layout.denied
          /\ \A e \in Ancestors[d] \ Ancestors[top] : e \notin layout.denied \cup layout.skipped
    BY DEF WalkTo, Inside
  <2>2. CASE d = top
    BY <1>1, <2>1, <2>2
  <2>3. CASE d # top
    <3>1. /\ ParentOf[d] # Above /\ ParentOf[d] \in Dirs /\ Inside(ParentOf[d], top)
          /\ Ancestors[ParentOf[d]] \subseteq Ancestors[d] /\ d \notin Ancestors[top]
          /\ d \in Ancestors[d]
      BY <2>1, <2>3, InsideStrictly, AncestorsIn
    <3>2. WalkTo(ParentOf[d])
      BY <2>1, <3>1 DEF WalkTo
    <3>3. ParentOf[d] \in DOMAIN res.ok
      BY <1>2, <3>1, <3>2
    <3>4. d \in folders /\ d \notin layout.denied \cup layout.skipped
      BY <2>1, <3>1
    <3>5. d \in res.children[ParentOf[d]]
      BY <1>1, <3>3, <3>4 DEF ReadWhole
    <3> QED
      BY <1>1, <3>3, <3>4, <3>5
  <2> QED
    BY <2>2, <2>3
<1>3. Dirs \subseteq P
  <2> HIDE DEF P
  <2> QED
    BY <1>2, DownTheTree
<1> QED
  BY <1>3

LEMMA BareHolds ==
  ASSUME Inv, QInv, Still, Gathered(res), NEW d \in DOMAIN res.ok, Bare(d),
         res.children[d] \subseteq DOMAIN res.ok \cup layout.denied
  PROVE  Holds(res, d)
<1>1. /\ DiskKept /\ Copied(res) /\ ResultTrue(res) /\ Maps(res)
  BY DEF Inv, QInv, ResultTrue
<1>2. res.ok[d] = TRUE
  BY DEF Gathered
<1>3. Exact(res, d)
  BY <1>1, <1>2 DEF Copied
<1>4. res.children[d] = Subfolders(d) /\ Subfolders(d) \subseteq DOMAIN res.ok
  BY <1>3 DEF Exact, Bare
<1>5. res.aliases[d] = {}
  <2> SUFFICES ASSUME NEW a \in res.aliases[d] PROVE FALSE
    OBVIOUS
  <2>1. /\ a[1] \in DOMAIN entry /\ a[2] \in DOMAIN entry /\ entry[a[1]] = entry[a[2]]
        /\ a[1] # a[2] /\ a[1][1] = d
    BY <1>1, <1>3 DEF Exact, Gathered, Maps
  <2>2. Links(entry[a[1]]) = 1
    BY <2>1 DEF Bare
  <2> QED
    BY <1>1, <2>1, <2>2, LinksAre
<1>6. ASSUME NEW p \in DOMAIN entry, p[1] = d
      PROVE  IF Kind[entry[p]] = "link" THEN <<"L", p[2], content[entry[p]]>> \in res.links[d]
                                        ELSE p \in DOMAIN res.meta
  <2>1. Entered(res, d, p)
    BY <1>3, <1>6 DEF Exact
  <2>2. p \in DOMAIN res.meta => Kind[entry[p]] = "file"
    BY <1>1 DEF Copied
  <2> QED
    BY <1>5, <2>1, <2>2 DEF Entered
<1>7. res.links[d] = {<<"L", p[2], content[entry[p]]>> :
                        p \in {q \in DOMAIN entry : q[1] = d /\ Kind[entry[q]] = "link"}}
  <2>1. \A l \in res.links[d] : \E p \in DOMAIN entry :
          p[1] = d /\ Kind[entry[p]] = "link" /\ l = <<"L", p[2], content[entry[p]]>>
    BY <1>3 DEF Exact
  <2> QED
    BY <1>6, <2>1
<1> QED
  BY <1>2, <1>4, <1>5, <1>6, <1>7 DEF Holds

LEMMA FaithfulNow ==
  ASSUME Inv, QInv, Idle, Still, OnTheWay, Gathered(res), Sorted, ~res.partial,
         phase \in Ends \/ (phase = "aggregate" /\ ~cancel)
  PROVE  Faithful(res)
<1>1. /\ DiskKept /\ History /\ Copied(res) /\ ResultTrue(res)
      /\ DOMAIN res.ok \subseteq layout.roots \cup layout.folders
  BY DEF Inv, QInv, Opens
<1>2. phase \in Begun \ {"walk"} /\ phase \in Late /\ Stayed
  BY DEF Ends, Begun, Late, Still, Stayed
<1>3. Told(res)
  <2>1. DOMAIN res.class = DOMAIN res.meta
    BY <1>2 DEF Inv, Classed, ResultTrue
  <2>2. ASSUME NEW p \in DOMAIN res.class, Shared(res.class[p])
        PROVE  res.class[p] = Class(SizeOf[content[entry[p]]], content[entry[p]])
    <3>1. content[entry[p]] = was[res.meta[p].id]
      BY <1>1, <2>1, ReadsNow
    <3> QED
      BY <1>1, <2>2, <3>1 DEF ResultTrue, ClassTrue
  <2>3. \A p \in DOMAIN res.class : Alone(res, p)
    BY <1>2 DEF Sorted, Ends
  <2> QED
    BY <2>1, <2>2, <2>3 DEF Told, Alone
<1>4. Named(res)
  <2>1. ASSUME NEW p \in DOMAIN res.meta PROVE p \in Visible
    <3>1. p \in DOMAIN entry /\ Kind[entry[p]] = "file" /\ p \notin layout.filtered
      BY <1>1 DEF Copied, Here, Gathered
    <3>2. WalkTo(p[1])
      BY <1>1 DEF ResultTrue, File, OnTheWay
    <3> QED
      BY <3>1, <3>2 DEF Visible, WalkTo
  <2>2. ASSUME NEW p \in Visible PROVE \E q \in DOMAIN res.meta : entry[q] = entry[p]
    <3>1. p \in DOMAIN entry /\ Kind[entry[p]] = "file" /\ p \notin layout.filtered /\ WalkTo(p[1])
      BY DEF Visible, WalkTo
    <3>2. Ancestors[p[1]] \subseteq folders /\ p[1] \in Dirs
      BY <1>1, <3>1, EntriesFinite DEF DiskKept
    <3>3. p[1] \in DOMAIN res.ok
      BY <1>2, <3>1, <3>2, WalkComplete
    <3> QED
      BY <3>1, <3>3 DEF Gathered
  <2> QED
    BY <2>1, <2>2 DEF Named, Gathered
<1>5. ASSUME NEW d \in DOMAIN res.ok
      PROVE  /\ res.ok[d] \in BOOLEAN /\ (res.ok[d] => Orderly(res, d))
             /\ \A k \in res.children[d] : k \in Dirs /\ ParentOf[k] = d
             /\ Bare(d) => Holds(res, d)
  <2>1. res.ok[d] \in BOOLEAN /\ (res.ok[d] => Orderly(res, d))
    BY <1>1, OrderlyWhenCopied DEF Copied
  <2>2. \A k \in res.children[d] : k \in Dirs /\ ParentOf[k] = d
    BY <1>1 DEF ResultTrue, Maps
  <2>3. res.children[d] \subseteq DOMAIN res.ok \cup layout.denied
    BY <1>2 DEF OnTheWay, Coming, Idle
  <2> QED
    BY <2>1, <2>2, <2>3, BareHolds
<1> QED
  BY <1>1, <1>3, <1>4, <1>5 DEF Faithful

-----------------------------------------------------------------------------
(* What a removal takes away *)

Place(d) == <<ParentOf[d], DirName[d]>>

\* A folder that goes with what is removed.
Lost(r, ps, d) == \E e \in Ancestors[d] : Place(e) \in ps \ DOMAIN r.meta

LEMMA PrunedIs ==
  ASSUME NEW r, Shape(r), NEW ps, NEW q, q = Pruned(r, ps), DOMAIN r.class = DOMAIN r.meta,
         DOMAIN r.links = DOMAIN r.ok
  PROVE  /\ DOMAIN q.meta = {p \in DOMAIN r.meta : p \notin ps /\ ~Lost(r, ps, p[1])}
         /\ DOMAIN q.class = DOMAIN q.meta
         /\ \A p \in DOMAIN q.class : q.class[p] = r.class[p]
         /\ DOMAIN q.ok = {d \in DOMAIN r.ok : ~Lost(r, ps, d)}
         /\ \A d \in DOMAIN q.ok :
              /\ q.ok[d] = r.ok[d] /\ q.children[d] = r.children[d] \cap DOMAIN q.ok
              /\ q.links[d] = r.links[d] /\ q.aliases[d] \subseteq r.aliases[d]
         /\ Shape(q)
<1> DEFINE tops == ps \ DOMAIN r.meta
           gone(d) == \E e \in Ancestors[d] : <<ParentOf[e], DirName[e]>> \in tops
           meta == {p \in DOMAIN r.meta : p \notin ps /\ ~gone(p[1])}
           dirs == {d \in DOMAIN r.ok : ~gone(d)}
           aliases == [d \in dirs |-> {a \in r.aliases[d] : a[2] \in meta /\ a[1] \notin tops}]
           children == [d \in dirs |-> r.children[d] \cap dirs]
<1>1. q = [NewResult EXCEPT
             !.partial  = r.partial,
             !.meta     = Restrict(r.meta, meta),
             !.class    = Restrict(r.class, meta \cap DOMAIN r.class),
             !.ok       = Restrict(r.ok, dirs),
             !.children = children,
             !.links    = Restrict(r.links, dirs),
             !.aliases  = aliases]
  BY Zenon DEF Pruned
<1>2. \A d : gone(d) <=> Lost(r, ps, d)
  BY DEF Lost, Place
<1>3. /\ meta = {p \in DOMAIN r.meta : p \notin ps /\ ~Lost(r, ps, p[1])}
      /\ dirs = {d \in DOMAIN r.ok : ~Lost(r, ps, d)}
  BY <1>2
<1>4. /\ DOMAIN children = dirs /\ \A d \in dirs : children[d] = r.children[d] \cap dirs
      /\ \A d \in dirs : aliases[d] \subseteq r.aliases[d]
  OBVIOUS
<1> HIDE DEF meta, dirs, aliases, children
<1>5. /\ q.meta = Restrict(r.meta, meta) /\ q.class = Restrict(r.class, meta \cap DOMAIN r.class)
      /\ q.ok = Restrict(r.ok, dirs) /\ q.children = children
      /\ q.links = Restrict(r.links, dirs) /\ q.aliases = aliases /\ Shape(q)
  BY <1>1 DEF NewResult, Shape
<1>6. /\ meta \subseteq DOMAIN r.meta /\ dirs \subseteq DOMAIN r.ok
  BY <1>3
<1>7. /\ DOMAIN q.meta = meta /\ DOMAIN q.class = meta /\ DOMAIN q.ok = dirs
      /\ \A p \in meta : q.class[p] = r.class[p]
      /\ \A d \in dirs : q.ok[d] = r.ok[d] /\ q.links[d] = r.links[d]
  BY <1>5, <1>6 DEF Restrict
<1> QED
  BY <1>3, <1>4, <1>5, <1>7

LEMMA SingleLinks ==
  ASSUME DiskKept, Origin, events = 0, Single
  PROVE  /\ \A p, q \in DOMAIN entry : entry[p] = entry[q] => p = q
         /\ \A p \in DOMAIN entry : Links(entry[p]) = 1
<1>1. \A p, q \in DOMAIN entry : entry[p] = entry[q] => p = q
  BY DEF Origin, Single, DiskKept
<1>2. ASSUME NEW p \in DOMAIN entry PROVE Links(entry[p]) = 1
  <2>1. {q \in DOMAIN entry : entry[q] = entry[p]} = {p}
    BY <1>1
  <2>2. Cardinality({p}) = 1
    BY FS_Singleton
  <2> QED
    BY <2>1, <2>2 DEF Links
<1> QED
  BY <1>1, <1>2

\* A folder the walk went into is not one that keeps its parent from being whole.
LEMMA ReachedBelow ==
  ASSUME NEW d \in Dirs, NEW k \in Dirs, WalkTo(d), WalkTo(k), ParentOf[k] = d
  PROVE  k \notin layout.denied \cup layout.skipped
<1>1. PICK top \in NormalRoots(layout.roots) :
        /\ Inside(k, top)
        /\ \A e \in Ancestors[k] \ Ancestors[top] : e \notin layout.denied \cup layout.skipped
  BY DEF WalkTo
<1>2. PICK over \in NormalRoots(layout.roots) : Inside(d, over)
  BY DEF WalkTo
<1>3. k \in Ancestors[k] /\ Inside(k, over) /\ ParentOf[k] # Above
  BY <1>2, AncestorsIn, InsideChild, TreeAssumption
<1>4. k # top
  <2> SUFFICES ASSUME k = top PROVE FALSE
    OBVIOUS
  <2>1. k = over
    BY <1>2, <1>3 DEF NormalRoots
  <2>2. k \notin Ancestors[d]
    BY <1>3, NotInParent
  <2> QED
    BY <1>2, <2>1, <2>2 DEF Inside
<1>5. k \notin Ancestors[top]
  BY <1>1, <1>4, InsideStrictly DEF Inside
<1> QED
  BY <1>1, <1>3, <1>5

\* What is removed is a file of the result, or a folder that was read.
LEMMA RemovableIs ==
  ASSUME NEW r, Arranged(r), Published(r), DOMAIN r.class = DOMAIN r.meta, r = res,
         NEW ps \in Removable
  PROVE  \/ ps \subseteq DOMAIN r.meta
         \/ \E d \in DOMAIN r.ok : ps = {Place(d)}
<1>1. ASSUME NEW p \in UNION r.fileGroups PROVE p \in DOMAIN r.meta
  BY DEF Published, FileGroups, Members
<1>2. PICK man : man = Manifests(r)
  OBVIOUS
<1>3. DOMAIN man = DOMAIN r.ok /\ r.dirGroups = DirGroupsOf(man)
  BY <1>2, ManifestsAre DEF Arranged, Published
<1>4. \A g \in DirGroupsOf(man) : g \subseteq DOMAIN man
  BY DEF DirGroupsOf
<1>5. \A d \in UNION r.dirGroups : d \in DOMAIN r.ok
  BY <1>3, <1>4
<1> QED
  BY <1>1, <1>5 DEF Removable, Place

LEMMA TakenAway ==
  ASSUME Inv, QInv, Origin, Still, OnTheWay, Single, Published(res), Faithful(res),
         NEW ps \in Removable, RemovePaths(ps)
  PROVE  /\ DOMAIN entry' = {p \in DOMAIN entry : p \notin ps /\ ~Lost(res, ps, p[1])}
         /\ \A p \in DOMAIN entry' : entry'[p] = entry[p]
         /\ folders' = {d \in folders : ~Lost(res, ps, d)}
         /\ ps \cap DOMAIN entry \subseteq DOMAIN res.meta
         /\ \A d \in Dirs : WalkTo(d) /\ ~Lost(res, ps, d) =>
              \A k \in folders : ParentOf[k] = d /\ Lost(res, ps, k) =>
                k \notin layout.denied \cup layout.skipped
<1>1. /\ DiskKept /\ DOMAIN res.ok \subseteq layout.roots \cup layout.folders
      /\ Volume(layout) /\ DOMAIN res.class = DOMAIN res.meta
      /\ DOMAIN res.meta \subseteq DOMAIN entry
  BY LayoutAssumption DEF Inv, DiskKept, Faithful, Told, Named, Visible
<1>2. Arranged(res)
  BY <1>1, ManifestsOfFaithful DEF Arranged, Faithful
<1>3. \/ ps \subseteq DOMAIN res.meta
      \/ \E d \in DOMAIN res.ok : ps = {Place(d)}
  BY <1>1, <1>2, RemovableIs
<1>4. /\ DOMAIN entry \subseteq DOMAIN layout.entry /\ folders \subseteq layout.folders
      /\ \A d \in layout.roots \cup layout.folders : Place(d) \notin DOMAIN layout.entry
      /\ \A d \in layout.folders : d \in Dirs /\ Ancestors[d] \subseteq layout.folders
      /\ \A p \in DOMAIN layout.entry : p[1] \in layout.folders
  BY <1>1 DEF DiskKept, Volume, Place
<1>5. ASSUME NEW d \in layout.folders
      PROVE  Lost(res, ps, d) <=> \E e \in Ancestors[d] : Place(e) \in ps
  <2>1. \A e \in Ancestors[d] : Place(e) \notin DOMAIN res.meta
    BY <1>1, <1>4
  <2> QED
    BY <2>1 DEF Lost
<1>6. ASSUME NEW p \in DOMAIN entry PROVE Gone(p, ps) <=> p \in ps \/ Lost(res, ps, p[1])
  BY <1>4, <1>5 DEF Gone, Place
<1>7. ASSUME NEW d \in folders PROVE Gone(Place(d), ps) <=> Lost(res, ps, d)
  <2>1. d \in Dirs /\ d \in layout.folders
    BY <1>4
  <2>2. /\ ParentOf[d] # Above => ParentOf[d] \in Dirs
        /\ ParentOf[d] \in Dirs => ParentOf[d] # Above
    BY <2>1, TreeAssumption
  <2>3. Ancestors[d] = {d} \cup (IF ParentOf[d] = Above THEN {} ELSE Ancestors[ParentOf[d]])
    BY <2>1, AncestorsAre
  <2>4. Gone(Place(d), ps) <=>
          Place(d) \in ps \/ (ParentOf[d] \in Dirs /\ \E e \in Ancestors[ParentOf[d]] : Place(e) \in ps)
    BY DEF Gone, Place
  <2> QED
    BY <1>5, <2>1, <2>2, <2>3, <2>4
<1>8. /\ DOMAIN entry' = {p \in DOMAIN entry : p \notin ps /\ ~Lost(res, ps, p[1])}
      /\ \A p \in DOMAIN entry' : entry'[p] = entry[p]
  <2>1. entry' = Restrict(entry, {p \in DOMAIN entry : ~Gone(p, ps)})
    BY DEF RemovePaths
  <2>2. /\ DOMAIN entry' = {p \in DOMAIN entry : ~Gone(p, ps)}
        /\ \A p \in DOMAIN entry' : entry'[p] = entry[p]
    BY <2>1 DEF Restrict
  <2> QED
    BY <1>6, <2>2
<1>9. folders' = {d \in folders : ~Lost(res, ps, d)}
  BY <1>7 DEF RemovePaths, Place
<1>10. ps \cap DOMAIN entry \subseteq DOMAIN res.meta
  BY <1>1, <1>3, <1>4
<1>11. ASSUME NEW d \in Dirs, WalkTo(d), ~Lost(res, ps, d),
              NEW k \in folders, ParentOf[k] = d, Lost(res, ps, k)
       PROVE  k \notin layout.denied \cup layout.skipped
  <2>1. k \in Dirs /\ Ancestors[k] = {k} \cup Ancestors[d]
    BY <1>4, <1>11, AncestorsAre, TreeAssumption
  <2>2. Place(k) \in ps \ DOMAIN res.meta
    BY <1>11, <2>1 DEF Lost
  <2>3. PICK e \in DOMAIN res.ok : Place(e) = Place(k)
    BY <1>3, <2>2
  <2>4. e = k
    BY <1>2, <2>1, <2>3, TreeAssumption DEF Arranged, Place
  <2>5. WalkTo(k)
    BY <2>4 DEF OnTheWay
  <2> QED
    BY <1>11, <2>1, <2>5, ReachedBelow
<1> QED
  BY <1>8, <1>9, <1>10, <1>11

-----------------------------------------------------------------------------
(* A removal leaves a result that is faithful to what is left *)

LEMMA RemovedFaithful ==
  ASSUME Inv, QInv, Origin, Still, OnTheWay, Single, Published(res), Faithful(res),
         NEW ps \in Removable, RemovePaths(ps), NEW q, q = Pruned(res, ps)
  PROVE  Faithful(q)'
<1>1. /\ Shape(res) /\ DiskKept /\ DOMAIN res.class = DOMAIN res.meta
      /\ DOMAIN res.links = DOMAIN res.ok
      /\ DOMAIN res.meta \subseteq Visible /\ DOMAIN res.meta \subseteq DOMAIN entry
      /\ DOMAIN res.ok \subseteq layout.roots \cup layout.folders /\ DOMAIN res.ok \subseteq Dirs
  BY ManifestsOfFaithful DEF Inv, ResultTrue, Maps, Faithful, Told, Named, Visible
<1>2. /\ DOMAIN q.meta = {p \in DOMAIN res.meta : p \notin ps /\ ~Lost(res, ps, p[1])}
      /\ DOMAIN q.class = DOMAIN q.meta
      /\ \A p \in DOMAIN q.class : q.class[p] = res.class[p]
      /\ DOMAIN q.ok = {d \in DOMAIN res.ok : ~Lost(res, ps, d)}
      /\ \A d \in DOMAIN q.ok :
           /\ q.ok[d] = res.ok[d] /\ q.children[d] = res.children[d] \cap DOMAIN q.ok
           /\ q.links[d] = res.links[d] /\ q.aliases[d] \subseteq res.aliases[d]
  BY <1>1, PrunedIs
<1>3. /\ DOMAIN entry' = {p \in DOMAIN entry : p \notin ps /\ ~Lost(res, ps, p[1])}
      /\ \A p \in DOMAIN entry' : entry'[p] = entry[p]
      /\ folders' = {d \in folders : ~Lost(res, ps, d)}
      /\ ps \cap DOMAIN entry \subseteq DOMAIN res.meta
      /\ \A d \in Dirs : WalkTo(d) /\ ~Lost(res, ps, d) =>
           \A k \in folders : ParentOf[k] = d /\ Lost(res, ps, k) =>
             k \notin layout.denied \cup layout.skipped
  BY TakenAway
<1>4. content' = content /\ layout' = layout
  BY DEF RemovePaths
<1>5. /\ \A p, s \in DOMAIN entry : entry[p] = entry[s] => p = s
      /\ \A p \in DOMAIN entry : Links(entry[p]) = 1
  BY <1>1, SingleLinks DEF Still
<1>6. DOMAIN q.meta = DOMAIN res.meta \cap DOMAIN entry'
  BY <1>1, <1>2, <1>3
<1>7. Told(q)'
  <2>1. \A p \in DOMAIN q.meta : p \in DOMAIN res.meta /\ entry'[p] = entry[p] /\ q.class[p] = res.class[p]
    BY <1>2, <1>3, <1>6
  <2>2. /\ \A p \in DOMAIN q.class : Shared(q.class[p]) =>
             q.class[p] = Class(SizeOf[content'[entry'[p]]], content'[entry'[p]])
        /\ \A p, s \in DOMAIN q.meta : p # s /\ content'[entry'[p]] = content'[entry'[s]] =>
             Shared(q.class[p]) /\ Shared(q.class[s])
    BY <1>1, <1>2, <1>4, <2>1 DEF Faithful, Told
  <2> QED
    BY <1>2, <2>2 DEF Told, Shared
<1>8. Visible' = Visible \cap DOMAIN entry'
  BY <1>3, <1>4 DEF Visible
<1>9. Named(q)'
  <2>1. DOMAIN q.meta \subseteq Visible'
    BY <1>1, <1>6, <1>8
  <2>2. ASSUME NEW p \in Visible' PROVE p \in DOMAIN q.meta
    <3>1. p \in Visible /\ p \in DOMAIN entry'
      BY <1>8
    <3>2. PICK s \in DOMAIN res.meta : entry[s] = entry[p]
      BY <3>1 DEF Faithful, Named
    <3>3. s = p
      BY <1>1, <1>5, <3>1, <3>2 DEF Visible
    <3> QED
      BY <1>6, <3>1, <3>2, <3>3
  <2>3. \A p, s \in DOMAIN q.meta : entry'[p] = entry'[s] => p = s
    BY <1>1, <1>3, <1>5, <1>6
  <2> QED
    BY <2>1, <2>2, <2>3 DEF Named
<1>10. DOMAIN q.ok \subseteq layout'.roots \cup layout'.folders
  BY <1>1, <1>2, <1>4
<1>11. ASSUME NEW d \in DOMAIN q.ok
       PROVE  /\ q.ok[d] \in BOOLEAN /\ (q.ok[d] => Orderly(q, d))
              /\ \A k \in q.children[d] : k \in Dirs /\ ParentOf[k] = d
  <2>1. /\ d \in DOMAIN res.ok /\ q.ok[d] = res.ok[d] /\ q.children[d] \subseteq res.children[d]
        /\ q.links[d] = res.links[d] /\ q.aliases[d] \subseteq res.aliases[d]
    BY <1>2
  <2>2. /\ res.ok[d] \in BOOLEAN /\ (res.ok[d] => Orderly(res, d))
        /\ \A k \in res.children[d] : k \in Dirs /\ ParentOf[k] = d
    BY <2>1 DEF Faithful
  <2>3. FilesIn(q, d) \subseteq FilesIn(res, d)
    BY <1>2 DEF FilesIn
  <2>4. ASSUME Orderly(res, d) PROVE Orderly(q, d)
    <3>1. IsFiniteSet(FilesIn(q, d)) /\ IsFiniteSet(q.aliases[d]) /\ IsFiniteSet(q.children[d])
      BY <2>1, <2>3, <2>4, FS_Subset DEF Orderly
    <3> QED
      BY <2>1, <2>3, <2>4, <3>1 DEF Orderly
  <2> QED
    BY <2>1, <2>2, <2>4
<1>12. ASSUME NEW d \in DOMAIN q.ok, Bare(d)' PROVE Holds(q, d)'
  <2>1. /\ d \in DOMAIN res.ok /\ q.ok[d] = res.ok[d] /\ ~Lost(res, ps, d) /\ d \in Dirs
        /\ q.children[d] = res.children[d] \cap DOMAIN q.ok
        /\ q.links[d] = res.links[d] /\ q.aliases[d] \subseteq res.aliases[d]
    BY <1>1, <1>2
  <2>2. WalkTo(d)
    BY <2>1 DEF OnTheWay
  <2>3. Subfolders(d)' = {k \in Subfolders(d) : ~Lost(res, ps, k)}
    BY <1>3 DEF Subfolders
  <2>4. /\ Subfolders(d)' \cap (layout.denied \cup layout.skipped) = {}
        /\ \A p \in DOMAIN entry' : p[1] = d =>
             Kind[entry'[p]] \in {"file", "link"} /\ p \notin layout.filtered
    BY <1>4, <1>12 DEF Bare
  <2>5. Subfolders(d) \cap (layout.denied \cup layout.skipped) = {}
    BY <1>3, <2>1, <2>2, <2>3, <2>4 DEF Subfolders
  <2>6. ASSUME NEW p \in DOMAIN entry, p[1] = d
        PROVE  /\ Kind[entry[p]] \in {"file", "link"} /\ p \notin layout.filtered
               /\ p \notin DOMAIN entry' => Kind[entry[p]] = "file"
    <3>1. CASE p \in DOMAIN entry'
      BY <1>3, <2>4, <2>6, <3>1
    <3>2. CASE p \notin DOMAIN entry'
      <4>1. p \in Visible
        BY <1>1, <1>3, <2>1, <2>6, <3>2
      <4> QED
        BY <4>1 DEF Visible
    <3> QED
      BY <3>1, <3>2
  <2>7. Bare(d)
    BY <1>5, <2>5, <2>6 DEF Bare
  <2>8. Holds(res, d)
    BY <2>1, <2>7 DEF Faithful
  <2>9. q.ok[d] = TRUE /\ q.aliases[d] = {}
    BY <2>1, <2>8 DEF Holds
  <2>10. q.children[d] = Subfolders(d)' /\ Subfolders(d)' \subseteq DOMAIN q.ok
    BY <1>2, <2>1, <2>3, <2>8 DEF Holds
  <2>11. q.links[d] = {<<"L", p[2], content'[entry'[p]]>> :
                         p \in {s \in DOMAIN entry' : s[1] = d /\ Kind[entry'[s]] = "link"}}
    <3>1. {s \in DOMAIN entry' : s[1] = d /\ Kind[entry'[s]] = "link"}
            = {s \in DOMAIN entry : s[1] = d /\ Kind[entry[s]] = "link"}
      BY <1>3, <2>6
    <3>2. \A p \in DOMAIN entry' : content'[entry'[p]] = content[entry[p]]
      BY <1>3, <1>4
    <3>3. res.links[d] = {<<"L", p[2], content[entry[p]]>> :
                            p \in {s \in DOMAIN entry : s[1] = d /\ Kind[entry[s]] = "link"}}
      BY <2>8 DEF Holds
    <3> QED
      BY <2>1, <3>1, <3>2, <3>3
  <2>12. ASSUME NEW p \in DOMAIN entry', p[1] = d, Kind[entry'[p]] # "link"
         PROVE  p \in DOMAIN q.meta
    <3>1. p \in DOMAIN entry /\ Kind[entry[p]] # "link"
      BY <1>3, <2>12
    <3>2. p \in DOMAIN res.meta
      BY <2>8, <2>12, <3>1 DEF Holds
    <3> QED
      BY <1>6, <3>2
  <2> QED
    BY <2>9, <2>10, <2>11, <2>12 DEF Holds
<1>13. ASSUME NEW d \in DOMAIN q.ok PROVE Bare(d)' => Holds(q, d)'
  BY <1>12
<1> QED
  BY <1>7, <1>9, <1>10, <1>11, <1>13 DEF Faithful

LEMMA PrunedFaithful ==
  ASSUME Inv, QInv, Origin, Still, OnTheWay, Single, Published(res), Faithful(res),
         NEW ps \in Removable, RemovePaths(ps)
  PROVE  PrunedTrue'
<1>1. PICK q : q = Pruned(res, ps)
  OBVIOUS
<1>2. Faithful(q)'
  BY <1>1, RemovedFaithful
<1>3. res' = res /\ removed' = ps
  BY DEF RemovePaths
<1>4. Pruned(res', removed') = q
  BY <1>1, <1>3
<1> QED
  BY <1>2, <1>4 DEF PrunedTrue, Faithful, Told, Named, Holds

\* A result of the same content is as faithful.
LEMMA SameFaithful ==
  ASSUME NEW r, Faithful(r), NEW q, q.meta = r.meta, q.class = r.class, q.ok = r.ok,
         q.children = r.children, q.links = r.links, q.aliases = r.aliases
  PROVE  Faithful(q)
<1>1. Told(q) /\ Named(q)
  BY DEF Faithful, Told, Named
<1>2. \A d : Holds(r, d) => Holds(q, d)
  BY DEF Holds
<1>3. \A d : Orderly(r, d) => Orderly(q, d)
  BY SameRows
<1> QED
  BY <1>1, <1>2, <1>3 DEF Faithful

LEMMA FaithfulAfter ==
  ASSUME UNCHANGED <<layout, OnDisk>>, Faithful(res')
  PROVE  Faithful(res)'
<1>1. /\ layout' = layout /\ entry' = entry /\ folders' = folders /\ content' = content
  BY DEF OnDisk
<1>2. Visible' = Visible
  BY <1>1 DEF Visible
<1>3. Told(res)' /\ Named(res)'
  BY <1>1, <1>2 DEF Faithful, Told, Named
<1>4. \A d : Subfolders(d)' = Subfolders(d)
  BY <1>1 DEF Subfolders
<1>5. \A i : Links(i)' = Links(i)
  BY <1>1 DEF Links
<1>6. \A d : Bare(d)' = Bare(d)
  BY <1>1, <1>4, <1>5 DEF Bare
<1>7. ASSUME NEW d, Holds(res', d) PROVE Holds(res, d)'
  BY <1>1, <1>4, <1>7 DEF Holds
<1> QED
  BY <1>1, <1>3, <1>6, <1>7 DEF Faithful

LEMMA RecomputedFaithful ==
  ASSUME DiskKept, Recompute, ~cancel, PrunedTrue, Shape(res),
         DOMAIN res.class = DOMAIN res.meta, DOMAIN res.links = DOMAIN res.ok
  PROVE  Faithful(res)' /\ Published(res)'
<1>1. PICK q : q = Pruned(res, removed)
  OBVIOUS
<1>2. PICK man : man = Manifests(q)
  OBVIOUS
<1>3. res' = Aggregated(q, man) /\ UNCHANGED <<layout, OnDisk>>
  BY <1>1, <1>2 DEF Recompute, disk, OnDisk
<1>4. Shape(q)
  BY <1>1, PrunedIs
<1>5. Faithful(q)
  BY <1>1 DEF PrunedTrue
<1>6. Arranged(q)
  BY <1>5, ManifestsOfFaithful DEF Arranged, Faithful
<1>7. PICK s : s = Aggregated(q, man)
  OBVIOUS
<1>8. Published(s) /\ Facts(s) = Facts(q) /\ Shape(s)
  BY <1>2, <1>4, <1>6, <1>7, AggregatedIs
<1>9. /\ s.meta = q.meta /\ s.class = q.class /\ s.ok = q.ok
      /\ s.children = q.children /\ s.links = q.links /\ s.aliases = q.aliases
  BY <1>4, <1>8, SameFacts
<1>10. Faithful(s)
  BY <1>5, <1>9, SameFaithful
<1>11. res' = s
  BY <1>3, <1>7
<1>12. Faithful(res)'
  BY <1>3, <1>10, <1>11, FaithfulAfter
<1>13. Published(res)'
  BY <1>8, <1>11 DEF Published
<1> QED
  BY <1>12, <1>13

LEMMA RecomputeStep ==
  ASSUME [Next]_vars
  PROVE  /\ phase' = "recompute" /\ removed' = removed /\ removed # {} =>
              phase = "recompute" \/ \E ps \in Removable : RemovePaths(ps)
         /\ phase' = "pruned" => phase = "pruned" \/ (Recompute /\ ~cancel)
         /\ phase \in {"recompute", "pruned"} /\ phase' = phase => res' = res
BY DEF Next, WorkerStep, BeginScan, BeginRefresh, SeedCache, RefreshStopped,
       ListDir, StatEntry, MergeDir, WalkCancelled, BySize, TakeFile, Acquire, Aggregate,
       ProveBefore, ReadFile, ProveAfter, ProbeDone, FullDone, Gated,
       SaveScan, ScanFailed, PairScanned, RefreshScanned, SaveRefreshed, AnswerRefresh,
       Recompute, LoadSaved, LoadRefused, Tick, RemovePaths, Cancel, Pause, Resume,
       EditFile, SaveOver, DeleteFile, SwapRoot, SwapBack, Outside, Stop, vars, disk, hash, Final

LEMMA FaithfulStays ==
  ASSUME UNCHANGED <<layout, OnDisk>>, NEW q, Faithful(q)
  PROVE  Faithful(q)'
<1>1. /\ layout' = layout /\ entry' = entry /\ folders' = folders /\ content' = content
  BY DEF OnDisk
<1>2. Visible' = Visible
  BY <1>1 DEF Visible
<1>3. Told(q)' /\ Named(q)'
  BY <1>1, <1>2 DEF Faithful, Told, Named
<1>4. \A d : Subfolders(d)' = Subfolders(d)
  BY <1>1 DEF Subfolders
<1>5. \A i : Links(i)' = Links(i)
  BY <1>1 DEF Links
<1>6. \A d : Bare(d)' = Bare(d)
  BY <1>1, <1>4, <1>5 DEF Bare
<1>7. ASSUME NEW d, Holds(q, d) PROVE Holds(q, d)'
  BY <1>1, <1>4, <1>7 DEF Holds
<1> QED
  BY <1>1, <1>3, <1>6, <1>7 DEF Faithful

LEMMA PrunedTrueStays ==
  ASSUME UNCHANGED <<layout, OnDisk, removed>>, res' = res, PrunedTrue
  PROVE  PrunedTrue'
<1>1. PICK q : q = Pruned(res, removed)
  OBVIOUS
<1>2. Pruned(res', removed') = q
  BY <1>1
<1>3. Faithful(q)
  BY <1>1 DEF PrunedTrue
<1>4. Faithful(q)'
  BY <1>3, FaithfulStays
<1> QED
  BY <1>2, <1>4 DEF PrunedTrue, Faithful, Told, Named, Holds

LEMMA RecomputedPartial ==
  ASSUME Recompute, ~cancel, Shape(res)
  PROVE  res'.partial = res.partial
<1>1. PICK q : q = Pruned(res, removed)
  OBVIOUS
<1>2. PICK man : man = Manifests(q)
  OBVIOUS
<1>3. res' = Aggregated(q, man)
  BY <1>1, <1>2 DEF Recompute
<1>4. Shape(q) /\ q.partial = res.partial
  BY <1>1 DEF Pruned, NewResult, Shape
<1> QED
  BY <1>3, <1>4, PublishedKeeps

LEMMA WholeNext ==
  ASSUME Inv, QInv, ExactInv, [Next]_vars, Whole'
  PROVE  /\ phase' = "recompute" => PrunedTrue'
         /\ phase' = "pruned" => Faithful(res)' /\ Published(res)'
<1>1. /\ DiskKept /\ Shape(res) /\ ResultTrue(res) /\ Origin /\ Idle
  BY DEF Inv, ResultTrue, ExactInv
<1>2. /\ events = 0 /\ layout' = layout
      /\ \/ UNCHANGED <<OnDisk, removed>>
         \/ \E ps \in Removable : RemovePaths(ps)
  BY <1>1, NoEvents DEF Whole
<1>3. Single /\ ~res'.partial
  BY <1>2 DEF Whole, Single
<1>4. ASSUME phase' = "recompute", NEW ps \in Removable, RemovePaths(ps)
      PROVE  PrunedTrue'
  <2>1. Still /\ phase = "done" /\ res' = res
    BY <1>1, <1>2, <1>4 DEF RemovePaths, Still, DiskKept
  <2>2. OnTheWay /\ Gathered(res) /\ Sorted /\ Published(res) /\ phase \in Ends /\ ~res.partial
    BY <1>3, <2>1 DEF ExactInv, Ends
  <2>3. Faithful(res)
    BY <1>1, <2>1, <2>2, FaithfulNow
  <2> QED
    BY <1>1, <1>3, <1>4, <2>1, <2>2, <2>3, PrunedFaithful
<1>5. ASSUME phase' = "recompute", UNCHANGED <<OnDisk, removed>>,
             \A ps \in Removable : ~RemovePaths(ps)
      PROVE  PrunedTrue'
  <2>1. removed' # {}
    BY <1>5, RemovedNext
  <2>2. phase = "recompute" /\ res' = res
    BY <1>5, <2>1, RecomputeStep
  <2>3. Whole
    BY <1>2, <1>3, <2>2 DEF Whole
  <2>4. PrunedTrue
    BY <2>2, <2>3 DEF ExactInv
  <2>5. UNCHANGED <<layout, OnDisk, removed>>
    BY <1>2, <1>5
  <2> QED
    BY <2>2, <2>4, <2>5, PrunedTrueStays
<1>6. ASSUME phase' = "pruned", phase = "pruned" PROVE Faithful(res)' /\ Published(res)'
  <2>1. res' = res /\ UNCHANGED OnDisk
    BY <1>2, <1>6, RecomputeStep DEF RemovePaths
  <2>2. Whole
    BY <1>2, <1>3, <2>1 DEF Whole
  <2>3. Faithful(res) /\ Published(res)
    BY <1>6, <2>2 DEF ExactInv
  <2>4. Faithful(res')
    BY <2>1, <2>3
  <2>5. Faithful(res)'
    BY <1>2, <2>1, <2>4, FaithfulAfter
  <2> QED
    BY <2>1, <2>3, <2>5 DEF Published
<1>7. ASSUME phase' = "pruned", Recompute, ~cancel PROVE Faithful(res)' /\ Published(res)'
  <2>1. phase = "recompute" /\ phase \in Late
    BY <1>7 DEF Recompute, Late
  <2>2. Whole
    BY <1>1, <1>2, <1>3, <1>7, RecomputedPartial DEF Whole
  <2>3. PrunedTrue
    BY <2>1, <2>2 DEF ExactInv
  <2>4. DOMAIN res.class = DOMAIN res.meta /\ DOMAIN res.links = DOMAIN res.ok
    BY <2>1, <2>2 DEF Inv, Classed, ResultTrue, Maps, Whole
  <2> QED
    BY <1>1, <1>7, <2>3, <2>4, RecomputedFaithful
<1>8. phase' = "pruned" => phase = "pruned" \/ (Recompute /\ ~cancel)
  BY RecomputeStep
<1> QED
  BY <1>2, <1>4, <1>5, <1>6, <1>7, <1>8

LEMMA StillNext ==
  ASSUME Inv, QInv, ExactInv, [Next]_vars, Still'
  PROVE  /\ OnTheWay' /\ Watching' /\ Gathered(res)' /\ FirstMet' /\ Answered' /\ Sorted'
         /\ phase' \in Ends /\ ~res'.partial => Published(res)'
<1>1. Still /\ Stayed /\ UNCHANGED <<layout, OnDisk>> /\ events' = 0
  BY QuietStep DEF Inv, Still, Stayed
<1>2. phase # "recompute"
  BY <1>1 DEF QInv, Still
<1>3. Idle /\ OnTheWay /\ Watching /\ Gathered(res) /\ FirstMet /\ Answered /\ Sorted
  BY <1>1 DEF ExactInv
<1>4. phase \in Ends /\ ~res.partial => Published(res)
  BY <1>1 DEF ExactInv
<1> QED
  BY <1>1, <1>2, <1>3, <1>4, OnTheWayNext, WatchingNext, GatheredNext, FirstMetNext,
     AnsweredNext, SortedNext, PublishedNext

LEMMA ExactInvNext ==
  ASSUME Inv, QInv, ExactInv, [Next]_vars
  PROVE  ExactInv'
<1>1. Idle' /\ Origin'
  BY IdleNext, OriginNext DEF ExactInv, Inv
<1>2. Still' => /\ OnTheWay' /\ Watching' /\ Gathered(res)' /\ FirstMet' /\ Answered' /\ Sorted'
                /\ phase' \in Ends /\ ~res'.partial => Published(res)'
  BY StillNext
<1>3. Whole' => /\ phase' = "recompute" => PrunedTrue'
                /\ phase' = "pruned" => Faithful(res)' /\ Published(res)'
  BY WholeNext
<1> QED
  BY <1>1, <1>2, <1>3 DEF ExactInv, Ends

LEMMA ExactInvInit ==
  ASSUME Init
  PROVE  ExactInv
<1>1. /\ DOMAIN opened = {} /\ DOMAIN seen = {} /\ phase = "start" /\ todo = {}
      /\ DOMAIN res.ok = {} /\ DOMAIN res.meta = {} /\ DOMAIN res.class = {}
      /\ DOMAIN found = {} /\ DOMAIN job = {} /\ entry = layout.entry
  BY DEF Init, Map0, NewResult
<1> QED
  BY <1>1 DEF ExactInv, Idle, Origin, Still, OnTheWay, Begun, Watching, Gathered, FirstMet,
     Answered, Sorted, Ends, Whole

-----------------------------------------------------------------------------
(* The groups *)

\* As many inodes as names: every inode has one.
LEMMA CardinalitySingle ==
  ASSUME NEW f, IsFiniteSet(DOMAIN f), Cardinality(Range(f)) = Cardinality(DOMAIN f)
  PROVE  \A p, q \in DOMAIN f : f[p] = f[q] => p = q
<1> DEFINE S == DOMAIN f
           T == {f[p] : p \in S}
           g == [p \in S |-> f[p]]
<1>1. T = Range(f)
  BY DEF Range
<1>2. g \in [S -> T] /\ \A t \in T : \E p \in S : g[p] = t
  OBVIOUS
<1>3. g \in Surjection(S, T)
  BY <1>2 DEF Surjection
<1>4. Cardinality(T) = Cardinality(S)
  BY <1>1
<1>5. g \in Injection(S, T)
  <2> HIDE DEF g, T, S
  <2> QED
    BY <1>3, <1>4, FS_Surjection DEF S
<1>6. \A p, q \in S : g[p] = g[q] => p = q
  <2> HIDE DEF g, T, S
  <2> QED
    BY <1>5 DEF Injection, IsInjective
<1> QED
  BY <1>6

LEMMA WholeShown ==
  ASSUME Inv, QInv, ExactInv, Quiet,
         Shown \/ (Pruned1 /\ Cardinality(Range(layout.entry)) = Cardinality(DOMAIN layout.entry))
  PROVE  Faithful(res) /\ Published(res)
<1>1. CASE Shown
  <2>1. Still /\ ~res.partial /\ phase \in Ends
    BY <1>1 DEF Shown, Still, Quiet, Ends, Inv, DiskKept
  <2>2. Idle /\ OnTheWay /\ Gathered(res) /\ Sorted /\ Published(res)
    BY <2>1 DEF ExactInv
  <2> QED
    BY <2>1, <2>2, FaithfulNow
<1>2. CASE /\ Pruned1
           /\ Cardinality(Range(layout.entry)) = Cardinality(DOMAIN layout.entry)
  <2>1. IsFiniteSet(DOMAIN layout.entry)
    BY LayoutAssumption DEF Inv, DiskKept, Volume
  <2>2. Single
    BY <1>2, <2>1, CardinalitySingle DEF Single
  <2>3. Whole /\ phase = "pruned"
    BY <1>2, <2>2 DEF Whole, Pruned1, Quiet
  <2> QED
    BY <2>3 DEF ExactInv
<1> QED
  BY <1>1, <1>2

LEMMA GroupsAreExact ==
  ASSUME Inv, QInv, ExactInv
  PROVE  GroupsExact
<1> SUFFICES ASSUME Quiet,
                    Shown \/ (Pruned1 /\ Cardinality(Range(layout.entry))
                                           = Cardinality(DOMAIN layout.entry))
             PROVE  LET inodes == {entry[p] : p \in Visible}
                        alike(i) == {j \in inodes : content[j] = content[i]}
                    IN  /\ {{entry[p] : p \in g} : g \in res.fileGroups} =
                             {s \in {alike(i) : i \in inodes} : Cardinality(s) >= 2}
                        /\ \E man \in {Manifests(res)} :
                             \A d \in {e \in folders : Plain(e) /\ e \in DOMAIN res.ok} :
                               \A e \in Twins(d) \cap DOMAIN res.ok : d # e =>
                                 \/ \E g \in res.dirGroups : {d, e} \subseteq g
                                 \/ Hidden(man, d) \/ Hidden(man, e)
  BY DEF GroupsExact, Hidden, Paired
<1>1. DiskKept /\ Faithful(res) /\ Published(res)
  BY WholeShown DEF Inv
<1>2. LET inodes == {entry[p] : p \in Visible}
          alike(i) == {j \in inodes : content[j] = content[i]}
      IN  {{entry[p] : p \in g} : g \in res.fileGroups} =
            {s \in {alike(i) : i \in inodes} : Cardinality(s) >= 2}
  BY <1>1, FilesExact DEF Faithful, Published
<1>3. PICK man : man = Manifests(res)
  OBVIOUS
<1>4. /\ DOMAIN man = DOMAIN res.ok
      /\ \A d \in DOMAIN res.ok : man[d] = ManifestOf(res, man, d)
  BY <1>1, <1>3, ManifestsOfFaithful
<1>5. res.dirGroups = DirGroupsOf(man)
  BY <1>1, <1>3 DEF Published
<1>6. \A d \in {e \in folders : Plain(e) /\ e \in DOMAIN res.ok} :
        \A e \in Twins(d) \cap DOMAIN res.ok : d # e =>
          \/ \E g \in res.dirGroups : {d, e} \subseteq g
          \/ Hidden(man, d) \/ Hidden(man, e)
  BY <1>1, <1>4, <1>5, FoldersExact
<1> QED
  BY <1>2, <1>3, <1>6

\* A whole result misses nothing: every content that two inodes have is a group
\* of files, and nothing else is; every two folders that hold the same are in a
\* group, or below folders that are; and so it is after a removal.
THEOREM ScanGroupsExact == Spec => []GroupsExact
<1>1. Init => QInv /\ ExactInv
  BY QInvInit, ExactInvInit
<1>2. Inv /\ Inv' /\ QInv /\ ExactInv /\ [Next]_vars => QInv' /\ ExactInv'
  BY QInvNext, ExactInvNext
<1>3. Inv /\ QInv /\ ExactInv => GroupsExact
  BY GroupsAreExact
<1> QED
  BY <1>1, <1>2, <1>3, ScanInvariant, PTL DEF Spec

\* The clusters a result is shown with are the connected components of the
\* folders that hold copies of one file, however many classes tie them and in
\* whatever order union-find joins them.
THEOREM ScanClusters == Spec => []ClustersAreComponents
<1>1. Inv => ClustersAreComponents
  <2> SUFFICES ASSUME Inv PROVE ClustersAreComponents
    OBVIOUS
  <2>1. layout \in Layouts /\ ResultTrue(res)
    BY DEF Inv, DiskKept
  <2>2. DOMAIN layout.entry \subseteq Dirs \X Nat
    BY <2>1, LayoutAssumption DEF Volume
  <2>3. \A p \in DOMAIN res.class : p \in DOMAIN layout.entry
    BY <2>1 DEF ResultTrue, File
  <2>4. \A p \in DOMAIN res.class : p[1] \in Dirs
    BY <2>2, <2>3
  <2>5. Clusters(res) = {Near(Tied(res))[Cardinality(Dirs)][d] : d \in UNION Tied(res)}
    BY <2>4, ClustersAre
  <2> QED
    BY <2>5 DEF ClustersAreComponents, Near, Nearing, Hops
<1> QED
  BY <1>1, ScanInvariant, PTL

LEMMA CountedNow ==
  ASSUME DiskKept, ResultTrue(res), Faithful(res), \A id \in DOMAIN was : was[id] \in Contents
  PROVE  Counted(res) /\ DOMAIN res.meta \subseteq Dirs \X Nat
<1>1. /\ DOMAIN layout.entry \subseteq Dirs \X Nat
      /\ DOMAIN res.meta \subseteq DOMAIN layout.entry
  BY LayoutAssumption DEF DiskKept, Volume, ResultTrue, File
<1>2. IsFiniteSet(DOMAIN res.meta)
  <2>1. IsFiniteSet(DOMAIN layout.entry)
    BY LayoutAssumption DEF DiskKept, Volume
  <2> QED
    BY <1>1, <2>1, FS_Subset
<1>3. DOMAIN res.class = DOMAIN res.meta
  BY DEF Faithful, Told
<1>4. ASSUME NEW p \in DOMAIN res.meta
      PROVE  /\ res.meta[p].size \in Nat
             /\ Shared(res.class[p]) => res.class[p].size = res.meta[p].size
  <2>1. PICK held \in Contents : held = was[res.meta[p].id]
    BY DEF ResultTrue, File
  <2>2. res.meta[p].size = SizeOf[held] /\ SizeOf[held] \in Nat
    BY <2>1, ScanAssumption DEF ResultTrue, File
  <2>3. Shared(res.class[p]) => res.class[p] = Class(SizeOf[held], held)
    BY <1>3, <2>1 DEF ResultTrue, ClassTrue
  <2>4. Class(SizeOf[held], held).size = SizeOf[held]
    BY DEF Class
  <2> QED
    BY <2>2, <2>3, <2>4
<1> QED
  BY <1>1, <1>2, <1>3, <1>4 DEF Counted

\* Two files have one class exactly if they hold one content.
LEMMA ClassesTell ==
  ASSUME Told(res), OwnClass(res), NEW p \in DOMAIN res.meta, NEW q \in DOMAIN res.meta
  PROVE  res.class[p] = res.class[q] <=> content[entry[p]] = content[entry[q]]
<1>1. p \in DOMAIN res.class /\ q \in DOMAIN res.class
  BY DEF Told
<1>2. ASSUME p # q, content[entry[p]] = content[entry[q]] PROVE res.class[p] = res.class[q]
  <2>1. Shared(res.class[p]) /\ Shared(res.class[q])
    BY <1>2 DEF Told
  <2> QED
    BY <1>1, <1>2, <2>1 DEF Told
<1>3. ASSUME p # q, res.class[p] = res.class[q] PROVE content[entry[p]] = content[entry[q]]
  <2>1. CASE Shared(res.class[p])
    <3>1. /\ res.class[p] = Class(SizeOf[content[entry[p]]], content[entry[p]])
          /\ res.class[q] = Class(SizeOf[content[entry[q]]], content[entry[q]])
      BY <1>1, <1>3, <2>1 DEF Told
    <3>2. \A n, c : Class(n, c).digest = c
      BY DEF Class
    <3>3. Class(SizeOf[content[entry[p]]], content[entry[p]]).digest
            = Class(SizeOf[content[entry[q]]], content[entry[q]]).digest
      BY <1>3, <3>1
    <3> QED
      BY <3>2, <3>3
  <2>2. CASE ~Shared(res.class[p])
    <3>1. res.class[p] = Unique(p) /\ res.class[q] = Unique(q)
      BY <1>1, <1>3, <2>2 DEF OwnClass
    <3>2. Unique(p).of = p /\ Unique(q).of = q
      BY DEF Unique
    <3> QED
      BY <1>3, <3>1, <3>2
  <2> QED
    BY <2>1, <2>2
<1> QED
  BY <1>2, <1>3

\* The files of a folder that are there to read, of those with several names
\* only the one the result has, are the files the result has of it.
LEMMA NamesKnown ==
  ASSUME DiskKept, Named(res), NEW d
  PROVE  FilesUnder(res, d) = {q \in Visible : /\ Inside(q[1], d)
                                               /\ Links(entry[q]) = 1 \/ q \in DOMAIN res.meta}
<1>1. DOMAIN res.meta \subseteq Visible /\ Visible \subseteq DOMAIN entry
  BY DEF Named, Visible
<1>2. ASSUME NEW q \in Visible, Links(entry[q]) = 1 PROVE q \in DOMAIN res.meta
  <2>1. PICK p \in DOMAIN res.meta : entry[p] = entry[q]
    BY DEF Named
  <2>2. PICK names : names = {x \in DOMAIN entry : entry[x] = entry[q]}
    OBVIOUS
  <2>3. names \in SUBSET DOMAIN entry /\ Cardinality(names) = 1 /\ p \in names /\ q \in names
    BY <1>1, <1>2, <2>1, <2>2 DEF Links
  <2>4. IsFiniteSet(names)
    BY <2>3, EntriesFinite, FS_Subset
  <2>5. PICK x : names = {x}
    BY <2>3, <2>4, FS_Singleton
  <2>6. p = q
    BY <2>3, <2>5
  <2> QED
    BY <2>1, <2>6
<1> QED
  BY <1>1, <1>2 DEF FilesUnder

\* The contents of a folder, and those at a relative path in it.
Held(d)      == {content[entry[p]] : p \in FilesUnder(res, d)}
Data(d, rel) == {content[entry[p]] : p \in FilesAt(res, d, rel)}

LEMMA StatusTrue ==
  ASSUME DOMAIN res.meta \subseteq Dirs \X Nat,
         \A p, q \in DOMAIN res.meta :
           res.class[p] = res.class[q] <=> content[entry[p]] = content[entry[q]],
         NEW a, NEW b, NEW rel \in RelsOf(res, a) \cup RelsOf(res, b),
         NEW row, row = StatusOf(res, a, b, rel)
  PROVE  /\ row = "identical" => Data(a, rel) = Data(b, rel)
         /\ row = "different_content" => Data(a, rel) \cap Data(b, rel) = {}
         /\ row = "shared_elsewhere" =>
              Data(a, rel) \cup Data(b, rel) \subseteq Held(a) \cap Held(b)
         /\ row = "only_a" => Data(a, rel) \cap Held(b) = {}
         /\ row = "only_b" => Data(b, rel) \cap Held(a) = {}
<1>0. \A d : FilesUnder(res, d) \subseteq DOMAIN res.meta
  BY DEF FilesUnder
<1>1. ASSUME NEW d, NEW e, rel \in RelsOf(res, d)
      PROVE  /\ Data(d, rel) = {content[entry[FileAt(res, d, rel)]]} /\ Data(d, rel) \subseteq Held(d)
             /\ res.class[FileAt(res, d, rel)] \in ClassesIn(res, e) <=>
                  content[entry[FileAt(res, d, rel)]] \in Held(e)
  <2>1. PICK p \in FilesUnder(res, d) : p = FileAt(res, d, rel) /\ FilesAt(res, d, rel) = {p}
    BY <1>1, FileAtIs
  <2>2. res.class[p] \in ClassesIn(res, e) <=> content[entry[p]] \in Held(e)
    BY <1>0 DEF ClassesIn, Held
  <2> QED
    BY <2>1, <2>2 DEF Data, Held
<1>2. ASSUME NEW d, rel \notin RelsOf(res, d) PROVE Data(d, rel) = {}
  <2>1. FilesAt(res, d, rel) = {}
    BY <1>2, FileAtIs
  <2> QED
    BY <2>1 DEF Data
<1>3. CASE rel \in RelsOf(res, a) \cap RelsOf(res, b)
  <2>1. PICK p \in FilesUnder(res, a), q \in FilesUnder(res, b) :
          p = FileAt(res, a, rel) /\ q = FileAt(res, b, rel)
    BY <1>3, FileAtIs
  <2>2. row = IF res.class[p] = res.class[q] THEN "identical" ELSE "different_content"
    BY <1>3, <2>1 DEF StatusOf
  <2>3. res.class[p] = res.class[q] <=> content[entry[p]] = content[entry[q]]
    BY <1>0
  <2>4. Data(a, rel) = {content[entry[p]]} /\ Data(b, rel) = {content[entry[q]]}
    BY <1>1, <1>3, <2>1
  <2> QED
    BY <2>2, <2>3, <2>4
<1>4. CASE rel \in RelsOf(res, a) /\ rel \notin RelsOf(res, b)
  <2>1. row = IF res.class[FileAt(res, a, rel)] \in ClassesIn(res, b)
              THEN "shared_elsewhere" ELSE "only_a"
    BY <1>4 DEF StatusOf
  <2> QED
    BY <1>1, <1>2, <1>4, <2>1
<1>5. CASE rel \notin RelsOf(res, a) /\ rel \in RelsOf(res, b)
  <2>1. row = IF res.class[FileAt(res, b, rel)] \in ClassesIn(res, a)
              THEN "shared_elsewhere" ELSE "only_b"
    BY <1>5 DEF StatusOf
  <2> QED
    BY <1>1, <1>2, <1>5, <2>1
<1> QED
  BY <1>3, <1>4, <1>5

LEMMA PairsAsKnown ==
  ASSUME Inv, QInv, ExactInv, Shown, Quiet,
         NEW ab \in res.pairs, NEW a \in ab, NEW b \in ab, a # b,
         NEW rows0, rows0 = Comparison(res, a, b)
  PROVE  /\ Percent(res, a, b) \in 0..100
         /\ \E rel \in DOMAIN rows0 :
              rows0[rel] # "only_a" /\ Data(a, rel) \cap Held(b) # {}
         /\ \A rel \in DOMAIN rows0 :
              /\ rows0[rel] = "identical" => Data(a, rel) = Data(b, rel)
              /\ rows0[rel] = "different_content" => Data(a, rel) \cap Data(b, rel) = {}
              /\ rows0[rel] = "shared_elsewhere" =>
                   Data(a, rel) \cup Data(b, rel) \subseteq Held(a) \cap Held(b)
              /\ rows0[rel] = "only_a" => Data(a, rel) \cap Held(b) = {}
              /\ rows0[rel] = "only_b" => Data(b, rel) \cap Held(a) = {}
<1>1. /\ DiskKept /\ ResultTrue(res) /\ Faithful(res) /\ Published(res) /\ OwnClass(res)
      /\ \A id \in DOMAIN was : was[id] \in Contents
  BY WholeShown DEF Inv, History, QInv
<1>2. Counted(res) /\ DOMAIN res.meta \subseteq Dirs \X Nat
  BY <1>1, CountedNow
<1>3. \A p, q \in DOMAIN res.meta :
        res.class[p] = res.class[q] <=> content[entry[p]] = content[entry[q]]
  BY <1>1, ClassesTell DEF Faithful
<1>4. SharedBytes(res, a, b) > 0
  BY <1>1 DEF Published, PairsMeet
<1>5. PICK r : r = res
  OBVIOUS
<1>6. /\ Percent(res, a, b) \in 0..100
      /\ \E p \in FilesUnder(res, a) : \E q \in FilesUnder(res, b) : res.class[p] = res.class[q]
  BY <1>2, <1>4, <1>5, PairShares
<1>8. rows0 = [rel \in RelsOf(res, a) \cup RelsOf(res, b) |-> StatusOf(res, a, b, rel)]
  BY <1>5, ComparisonIs
<1>9. ASSUME NEW rel \in DOMAIN rows0
      PROVE  /\ rows0[rel] = "identical" => Data(a, rel) = Data(b, rel)
             /\ rows0[rel] = "different_content" => Data(a, rel) \cap Data(b, rel) = {}
             /\ rows0[rel] = "shared_elsewhere" =>
                  Data(a, rel) \cup Data(b, rel) \subseteq Held(a) \cap Held(b)
             /\ rows0[rel] = "only_a" => Data(a, rel) \cap Held(b) = {}
             /\ rows0[rel] = "only_b" => Data(b, rel) \cap Held(a) = {}
  <2>1. rel \in RelsOf(res, a) \cup RelsOf(res, b) /\ rows0[rel] = StatusOf(res, a, b, rel)
    BY <1>8
  <2> QED
    BY <1>2, <1>3, <2>1, StatusTrue
<1>10. \E rel \in DOMAIN rows0 : rows0[rel] # "only_a" /\ Data(a, rel) \cap Held(b) # {}
  <2>1. PICK p \in FilesUnder(res, a), q \in FilesUnder(res, b) : res.class[p] = res.class[q]
    BY <1>6
  <2>2. p \in DOMAIN res.meta /\ q \in DOMAIN res.meta
    BY DEF FilesUnder
  <2>3. content[entry[p]] = content[entry[q]]
    BY <1>3, <2>1, <2>2
  <2>4. PICK rel : rel = RelPath(p, a)
    OBVIOUS
  <2>5. content[entry[p]] \in Data(a, rel) /\ content[entry[p]] \in Held(b)
    BY <2>3, <2>4 DEF Data, FilesAt, Held
  <2>6. rel \in DOMAIN rows0
    BY <1>8, <2>4 DEF RelsOf
  <2> QED
    BY <1>9, <2>5, <2>6
<1> QED
  BY <1>6, <1>9, <1>10

\* The same in the words of the property.
NamedIn(d) == {q \in Visible : /\ Inside(q[1], d)
                               /\ Links(entry[q]) = 1 \/ q \in DOMAIN res.meta}
HeldNow(d) == {content[entry[p]] : p \in NamedIn(d)}
DataNow(d, rel) == {content[entry[p]] : p \in {q \in NamedIn(d) : RelPath(q, d) = rel}}

LEMMA PairsAreCompared ==
  ASSUME Inv, QInv, ExactInv
  PROVE  PairsCompared
<1> SUFFICES ASSUME Shown, Quiet
             PROVE  PairsCompared
  BY DEF PairsCompared
<1>1. DiskKept /\ Named(res)
  BY WholeShown DEF Inv, Faithful
<1>2. \A d : NamedIn(d) = FilesUnder(res, d)
  BY <1>1, NamesKnown DEF NamedIn
<1>3. ASSUME NEW d, NEW rel PROVE HeldNow(d) = Held(d) /\ DataNow(d, rel) = Data(d, rel)
  BY <1>2 DEF HeldNow, DataNow, Held, Data, FilesAt
<1>4. ASSUME NEW ab \in res.pairs, NEW a \in ab, NEW b \in ab, a # b,
             NEW rows0, rows0 = Comparison(res, a, b)
      PROVE  /\ Percent(res, a, b) \in 0..100
             /\ \E rel \in DOMAIN rows0 :
                  rows0[rel] # "only_a" /\ DataNow(a, rel) \cap HeldNow(b) # {}
             /\ \A rel \in DOMAIN rows0 :
                  /\ rows0[rel] = "identical" => DataNow(a, rel) = DataNow(b, rel)
                  /\ rows0[rel] = "different_content" =>
                       DataNow(a, rel) \cap DataNow(b, rel) = {}
                  /\ rows0[rel] = "shared_elsewhere" =>
                       DataNow(a, rel) \cup DataNow(b, rel) \subseteq HeldNow(a) \cap HeldNow(b)
                  /\ rows0[rel] = "only_a" => DataNow(a, rel) \cap HeldNow(b) = {}
                  /\ rows0[rel] = "only_b" => DataNow(b, rel) \cap HeldNow(a) = {}
  <2>1. /\ Percent(res, a, b) \in 0..100
        /\ \E rel \in DOMAIN rows0 :
             rows0[rel] # "only_a" /\ Data(a, rel) \cap Held(b) # {}
    BY <1>4, PairsAsKnown
  <2>2. ASSUME NEW rel \in DOMAIN rows0
        PROVE  /\ rows0[rel] = "identical" => Data(a, rel) = Data(b, rel)
               /\ rows0[rel] = "different_content" => Data(a, rel) \cap Data(b, rel) = {}
               /\ rows0[rel] = "shared_elsewhere" =>
                    Data(a, rel) \cup Data(b, rel) \subseteq Held(a) \cap Held(b)
               /\ rows0[rel] = "only_a" => Data(a, rel) \cap Held(b) = {}
               /\ rows0[rel] = "only_b" => Data(b, rel) \cap Held(a) = {}
    BY <1>4, PairsAsKnown
  <2> QED
    BY <1>3, <2>1, <2>2
<1>5. ASSUME NEW ab \in res.pairs, NEW a \in ab, NEW b \in ab, a # b
      PROVE  /\ Percent(res, a, b) \in 0..100
             /\ \E rel \in DOMAIN Comparison(res, a, b) :
                  /\ Comparison(res, a, b)[rel] # "only_a"
                  /\ DataNow(a, rel) \cap HeldNow(b) # {}
             /\ \A rel \in DOMAIN Comparison(res, a, b) :
                  /\ Comparison(res, a, b)[rel] = "identical" =>
                       DataNow(a, rel) = DataNow(b, rel)
                  /\ Comparison(res, a, b)[rel] = "different_content" =>
                       DataNow(a, rel) \cap DataNow(b, rel) = {}
                  /\ Comparison(res, a, b)[rel] = "shared_elsewhere" =>
                       DataNow(a, rel) \cup DataNow(b, rel) \subseteq HeldNow(a) \cap HeldNow(b)
                  /\ Comparison(res, a, b)[rel] = "only_a" =>
                       DataNow(a, rel) \cap HeldNow(b) = {}
                  /\ Comparison(res, a, b)[rel] = "only_b" =>
                       DataNow(b, rel) \cap HeldNow(a) = {}
  BY <1>4, <1>5
<1> QED
  BY <1>5, Zenon DEF PairsCompared, NamedIn, HeldNow, DataNow

\* Of two folders shown as similar no more is shared than each holds; comparing
\* them finds a file of one whose content the other has; and a file is called the
\* same, different, moved or missing only if it is so on the disk, except that of
\* a file with several names only one is looked at.
THEOREM ScanPairs == Spec => []PairsCompared
<1>1. Init => QInv /\ ExactInv
  BY QInvInit, ExactInvInit
<1>2. Inv /\ Inv' /\ QInv /\ ExactInv /\ [Next]_vars => QInv' /\ ExactInv'
  BY QInvNext, ExactInvNext
<1>3. Inv /\ QInv /\ ExactInv => PairsCompared
  BY PairsAreCompared
<1> QED
  BY <1>1, <1>2, <1>3, ScanInvariant, PTL DEF Spec
=============================================================================
