# Verification of DupScan

DupScan is a macOS desktop program (Python, PySide6) that finds duplicate files
and folders, proves them equal by BLAKE3 and moves them to the Trash, keeps a
history of scans, and can undo a removal. This directory holds TLA+ models of
its core, the configurations that check them with TLC, and proofs checked by
TLAPS. Source paths below are relative to `src/dupscan` of the repository.

Its central promise is one sentence of the confirmation dialog (`ui/app.py`):
in every group an independent, verified copy remains. The code spreads that
promise over a scan result that ages, two passes of verification with a modal
question in between, a survivor cache, a list of protected folders, and system
calls that take a path and not an open file. Most of the models are about what
other programs, a second instance, a crash or a failed write may do to that.

## Running

    tlc -workers 2 -config TrashGateQuiet.cfg MCTrashGate.tla
    tlc -workers 2 -config SessionStore.cfg   MCSessionStore.tla
    tlc -workers 2 -config RemovalHistory.cfg MCRemovalHistory.tla
    tlc -workers 2 -config FolderMerge.cfg    MCFolderMerge.tla
    tlc -workers 2 -config Scan.cfg           MCScan.tla
    tlc -workers 2 -config Window.cfg         MCWindow.tla
    tlapm TrashGateProofs.tla
    tlapm RemovalHistoryProofs.tla
    tlapm FiniteSums.tla
    tlapm SessionStoreProofs.tla
    tlapm FolderMergeProofs.tla
    tlapm WindowProofs.tla
    tlapm FoldersProofs.tla
    tlapm ScanProofs.tla

Every run is listed below. TrashGateReread, SessionSaved, HistoryFallback,
HistoryRollback and ScanRecompute are expected to end with a counterexample.

## Inventory

The state, the operations and the hard behaviours of each part, and the
properties that make it correct. *Status* says which module models it.

### Removal of files (`infra/fsops.py`, `domain/core.py`, `ui/app.py`)

- State: the scan result (identity and class of each path), the mini-result of
  the snapshot flow, the sets of requested, proven and approved paths, the
  identities of the last pass, the survivor cache, the pool of moves.
- Operations: three flows. `_delete_duplicate_paths` (the marked duplicates),
  `_verify_snapshot_group_then_trash` (a group of an older or partial result,
  which is read again first) and `_sim_trash_flow` (the simulated removal, path
  by path). Each runs `_verified_survivor` over the paths, asks, runs it again
  and calls `to_trash`, which refuses protected paths and compares identities
  twice before it calls `send2trash`.
- Hard: another program edits, replaces, deletes or hard-links a file between
  any two steps; metadata on exFAT does not show every edit; members of one
  class removed together; paths unmarked during the review; the list of
  protected folders changing or becoming unreadable.
- Correct when: a copy of everything moved remains outside the removal; what is
  moved has the content that was proven; only approved paths move; protected
  ones never do.
- Status: modelled for files (`TrashGate`), proved (`TrashGateProofs`); the
  removal of whole duplicate folders is not modelled (see below).

### Session store (`infra/session.py`)

- State: a directory of payloads and sidecars, old uncompressed sessions, one
  lock file; per operation the lists and totals of its pruning.
- Operations: save, import, compact, list (which migrates old sessions), load,
  delete.
- Hard: several instances and threads; list and delete take no lock; a pair is
  two files written and removed one after the other; a write may fail, and so
  may an `unlink`, of which nobody is told; a process
  may be killed anywhere; two limits with protected sessions.
- Correct when: no session loses its sidecar before its payload; retention keeps
  both limits, but for what could not be removed; the open and the newest session
  survive; the lock excludes; nobody waits for
  ever; a session reported as saved is there.
- Status: modelled (`SessionStore`), proved (`SessionStoreProofs`); what a
  session holds and what its validation accepts is in `Folders` and `Scan`. The
  bytes of the format are not modelled.

### Removal history (`infra/removal_history.py`, `infra/fsops.py`, `ui/removal_history_controller.py`)

- State: `history.json` (operations and their items), its lock, the objects in
  the Trash and in the original folders, the locals of each call.
- Operations: the append at the end of `to_trash`, restore of an item or of an
  operation; `update_operation` is called by no part of the program.
- Hard: lost updates between instances; the journal's bounds; an object in the
  Trash or at the destination replaced between two system calls; folders
  swapped; a volume without an exclusive rename; a failed write after the
  rename, and the rollback; crashes.
- Correct when: updates of the journal are atomic; what is written can be read;
  nothing is overwritten or deleted; a restore publishes the recorded object.
- Status: modelled (`RemovalJournal`, `RemovalLedger`, `RemovalHistory`), the
  journal and the disk proved (`RemovalHistoryProofs`).

### Merge of folders (`infra/fsops.py`, `ui/workers.py`, `ui/app.py` `_sim_merge`)

- State: the plan with the digest of each file, the identities of both folders,
  the row under way with its temporary copy, what was transferred, skipped and
  failed; the two snapshots of the source folder.
- Operations: preparation (`MergePreparationWorker`), `_transfer_files` by copy
  or by move, `_publish_no_overwrite` with hard links or with a reserved name,
  `_destination_holds_same_content`, and `_verify_then_trash_dir` for the folder
  that a move has emptied of what is planned.
- Hard: source or target changed, or a folder swapped, between any two steps;
  destination taken; file systems without hard links; failure and cancel half
  way; a survivor inside the folder, or one that is a hard link.
- Correct when: nothing foreign is overwritten or unlinked; a file reported as
  moved is at its destination with its content; a file not moved is where it
  was; no temporary stays but one that could not be unlinked; every file of a
  folder moved to the Trash has a copy outside it.
- Status: modelled (`FolderMerge`, abstract specification `Relocation`), proved
  (`FolderMergeProofs`).

### Scan and its aggregates (`domain/core.py`, `ui/workers.py`), clusters (`domain/clusters.py`), comparison (`domain/product.py`), hash cache (`infra/cache.py`), gate (`infra/throttle.py`)

- State: the folders discovered, opened and merged; the `ScanResult`; the files
  in the hash pool; the cache; the limit and the readers of the gate.
- Operations: walk, probe and full hash, aggregation into groups of files,
  groups of folders and similar pairs, save, refresh of a session, scan of a
  pair, `recompute` after a removal, load of the saved session;
  `directory_tree_mergeable`, `build_duplicate_clusters`, `compare_folders`.
- Hard: files edited, replaced or deleted before, between and after their reads;
  entries that cannot be read or are left out; cancel and pause anywhere; a
  cache with old rows, or one that fails; a root replaced during a refresh, for
  good or for a while; a limit that moves under waiting readers; what is still
  known of a folder after `recompute`, or after the session was saved and opened
  again.
- Correct when: a class is what the file held under its recorded identity;
  folders shown as identical are identical; nothing equal is missed; only a
  folder that was read may be merged; every scan ends.
- Status: modelled (`Scan`, its pure part in `Folders`), proved in part
  (`ScanProofs`, on `FoldersProofs`). The temperature governor of
  `infra/throttle.py` is created by no part of the program.

### Operations of the window (`ui/app.py`, `ui/workers.py`, `ui/workflow_ui.py`)

- State: the flags (`_trashing`, `_merging`, `_loading`, `_sweeping`,
  `_refresh_preflighting` and others), one slot per kind of worker, the session
  token, the result on display, the stack of open questions, `_closing`.
- Operations: beginning, delivering and cancelling scan, refresh, load, relink,
  comparison, removals and merges; the sweep of vanished files on activation;
  recompute; pause; closing.
- Hard: a nested event loop in each modal question; callbacks of background
  threads that come late; a result exchanged while a thread reads it; a worker
  paused when it is cancelled or the window is closed.
- Correct when: threads that change files run alone; no late callback shows an
  older result; every flag is cleared in the end; on a closing window nothing
  new begins, and it goes only when the threads it knows of are done.
- Status: modelled and proved (`Window`, `WindowProofs`) but for selection and
  presentation.

### Smaller parts

| Part | Source | State and hazards | Status |
|---|---|---|---|
| Preferences | `infra/preferences.py`, `ui/settings_controller.py` | read-modify-write of one store without a lock | the reference roots are state of `TrashGate`, profiles a filter of `Scan`; selection rules and the store of profiles are not modelled |
| Similar images | `ui/perceptual.py`, its controller | pixel hashes, never a proof for removal | the thread and its slot are in `Window`; the arithmetic on images is not modelled |
| Removal of whole duplicate folders | `ui/app.py` 5892-5916, 6043-6065 (`directory_mode`) | verification of folders against folders before the move | not modelled: `TrashGate` moves files, `FolderMerge` one folder after a merge |
| Reports, diagnostics | `infra/reports.py`, `infra/diagnostics.py`, controller | none: formatting of a result | not modelled |
| Update check | `infra/updates.py` | none: one request and its validation | not modelled |
| Devices, storage guard | `infra/devices.py`, `infra/storage_guard.py` | none: questions to the system | not modelled |
| Renaming to NFC | `infra/fsops.py` `fix_name_to_nfc` | check, then a plain rename | not modelled: a name has one form in every model |
| Tables, dialogs, scaling | `ui/table_models.py`, `ui/scale_ui.py`, others | presentation | not modelled |
| Tests, QA and release scripts, packaging | `tests`, `qa`, `scripts`, `packaging` | not part of the program | not modelled; read for what they promise |

### How the parts interact

The scan fills a result; the window shows it and starts everything else; a
removal reads the result, changes the disk, appends to the removal history and
has the result recomputed; a merge transfers files and may then remove the
emptied folder by the same gate; finished scans are saved to the session store;
the history dialogs read both stores and restore or reopen. Two instances of the
program share both stores and the disk, and nothing else. So the models are
composed of three kinds of actor: the program's own threads, other instances,
and the rest of the machine.

## What is modelled

### TrashGate

One pipeline (the window admits one removal at a time) and the rest of the
machine, over a disk where a path names an inode and an inode has a content and
a stamp. The stamp stands for size, mtime and ctime together. On the volumes in
`Trusted` every change moves it; on others a change may leave it, which is what
`_fs_trusts_metadata` is about.

| Code | Model |
|---|---|
| the three flows' entry | `Start("batch" / "fresh" / "each", set)` |
| `_fresh_group_verify`, rereading | `Rescan`, `RescanStat`, `RescanDone` |
| `_proven_stat` of the victim | `ProveVictim`, and `VictimStat` for the `lstat` after a read |
| survivor cache | `ConsultCache` |
| the loop over `class_paths` | `ProveCopy`, `CopyStat`, `NoSurvivor` |
| modal question, review | `FirstPassDone`, `Confirm`, `Decline` |
| second pass | the same gate actions with `round = "again"`, `SecondPassDone` |
| `to_trash` | `Preflight`, then per path `MoveCheck` and `Send`; `MoveDone` |
| `finish`, recompute | `Finish` (the result may also stay as it is: `_recompute_async` gives up when another recompute runs) |
| other programs, settings | `EditInPlace`, `Replace`, `Delete`, `HardLink`, `SetReferences` |

Where the rest of the machine may act is the constant `EditPoints`, a set of
points of the pipeline, so that each property is checked, and proved, under the
weakest assumption it needs. Three points are `VictimWindows`: between the
reread of a member and its `lstat`, between the read of a victim and its
`lstat`, and between the last identity check of `move_one` and `send2trash`.
Nothing in the program can close the last one, because `send2trash` takes a
path; the first two are open because `verify_current_file` returns an `lstat`
of the path taken after the file was closed.

Abstracted: digests are contents; candidates are taken in any order where the
code takes them in list order. The removal of whole duplicate folders
(`directory_mode`, `ui/app.py` 5892-5916 and 6043-6065) is not modelled, here or
elsewhere: the folder that `FolderMerge` moves to the Trash is the source of a
merge, verified by other code. Symbolic links are in `FolderMerge`; the
recompute that a sweep starts while a removal is under way is left to `Window`.

### SessionStore

Actors are threads of any instance. Saving, importing and compacting run in the
flock, listing and deleting outside it; every unlink, write and listing is a
step. Each unlink may be refused (`Refused`, at most `MaxFaults` times): the
code ends each of them in `except OSError: pass` (`infra/session.py` 115-120,
395-400, 495-500, 1378-1382), goes on with the other file of the pair and tells
nobody. `spared` is what an operation has failed to remove. So a session may in
the end stand without its sidecar, and a save may leave more than its limits;
`SidecarLast` and `Retained` say that it takes a refusal, and of what. A session
is its nanosecond name. The names given are strictly increasing: a clock set
back is listed as a hazard and not modelled. Temporary files are never listed
and left out. A kill frees the flock, as the kernel does, and leaves the files.

### RemovalJournal, RemovalLedger, RemovalHistory

`RemovalJournal` is the journal as a value: the bound, what makes it valid, how
an item becomes restored. `RemovalLedger` is the abstract specification: the
journal changes only by whole operations being added and items being marked, as
if each update were one step. `RemovalHistory` is the program: the moves, the
search of the Trash, the lock, read, change, write; and restore step by step,
with the folders pinned by descriptor, the digest, the choice of a name, the
last check, the rename or its fallback, the check of the parents, the write and
both rollbacks. `LedgerSpec == Ledger!Spec` is a property of it: the detailed
specification implements the abstract one.

`Closed` says that other programs keep out of two windows: between the last
check of the Trash entry and the rename, and, in the fallback, between the
reservation of a name and the replace. Statuses that no code of the program
writes ("pending", "missing", "skipped") are left out, as are times and texts.

### Relocation, FolderMerge

`FolderMerge` is one merge of folder A into B and the rest of the machine. A
folder is an object with entries and a path names one at a time, so that a
folder may be swapped while the worker holds its descriptor.

| Code | Model |
|---|---|
| `_sim_merge`, `pair_diff`, `merge_plan` | `Init` (what was scanned), `Plan` |
| `MergePreparationWorker` | `ProveRow`, `RecheckRoots` |
| the dialog: copy or move | `Confirm`, `Decline`, `Cancel` |
| `_transfer_files`, source | `TakeRow`, `ReadSource`, `StatSource`, `CheckDigest` |
| its target: same content, free name, suffix | `SameThere`, `NotThere`, `NextSuffix` |
| its temporary copy | `MakeTemp`, `CopyContent`, `Restat` |
| `_publish_no_overwrite` | `Link`, `UnlinkSource`; `Reserve`, `RenameOver` without hard links; `NameTaken` |
| failures, cancel | `NotProven`, `RowFails`, `StopRow`, `RowsDone` |
| clean-up of the temporary and of the reserved name | `Leave`, `Cleaned`, `RowFails` |
| `_verify_then_trash_dir` | `SnapshotBefore`, `ProveFile`, `SnapshotAfter`, `Send` |
| other programs | `EditInPlace`, `SaveOver`, `Delete`, `HardLink`, `SwapFolder` |

`Relocation` is the abstract specification. The proven content of a planned file
is in the source folder, or elsewhere, or in both; it leaves the source only
when it is elsewhere, and elsewhere it stays; a row is reported once, and as
moved or skipped only while its content is elsewhere. `Relocates ==
Promise!Spec` says that `FolderMerge` implements it, under a refinement mapping
that looks for the content by the identity of the source folder and not by its
path. Elsewhere is the target folder, a folder that took one of the two paths,
or, for a link alone, the Trash.

Any call may fail, the clean-up too: `infra/fsops.py` 896-907 and 1190-1204
swallow what their `unlink` raises. `temps` is the temporaries on disk,
`refused` what a clean-up failed to unlink; a row that fails keeps any part of
what it should have taken back (`RowFails`), and so does one that is left in any
other way (`Leave`). `NoLeftovers` says that nothing else stays.

`touched` stands for the folder's own mtime and ctime, which `_trash_identity`
compares with the rest at the end of `_verify_then_trash_dir` (`infra/fsops.py`,
1292 and 1362): they move when an entry appears or goes. A survivor is looked up
by path (`Reached`), so a folder renamed away offers none. A change of a file in
place is one in every folder that has a link of it (`Linked`): it needs its
window open in each. A new inode has a stamp that no file had before (`Create`).

As in `TrashGate`, `EditPoints` says where other programs act: everywhere but in
`Windows`, between a look at a name and the call that relies on it. A swap of a
folder is allowed at any moment, because the descriptors leave no window for it.
Abstracted: a folder is one level of files and links, attributes and dates of a
copy, file systems whose metadata is not to be trusted (see `TrashGate`).

### Folders, Scan

`Folders` is the pure part: classes, manifests, groups of folders, similar
pairs, clusters, comparison, the trust in a folder, a result without removed
paths, what a session stores and what is accepted from it. `Scan` is the worker,
step by step, over a disk of inodes with kind, content and stamp:

| Code | Model |
|---|---|
| `ScanWorker`, `PairVerificationWorker`, `SessionRefreshWorker` up to the scan | `BeginScan`, `BeginRefresh`, `SeedCache`, `RefreshStopped` |
| `_walk_stage`: pool threads and the merging thread | `ListDir`, `StatEntry`, `MergeDir`, `WalkCancelled` |
| `_hash_and_classify_stage` | `BySize`, `TakeFile`, `ProveBefore`, `ReadFile`, `ProveAfter`, `ProbeDone`, `FullDone` |
| `HashCache` | `OpenCache`, `CacheHit`, `CachePut` |
| `AdaptiveConcurrency` | `Acquire`, `Released`, `Tick` |
| `_aggregate`, partial results | `Aggregate` |
| dates, save, the end of each worker | `SaveScan`, `ScanFailed`, `PairScanned`, `RefreshScanned`, `SaveRefreshed`, `AnswerRefresh` |
| removal and `recompute` | `RemovePaths`, `Recompute` |
| load of the saved session | `LoadSaved`, `LoadRefused` |
| buttons | `Cancel`, `Pause`, `Resume` |
| other programs | `EditFile`, `SaveOver`, `DeleteFile`, `SwapRoot`, `SwapBack` |

Another folder may be mounted in the place of the root at any moment of a refresh
(`SwapRoot`), for good or until the root is put back (`SwapBack`). The identity of
the root is compared only at four places (`ui/workers.py` 359, 388, 397, 404), and
away and back between two of them cannot be seen; `returned` remembers it.

What the loader asks of a session is `Sound`: no section and no list of more
than `MaxItems` (`_MAX_STATE_ITEMS`), a document of at most `MaxDocument` (512
MB, here counted in items), no time before 1970 (`Dated`; `infra/session.py`
1093) and that its parts agree (`Consistent`). The writer checks none of them,
so a whole scan can be saved that cannot be opened again. The limit on the list
of errors is left out, as the list is.

Abstracted: digests are contents, and a probe tells contents apart by what is in
their first bytes; any order of the discovered folders stands for both walks.
Left out: kinds of volumes and the space a removal frees, the bound on the
number of pairs and on how many folders a class is spread over, pairs the user
ignores, Unicode forms, AppleDouble files.

Four assumptions say what a volume is. `FoldersAssumption`: it has finitely many
folders. `TreeAssumption`: no folder is inside
itself, and no two in one folder have one name. `ScanAssumption`: a probe tells
a file of at most `PARTIAL` bytes, which it reads whole, there is one empty
content, and no digest is one of the two marks that stand for a failed and a
stopped read. `LayoutAssumption` (`Volume`): entries and folders are finitely
many, what an entry or a folder is in is there, no name is both a folder and
another entry, and a row of the cache or of the session before tells what the
file held under the identity it is kept with, now or at an earlier time. TLC
evaluates all four on the volumes of the runs.

### Window

One entry of `proc` is an operation: the job it runs or the question it asks,
and what it captured at its beginning. The token, the result and the slots are
only ever compared with what was captured, so an entry keeps the outcome of the
comparison and loses it when the window changes the other side. `dialogs` is the
stack of nested event loops.

| Code | Model |
|---|---|
| the entries with their guards (`_operation_busy` and its like) | `StartScan`, `Compare`, `OpenSession`, `Refresh`, `RemoveBatch`, `RemoveGroup`, `RemoveShared`, `Merge`, `LookUp` |
| a worker's `run` | `End`, with its outcomes |
| a queued signal and its handler | `Deliver`: `ScanDone`, `SessionLoaded`, `Verified`, `Trashed`, `Moved`, ... |
| a modal question | `Ask`, `Answer` |
| `_sweep_vanished`, `_recompute_async` and its handler | `Sweep`, `Swept`, `Recomputed` |
| `_refresh_models`, its thread for a large result | `TablesReady` |
| `PerceptualTabController.scan`, `PerceptualScanWorker` | `Photos`, `PhotosDone` |
| `cancel_scan`, `toggle_pause` | `Cancel`, `Pause`, `Resume` |
| `closeEvent`, `_poll_shutdown` | `Close`, `Poll` |
| deletions in the Finder | `FinderDelete` |

The guards have gaps (see below). `rushed` records that the user has begun an
operation in one; `OneChanger`, `Settles` and the end of `ClosesCleanly` speak
of the others, `LatestShown` and the rest of `ClosesCleanly` of all.
`closeEvent` neither cancels nor awaits the scan of photos, since
`_running_workers` does not list it, and a recompute that ends on a closing
window may start the thread that prepares its tables; both are in the model, and
`ClosesCleanly` makes them its exceptions. Abstracted: the selection of rows,
notices after which nothing changes, the pause and the cancel that the scan of
photos has of its own, tables prepared after anything but a recompute, a copy
that fails (it ends as one that is done: the result stays), a job's end and the
queueing of its signal as one step, one pause per job; a window is closed only
without an open question; a session has one root; the 3 seconds between sweeps.

## The runs

| Run | Checks | Bounds and why they are enough |
|---|---|---|
| `TrashGateQuiet` | `NeverLastCopy`, `ProtectedStays`, `SentAsApproved`, `TypeOK`; others act before a removal or during its question | three paths and inodes: two members of a class removed with a third as survivor, hard links between any two, two classes; one inode on an untrusted volume; one change, one removal in each flow; at most one protected path |
| `TrashGateEdits` | `SentAsProven`; others act anywhere but in the windows | as above, all trusted; one change is enough to make any one proof stale at any step |
| `TrashGateReread` | `BothReread` fails | no change needed |
| `SessionStore` | `Retained`, `SidecarLast`, `WriterAlone`, `PreservedKept`, `NewestKept`, `AllEnd`, `TypeOK` | two actors, three operations, two kept sessions, payloads of size 1 or 3 in a budget of 3, so each limit binds on its own and together; one crash, and two refused unlinks, so that both files of a pair, or two sessions, may stay |
| `SessionSaved` | `SavedIsStored` fails | the same without a crash or a refusal |
| `RemovalHistory` | `LedgerSpec`, `NothingLost`, `RestoresRecorded`, `Readable`, `TypeOK` | two instances, two paths and objects, two requests, one change by others, three folders (one to swap in), names with one alternative, a journal of two operations and three weights, so a journal, and an operation by itself, can go over the bound |
| `HistoryFallback` | `NothingLost` fails without `Closed` | one path, one change |
| `HistoryRollback` | `RollbackKeepsProof` fails | no change |
| `FolderMerge` | `ContentKept`, `NothingForeign`, `CopiesOutside`, `NoLeftovers`, `LeftInPlace`, `WorkersEnd`, `Relocates`, `TypeOK` | two files, one perhaps a link; the target has the name, with the same content or another, or not; scanned or not; with and without hard links; two names per file, so the suffixes run out; one change by others anywhere, any number of failing calls, clean-ups included, and a cancel anywhere |
| `Scan` | `ProofTrue`, `EqualFolders`, `GroupsExact`, `MergeableKnown`, `RefreshCoherent`, `PairsCompared`, `ClustersAreComponents`, `GateHolds`, `ScanEnds`, `TypeOK` | 23 volumes, each for one difficulty: three large files with equal beginnings, current and old rows, each way an entry is not read, hard links, links and empty files on both sides, nesting, a chain of shared files, like folders inside like folders, a root in a root, a refresh, a pair, two folders with each other's names, sessions that the loader refuses for their size, a list or a date; two walking threads, three readers, three decisions of the gate; one change (a root taken away may also come back), failing call or pause anywhere |
| `ScanRecompute` | `EqualFoldersAlways` fails | the same volumes, no change |
| `Window` | `LatestShown`, `OneChanger`, `ClosesCleanly`, `Settles`, `TypeOK` | two operations of any kind in flight, sweeps, recomputes, their tables and a scan of photos among them, two begun by the user: what the properties forbid takes two. |

Symmetry is used only in runs without liveness properties. Deadlock is not
checked but in `Window`: the other models end when their bounded requests are
used up.

Fairness. `SessionStore` and `RemovalHistory` have weak fairness on the work of
each actor: a started operation is a running thread and the system schedules it.
Waiting for the flock is part of that work; weak fairness is enough for
`AllEnd` because the number of operations is bounded, so the lock is in the end
free for good. `FolderMerge` assumes it of the merge's worker, and of no user.
`Scan` assumes it of the workers and of the resumption of a paused scan, since a
pause is meant to last. In `Window` jobs end unless they are paused, signals are
delivered, questions are answered (a modal question holds up the whole program
until it is), a paused job is resumed, and the window is activated now and then,
which is what starts a sweep. Nothing is assumed of cancels, crashes or other
programs, and `TrashGate`, which states only safety, assumes no fairness at all.

For every property of a passing run a mutated definition is kept beside the
original (comment "Mutant:"); with it in
place the run finds the violation.

## What is proved

`TrashGateProofs` proves, for any number of paths, inodes and contents, any
number of removals and changes, and any reference roots:

| Theorem | States | Assumes |
|---|---|---|
| `TypeCorrect` | `Spec => []TypeOK` | |
| `OnlyApproved` | `Spec => SentAsApproved` | |
| `TrashIsProven` | `Spec => SentAsProven` | `WindowsClosed`: nobody acts in the three windows |
| `CopyRemains` | `Spec => NeverLastCopy` | `QuietMachine`: others act only before a removal and during its question |
| `ProtectedKept` | `Spec => ProtectedStays` | `QuietMachine` |

All rest on `ConstantsAssumption`, which TLC evaluates in the runs.

Each action property follows from an inductive invariant, built in layers that
are defined at the end of `TrashGate`:

- `LocalsOK`: the locals that a step reads were set by the steps before it.
  `TypeOK` alone is not inductive without it.
- `PhasesOK`: identities and pending moves exist only inside one removal. An
  identity left from an earlier removal could otherwise authorise a later move.
- `ProofsOK`: every identity the pipeline holds (in the result, the mini-result,
  the pass, the victim) *vouches* for its class: as long as the inode's stamp has
  not moved on and its volume is trusted, the inode has that content. This is
  what survives changes by others at any moment, so it needs only
  `WindowsClosed`; the property follows at `Send`, where the check just made
  says the stamp has not moved.
- `CopiesOK`: while a pass runs undisturbed, whatever has passed has a living
  copy outside the removal, and the cached survivor is such a copy. The point is
  that no move of the same removal can take that copy away: moves are of
  requested paths, copies are outside the requested set.
- `ApprovedOK`, `UnprotectedOK`: what is about to be moved was approved, and is
  under no reference root.

`RemovalHistoryProofs` proves, for any number of instances, paths, objects,
directories and names, any bounds of the journal, either kind of rename and
crashes at any point:

| Theorem | States | Assumes |
|---|---|---|
| `TypeCorrect` | `Spec => []TypeOK` | |
| `JournalReadable` | `Spec => []Readable` | |
| `ImplementsLedger` | `Spec => LedgerSpec` | |
| `RestoreIsRecorded` | `Spec => RestoresRecorded` | `Closed` |
| `RestoreLosesNothing` | `Spec => NothingLost` | `Closed` |

They rest on `JournalAssumption` and `HistoryAssumption`; the first three hold
whatever the rest of the machine does, the last two if it keeps out of the two
windows, and `HistoryFallback` shows why. The inductive invariant of the journal
is `IInv`, at the end of `RemovalHistory`, with the types:

- `HoldsLock`: who is inside the critical section holds the lock and has read the
  journal *as it still is*. This is what makes read, change and write one step of
  the ledger, and only the lock gives it: with `EnterUnlocked` it fails.
- `KnowsItem`: inside, the item is listed; past `Pin` it has a proof and both
  spots of the rename are set. It makes the write a `Restore` of the ledger.
- `KnowsMoved`: what a removal looks for in the Trash has been moved there, so
  that an identity is that of an object.
- `Numbered`: the ids in the journal are at most the last one given, so that an
  appended operation is new. Without it the journal could be unreadable.

The last two theorems are about the disk. Their invariant `DInv`, on top of
`IInv`, follows one restore from its first look to its last:

- `OnePlace`, `Apart`: an object has one name, and the two paths, of the folder
  it comes from and of the Trash, name two folders, whatever is swapped in for
  either. So a rename moves the object and leaves no second name behind.
- `Vouched`: the chain of stamps. Past the check of the record the expected
  identity is the recorded one, and an object that still has it has the recorded
  content.
- `Targeted`, `StubHeld`: since the last look the object is where it was seen,
  in a folder that removals do not take from, and a name that was reserved is
  still reserved. That other programs leave both alone between the look and the
  call is `Closed`; that they may do anything at other times, folders swapped
  included, is part of the proof: a folder with something in it cannot be
  replaced by another.

Only one call is in the critical section at a time, so of the other instances
only the moves of their removals can interfere (`Move`).

The bound is handled by two lemmas: `Bound` returns a last part of the journal
that fits (`BoundIsSuffix`, from the least member of a set of numbers), and a
last part of a sound journal is sound (`BoundKeeps`).

`SessionStoreProofs` proves, for any finite set of instances, any number of
sessions and of protected ones, any sizes, limits and number of crashes and of
refused unlinks:

| Theorem | States |
|---|---|
| `StoreTypeCorrect` | `Spec => []TypeOK` |
| `SessionsStayPaired` | `Spec => SidecarLast` |
| `RetentionIsDone` | `Spec => []Retained` |
| `PreservedAreKept` | `Spec => PreservedKept` |
| `NewestIsKept` | `Spec => NewestKept` |
| `WriterIsAlone` | `Spec => WriterAlone` |

They rest on `StoreAssumption` alone. The inductive invariant is `Inv`, at the
head of the module (`StoreInvariant`):

- `LockHeld` and `Unpublished`: one actor at most is in the critical section, and
  until its payload is there nobody else has heard of the session it writes.
- `Room`, `Known`, `Distinct`: names are handed out once and not yet exhausted.
- `Ready`, `Aimed`, `HalfGone`, `Undone`: what is removed loses its payload
  first, or was refused it, and what is written gains its sidecar first. With
  `Unpublished` they give `SidecarLast` though list and delete take no lock.
- `Spared`, `NewerStays`: the plan of a pruning or a compaction spares what is
  preserved and leaves a newer session.
- `CountKept`, `Enough`, `BytesKept`: the half-done pruning, in numbers. What
  remains when the plan is carried out is within the limit, apart from what is
  preserved or could not be removed (`Exempt`), and the running total of bytes is
  at least what is still to be looked at; unless somebody deletes meanwhile, it is
  exactly the size of what is there but for the refused that it has passed
  (`Passed`).

The last needs sums over a set of files, and the sum of the model is recursive.
`FiniteSums` proves what is used of it: that such a sum exists and is a natural
number, that it loses an element's size with the element, that it is monotone
and depends on the sizes of its own elements only. The library's induction takes
an operator, which the provers here cannot instantiate; `SubsetInduction` states
it for a *set* of finite sets, which they can, and everything follows from that.

`FolderMergeProofs` proves, for any finite set of inodes and any files,
contents, suffixes and layouts of the two folders, with failing calls, those of
the clean-up included, and a cancel at any step, any swaps of folders, and any
number of changes by other programs:

| Theorem | States |
|---|---|
| `MergeTypeCorrect` | `Spec => []TypeOK` |
| `NothingIsLeftOver` | `Spec => []NoLeftovers` |
| `FailedRowsStay` | `Spec => []LeftInPlace` |
| `ContentIsKept` | `Spec => ContentKept` |
| `NothingForeignTaken` | `Spec => NothingForeign` |
| `TrashedHaveCopies` | `Spec => CopiesOutside` |
| `MergeRelocates` | `Spec => Relocates` |

They rest on `ConstantsAssumption`, `LayoutsAssumption` and `WindowsClosed`:
nobody acts between a look at a name and the call that relies on it
(`EditPoints \cap Windows = {}`). The run has exactly the other points open. The
inductive invariant is `Inv` (`MergeInvariant`):

- `Seated`: which folders the paths and the descriptors may denote after swaps.
- `Planned`, `Digested`, `Named`: a row at work was planned, has no outcome yet
  and, past the comparison, carries the digest of the plan.
- `TempAlone`, `Blanks`, `Cleared`: the temporary of a row exists only while a
  copy is written, no name leads to it before it is published, and an empty name
  or a temporary is this row's own, or one that a clean-up failed to unlink.
  `NoLeftovers` is what they say between rows.
- `ReadHeld`, `Stamped`, `Proven`: the chain from the read to the call. Right
  after the read its content is behind the path or behind the descriptor's name;
  afterwards the proven inode has the content that was read, or a newer stamp, or
  is outside the source for good; once `Restat` has found the stamp unchanged,
  what a move publishes has the proven content.
- `Bracketed`, `Spared`: unless the folder's own times moved, it has the entries
  of the first snapshot, and stamps have only risen; so if the second snapshot
  equals the first, everything proved in between still has its copy, another
  inode and outside the source folder of the plan.

The refinement is proved step by step: the initial states map to initial states;
`ProveRow` to `Prove`; `SameThere`, `Link`, `UnlinkSource`, `RenameOver` and the
ends of a row to `Report` or `Shift`, where `UnlinkSource` and `Send` take
contents out of the source and the invariant provides the copy elsewhere; every
action of the machine to `Disturb`; the rest to stutters.

The proofs corrected the model. `LeftInPlace` made an exception for the row
under way, which is not needed and was dropped. `Relocation` said that contents
stay in one of the two *paths*; when both folders hold the same link and the
target loses it to another program, a row reported as skipped and a removed
source refute that, and a layout with that case is now in the run. The proof of
`Spared` asked what keeps an entry from going and coming back between the two
snapshots: the folder's own times, which the code compares and the model had
left out. And a new inode kept the stamp of the one that had its number before,
so that an identity could match a file it was never taken of.

`WindowProofs` proves, for any number of operations in flight and any number begun
by the user:

| Theorem | States |
|---|---|
| `WindowTypeCorrect` | `Spec => []TypeOK` |
| `LatestIsShown` | `Spec => []LatestShown` |
| `ChangerIsAlone` | `Spec => []OneChanger` |
| `ClosesAsABarrier` | `Spec => ClosesCleanly` |

They rest on `SizesAssumption` alone. The inductive invariant is `Inv`, at the
head of the module:

- `Nested`, `Barrier`: each open question is in the stack once, and none is open
  on a window that is closing. With `TypeOK` the stack is exactly the set of
  operations that wait for an answer.
- `LateBarred`: an operation that has been superseded has also lost the token.
  The token is all its handler looks at, so this is what `LatestShown` needs, and
  it holds through the gaps of the guards too. `Reported` says what a scan that
  has ended may report: without it the result shown would have no type.
- `Alone`: at most one operation is in the foreground (all but what is `Behind`:
  sweeps, recomputes, tables and scans of photos; and the preparation of a
  refresh), none while a refresh is being prepared; the
  flag of its kind is raised, and what acts on a historical result has one under
  it. `OneChanger` alone is not inductive: it says nothing of the question that
  comes before a thread, nor of the signal after it. The flags carry it from one
  to the next; that a merge, which looks at two flags only, finds nothing in the
  foreground follows from the kind of result on display.
- `AllHeld`: no thread that runs has lost its slot, but a scan of photos may. It
  rests on `Alone`, and closing rests on it: `_poll_shutdown` waits for the
  threads in the slots it looks at.

The last two hold as long as `rushed` is false, the others always. The proof
reduces the steps that start, deliver or answer something to three
*moves* of an operation: it is over (`Over`), runs a job (`Runs`) or asks
(`Opens`), while the step may take from the others only what `Near` allows.
`GoodStep` shows once that such a move preserves the invariant; each handler is
shown to be one. The rest of the steps open and start nothing (`StillStep`).

`ScanProofs` proves, for any volume, any finite tree of folders, any number of
walking threads and readers, any cache and old session within `Volume`, any
contents and any changes by other programs at any moment (there are no windows
to be closed here):

| Theorem | States |
|---|---|
| `ScanTypes` | `Spec => []TypeOK` |
| `ScanProofTrue` | `Spec => []ProofTrue` |
| `ScanGateHolds` | `Spec => []GateHolds` |
| `ScanRefreshCoherent` | `Spec => []RefreshCoherent` |
| `ScanMergeableKnown` | `Spec => []MergeableKnown` |
| `ScanEqualFolders` | `Spec => []EqualFolders` |
| `ScanGroupsExact` | `Spec => []GroupsExact` |
| `ScanClusters` | `Spec => []ClustersAreComponents` |
| `ScanPairs` | `Spec => []PairsCompared` |

They rest on `TreeAssumption`, `FoldersAssumption`, `ScanAssumption` and
`LayoutAssumption` (see `Scan` above). The inductive invariant is `Inv`, at the
head of the module (`ScanInvariant`):

- `History`, `RowsTrue`: an identity, inode and stamp, has had one content for
  ever, and each row of the cache tells that of its own.
- `Jobs`, with `Outdated`: what makes `ProofTrue` inductive while a file is read.
  The walk's identity is seen again before the read; if another program steps in
  between, what was read may be anything, but the name has lost that identity
  for good: its stamp has moved on, or another inode has its name and no step
  gives it back. So the second look fails and the digest is dropped.
- `Listings`, `ReadWhole`, `KnownWhole`: each entry of an opened folder is still
  to be looked at or was; a merged folder without a failed read has all its
  entries in the result, in one part or another, and all its subfolders among
  its children. `MergeableKnown` follows by going down the tree (`DownTheTree`):
  a traversal of what was discovered comes to every folder that exists.
- `Gate`: the clause on `pending` says that a step up which is on trial has not
  yet let in more readers than it allows. It makes "at most one above the limit",
  which alone is not inductive, survive the step back down.
- `Rooted`: what was listed while the root was away is listed as the other root's.
  So if the roots compared are one and the root was never away and back, every
  listing in between was of it.
- `Scanned`, `Classed`, `ResultTrue`: every folder is inside a root, every file
  of a whole result has a class or is on its way to one, and sizes agree.
  Together they are what `_validate_streamed_result` asks of the parts, so a
  whole session that was saved can be opened, unless it is too large or has a
  file of before 1970 (`WholeIsSound`).

`EqualFolders` speaks of a scan that nobody disturbs, and says of the *disk*, at
any depth, what the program concludes from two equal manifests. Its invariant
`QInv`, on top of `Inv`, has in addition:

- `Walked`, `Copied`, `Exact`: an `lstat` is what is on the disk, and a folder
  whose manifest is whole (`ok`) has in its manifest every entry and every
  subfolder it holds and nothing else. An entry the scan was not to read, or
  could not read, makes the manifest not whole; that is the part of the code the
  theorem is about, and `EqualFoldersAlways` shows that it fails when
  `recompute` forgets it.
- `SeenHere`: a further name of a hard linked file stands for the first name met,
  and both name one inode.
- `OwnClass`: a class that is not shared is the file's own, so that two files of
  one class have one content.
- `Opens`: what was opened are folders that exist, finitely many.
- `Grouped`: the property itself, from the moment the groups are published.

From there it is pure (`OneManifestOneTree`): equal rows give equal entries, since
the order of the names (`ByName`) leaves out no part (`FourTogether`); equal
contents of subfolders by going up the tree (`UpTheTree`).

`GroupsExact` is the converse: what is alike on the disk is shown as alike, or
below something that is. Its invariant `ExactInv`, on top of `Inv` and `QInv`,
says that an undisturbed scan *misses* nothing:

- `OnTheWay`: every folder that the walk can reach from a root was listed, is
  being listed or is to come, also when a root is inside another one and is
  listed only once (`Due`); so at the end all of them have been (`WalkComplete`).
- `Watching`, `Gathered`, `FirstMet`: an `lstat` gives the number of names that
  the inode has; of several names the first that was met is kept, and every
  other finds it, so every inode is in the result once, and a folder whose
  manifest is not whole holds something that made it so (`Bare`).
- `Answered`, `Sorted`: no read fails, so no file is dropped. A file that is
  settled without being read to its end, as the only one of its size or of its
  beginning, has a content of its own, and files of one content are settled
  together: by size, by probe, by the full digest, from the cache or read
  (`Alone`). This is the argument that the funnel is exact, and not just that it
  merges nothing wrongly.
- `Published`: the groups are those of what was found, also when they are computed
  again from a saved session.
- `Faithful`, `PrunedTrue`: what a removal leaves in the result is faithful to
  what it leaves on the disk (`RemovedFaithful`). It asks what a folder that
  goes takes with it (`TakenAway`): its parent may now hold nothing that keeps
  it from being whole, and must then have been read whole before.

Pure again are the last steps: two folders that hold the same have one manifest
(`OneTreeOneManifest`, by going up the tree, with the order of the rows given by
their names: `RowsInStep`), and two of one manifest are in one group unless one
above them is (`GroupOfTwo`).

This proof corrected its property in two places. What can be seen of a root inside
a root is decided on the way down from the outermost one, which may come to a
folder it skips or cannot open. And a folder is hidden by one above it that has a
like one, whether or not a group with that one is shown in the end (`covered`
is taken before groups of one are dropped). Volumes with
both cases are now in the run. It also asked what `Volume` had left open, that
all folders above a folder are there.

Three recursive definitions had to be tamed for this. `Ancestors`, `Manifests`
and `Tree` are functions defined by recursion over folders, and the induction
theorems of the library are out of reach. That such a function exists, and so
satisfies its equation, is proved in `FoldersProofs` by an induction over *sets*
of folders: the folders for which a partial solution exists, from the top
(`UpwardsEquation`) or from the leaves (`ManifestsAre`, and `TreeIs` in
`ScanProofs`).

`ScanClusters` is pure but for the types. Union-find climbs from a folder to its
root, and joins classes by a fold inside a fold. That the folds end, with a value
for each set, is once more shown over sets (`JoinedExist`, `FoldsSolved`); what
one step does is in `UnionIs` (a root is put below another one, and every climb
still ends: `ForestBegins`, `ClimbsTogether`) and in `JoinClassIs`. Each way round
has its argument: a set of folders that no class ties to another folder keeps
whole trees inside it, so nothing is joined that ties do not join; and all folders
of a class passed have one root (`AllLinked`). What as many ties as there are
folders lead to is closed (`NearCloses`), which gives the components of the
property (`RootsAreComponents`).

`ScanPairs` takes from `ProofTrue` and `GroupsExact` that two files have one
class exactly when they have one content. The bytes that two folders share are a
sum over classes, what each holds a sum over files; `SumByClass` and
`SharedAtMost` (on `FiniteSums`) put the first below the others, which bounds
the percentage, and a sum that is not zero has a term that is not, which is a
file that both have (`PairShares`). The row of a relative path then says what
the files of that path hold (`StatusTrue`), `NamesKnown` that those are the
names on the disk.

What only TLC shows is liveness (`AllEnd`, `WorkersEnd`, `ScanEnds`, `Settles`),
which the prover does not reach, and the runs that end in a counterexample.

## What the checks found

- `BothReread`: the docstring of `_verified_to_trash_files` promises a full
  reread of the victim and of a copy right before each move; current metadata,
  and a cached survivor, stand in for it. `NeverLastCopy` holds regardless as
  long as nobody acts during the pass.
- `SavedIsStored`: `save_session` may prune the session it has just written and
  return its path.
- `NothingLost` (`HistoryFallback`): the fallback of the exclusive rename unlinks
  the file of another program that took the reserved name.
- `RollbackKeepsProof`: a rolled-back restore leaves an item whose recorded
  identity no longer matches, since the renames moved the ctime.
- `EqualFoldersAlways` (`ScanRecompute`): after any removal, `recompute` forgets a
  subfolder that could not be opened, and its parent is shown as identical to a
  folder without it.

Seen while modelling, and not the subject of a run of their own:

- A scan stopped during its walk has files without a class. It is saved and
  listed in the history, and the loader refuses it ("file_class не відповідає
  file_meta", `infra/session.py:935`): `LoadRefused` in `Scan`. It refuses a whole
  session too when it is larger than its limits or one of its files has a time
  before 1970 (1093): the writer asks for neither. `RefreshCoherent` confines
  refusals to these three.
- A root swapped away and back between two of the checks of its identity
  (`ui/workers.py` 359, 388, 397, 404) leaves a result of another folder and no
  trace; the comment at 395-396 says that the second check excludes it.
- `compare_folders` (`domain/product.py:131-163`) looks at the first name of a
  file with several and not at its hard links (`dir_aliases`), so that a file is
  called missing whose other name is there. `PairsCompared` takes from the disk
  what is there, and a name that the result leaves out as not visible to it.
- The comments at `ui/app.py` 5186 and 7114 ("закрити лише після worker-ів") say
  that the window closes only after its workers. The scan of photos
  (`ui/perceptual_tab_controller.py` 140-145) is not among them and is neither
  cancelled nor awaited; and the end of a recompute (`ui/app.py` 5416) does not
  look at `_closing` and may start the thread that prepares the tables (5300).
- The unlinks of the session store and of the merge's clean-up may fail without a
  word: a payload then stays without its sidecar, more sessions than the limit
  stay, and a temporary or an empty reserved name stays in a folder of the user's.
- A merge of a live pair may be begun while a session loads: `_sim_merge`
  (`ui/app.py:6511`) looks only at `_merging` and `_trashing`, though the comment
  at 5713 says that loading owns the controls. The load then replaces the
  result, the merge is no longer the active one, and `_merging` stays set while
  its transfer goes on. Likewise a merge or a load overtaken by the queued answer
  of a storage probe, which begins a scan, loses its token and leaves its flag.
- Two quick look-ups of a historical pair nest their questions, so that a removal
  and the scan of a pair may run together; `pair_worker` is then overwritten and
  closing does not wait for it. These are the gaps that `rushed` records;
  without it `OneChanger` and `Settles` fail.
- When a signal already queued replaces the result during the check of the
  roots, the refresh is dropped with `_refresh_preflighting` left set; Cancel
  clears it. A sweep may start on a closing window.
- `recompute` also drops `dir_read_failed`, `scanned_roots` and the further names
  of a hard-linked file whose first name was removed; so `GroupsExact` speaks,
  after a removal, of layouts without hard links.
- A folder whose only twin lies inside a grouped folder is shown in no group: two
  like folders that hold copies of two others. And a folder that is grouped hides
  what is inside it even when its own group is dropped, its likes being inside
  other grouped folders (`covered` takes `grouped_dirs` from before that filter,
  `domain/core.py:1344`): `GroupsExact` makes the exception for what has a like
  above it, shown or not (volume `Covered`).
  `compare_folders` and `pair_diff` of a partial walk take two files without a
  class for identical.
- `verify_current_file` returns an `lstat` taken after the file was closed, where
  its docstring (`domain/core.py:488`) speaks of `fstat` before and after on one
  open descriptor.
- `TemperatureGovernor`, `directory_tree_complete`, `select_victims` and
  `choose_removals` are used by no part of the program.

## Plan

What is left to model: a clock set back in `SessionStore`, folders of two levels
in `FolderMerge`, volumes whose metadata is not to be trusted in `Scan`. The
removal of whole duplicate folders (`directory_mode`) would be a module of its
own, composed of the snapshots of `FolderMerge` and the gate of `TrashGate`.

No safety property that a run checks is left without a proof, but for those that
are expected to fail.

## Not modelled

The removal of whole duplicate folders (see the plan), the arithmetic of similar
images, reports, diagnostics, the update check, devices and storage,
tables, dialogs, scaling, the store of profiles and the renaming to NFC, for the
reasons in the inventory; the bytes of the session and journal formats.
