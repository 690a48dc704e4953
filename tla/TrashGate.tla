----------------------------- MODULE TrashGate -----------------------------
(***************************************************************************)
(* The file-removal pipeline: a set of duplicate files is proven against   *)
(* the disk, confirmed by the user, proven again and handed to the system  *)
(* Trash.  Two processes act on the same disk: the pipeline (one worker    *)
(* thread, the UI admits one removal at a time) and everything else on the *)
(* machine, which may edit, replace, delete or hard-link the same files    *)
(* between any two of the pipeline's system calls.                         *)
(*                                                                         *)
(* A path names an inode, an inode has a content, and its stamp stands for *)
(* the metadata that proof_is_current and _trash_identity compare (size,   *)
(* mtime, ctime).  On a file system the program trusts, every change moves *)
(* the stamp; on the others (exFAT and the like) it may leave it as it was.*)
(* The audit journal that to_trash appends to is the subject of            *)
(* RemovalHistory.                                                         *)
(***************************************************************************)
EXTENDS Naturals

CONSTANTS
  Paths,        \* the paths of the duplicate groups
  Inodes,       \* inodes of the volume
  Contents,     \* file contents, equal exactly when their BLAKE3 is
  Absent,       \* what lstat of a missing path returns
  Unique,       \* the class "u:n" of a file with no proven duplicate
  Trusted,      \* inodes on a file system of _FS_METADATA_WHITELIST
  Paranoid,     \* DUPSCAN_PARANOID=1 or verification.json
  EditPoints,   \* points of the pipeline where the rest of the machine acts
  RefLists,     \* bound: the lists of reference roots a user may keep
  MaxEdits,     \* bound: changes by the rest of the machine
  MaxOps        \* bound: removals started

Points == {"idle", "rescan", "rescanStat", "gate", "victimStat", "cached",
           "search", "copyStat", "confirm", "trash", "moving", "handover"}

\* Between the last system call that looked at an object by path and the one
\* that uses what it learned: no check of the program can close these.
VictimWindows == {"rescanStat", "victimStat", "handover"}

ASSUME ConstantsAssumption ==
  /\ Absent \notin Inodes
  /\ Unique \notin Contents
  /\ Trusted \subseteq Inodes
  /\ Paranoid \in BOOLEAN
  /\ EditPoints \subseteq Points
  /\ RefLists \subseteq SUBSET Paths
  /\ MaxEdits \in Nat
  /\ MaxOps \in Nat

VARIABLES
  disk, content, stamp, trashed,    \* the file system and its Trash
  refs,                             \* the reference roots on disk
  res, fresh,                       \* the scan result, the mini-result
  pc, mode, round,                  \* where the removal is
  removal, approved, todo, passed,  \* its sets of paths
  victim, vid, candidate, tried,    \* the locals of _verified_survivor
  cache, reread,                    \* survivor_cache; paths read for a victim
  mv, sent,                         \* move_one, per path; paths moved
  edits, ops

fsVars   == <<disk, content, stamp>>
gateVars == <<victim, vid, candidate, tried, reread>>
callVars == <<mv, sent>>
opVars   == <<mode, round, removal, approved>>
vars == <<disk, content, stamp, trashed, refs, res, fresh, pc, mode, round,
          removal, approved, todo, passed, victim, vid, candidate, tried,
          cache, reread, mv, sent, edits, ops>>

-----------------------------------------------------------------------------
(* Types *)

Identity == [ino : Inodes, stamp : Nat]
NoId     == [ino |-> Absent, stamp |-> 0]
Proof    == [id : Identity \cup {NoId}, class : Contents \cup {Unique}]
NoProof  == [id |-> NoId, class |-> Unique]
Copy     == [path : Paths, ino : Inodes]
NoCopy   == [path |-> Absent, ino |-> Absent]

TypeOK ==
  /\ disk \in [Paths -> Inodes \cup {Absent}]
  /\ content \in [Inodes -> Contents]
  /\ stamp \in [Inodes -> Nat]
  /\ trashed \subseteq Inodes
  /\ refs \in [readable : BOOLEAN, roots : RefLists]
  /\ res \in [Paths -> Proof]
  /\ fresh \in [Paths -> Proof]
  /\ pc \in Points \ {"handover"}
  /\ mode \in {"batch", "fresh", "each"}
  /\ round \in {"first", "again"}
  /\ removal \subseteq Paths
  /\ approved \subseteq Paths
  /\ todo \subseteq Paths
  /\ passed \in [Paths -> Identity \cup {NoId}]
  /\ victim \in Paths \cup {Absent}
  /\ vid \in Identity \cup {NoId}
  /\ candidate \in Paths \cup {Absent}
  /\ tried \subseteq Paths
  /\ cache \in [Contents -> Copy \cup {NoCopy}]
  /\ reread \subseteq Paths
  /\ mv \in [Paths -> {"none", "ready", "checked"}]
  /\ sent \subseteq Paths
  /\ edits \in 0..MaxEdits
  /\ ops \in 0..MaxOps

-----------------------------------------------------------------------------
(* What the pipeline asks the file system *)

Exists(p) == disk[p] # Absent

\* _trash_identity(os.lstat(p)) of an existing path
Id(p) == [ino |-> disk[p], stamp |-> stamp[disk[p]]]

\* The result the gate works on: the mini-result of _fresh_group_verify, or
\* the scan's own.
Known(p) == IF mode = "fresh" THEN fresh[p] ELSE res[p]

ClassPaths(c) == {p \in Paths : Known(p).class = c}

\* proof_kind is FULL_PROOF, proof_is_current, not paranoid, trusted volume
Shortcut(p) == /\ Known(p).id = Id(p)
               /\ ~Paranoid
               /\ disk[p] \in Trusted

\* The fresh full read of verify_current_file finds the class's digest
ReadsAs(p, c) == content[disk[p]] = c

\* The loop of _verified_to_trash_files, as opposed to a verification pass.
InLoop == mode = "each" /\ round = "again"

NothingPassed == [p \in Paths |-> NoId]
NothingCached == [c \in Contents |-> NoCopy]
NothingFresh  == [p \in Paths |-> NoProof]

Init ==
  /\ disk \in [Paths -> Inodes]
  /\ content \in [Inodes -> Contents]
  /\ stamp = [i \in Inodes |-> 0]
  /\ trashed = {}
  /\ refs \in [readable : {TRUE}, roots : RefLists]
  /\ res = [p \in Paths |->
              [id    |-> [ino |-> disk[p], stamp |-> 0],
               class |-> IF \E q \in Paths \ {p} :
                              content[disk[q]] = content[disk[p]]
                         THEN content[disk[p]] ELSE Unique]]
  /\ fresh = NothingFresh
  /\ pc = "idle" /\ mode = "batch" /\ round = "first"
  /\ removal = {} /\ approved = {} /\ todo = {}
  /\ passed = NothingPassed
  /\ victim = Absent /\ vid = NoId /\ candidate = Absent
  /\ tried = {} /\ reread = {}
  /\ cache = NothingCached
  /\ mv = [p \in Paths |-> "none"] /\ sent = {}
  /\ edits = 0 /\ ops = 0

-----------------------------------------------------------------------------
(* The beginning and the end of a removal *)

\* One pass of verification over the requested paths; the snapshot flow first
\* rereads every member of the touched groups into an empty mini-result.
BeginPass(m, set) ==
  /\ todo' = set
  /\ passed' = NothingPassed
  /\ fresh' = NothingFresh
  /\ cache' = NothingCached
  /\ pc' = IF m = "fresh" THEN "rescan" ELSE "gate"

\* The user asks for the marked (or current) duplicates to be removed:
\* _delete_duplicate_paths ("batch"), _verify_snapshot_group_then_trash
\* ("fresh", refused when a group would lose every member) and _sim_trash_flow
\* ("each").  The window refuses protected paths early, from its own cache of
\* the reference roots; to_trash does not rely on it and neither does this.
Start(m, requested) ==
  /\ pc = "idle"
  /\ ops < MaxOps
  /\ requested # {}
  /\ \A p \in requested : res[p].class # Unique
  /\ m = "fresh" => \A p \in requested :
                       \E q \in Paths \ requested : res[q].class = res[p].class
  /\ mode' = m
  /\ round' = "first"
  /\ removal' = requested
  /\ ops' = ops + 1
  /\ BeginPass(m, requested)
  /\ UNCHANGED <<fsVars, trashed, refs, res, approved, gateVars, callVars,
                 edits>>

\* The removal is over and its locals with it.
End ==
  /\ pc' = "idle"
  /\ removal' = {} /\ approved' = {} /\ todo' = {} /\ sent' = {}
  /\ passed' = NothingPassed
  /\ cache' = NothingCached
  /\ fresh' = NothingFresh
  /\ UNCHANGED <<mode, round>>

\* The victim's round of _verified_survivor is over.
Forget ==
  /\ victim' = Absent /\ vid' = NoId /\ candidate' = Absent
  /\ tried' = {} /\ reread' = {}

\* finish: the snapshot flow leaves its result alone; otherwise a recompute
\* drops what was moved without an error, unless another one is running.
Finish ==
  /\ End
  /\ Forget
  /\ \/ UNCHANGED res
     \/ /\ mode # "fresh"
        /\ res' = [p \in Paths |-> IF p \in sent THEN NoProof ELSE res[p]]

-----------------------------------------------------------------------------
(* _fresh_group_verify: the mini-result of the snapshot flow *)

Touched(p) == \E q \in removal : res[q].class = res[p].class

\* Read one member of a touched group in full ...
Rescan(p) ==
  /\ pc = "rescan"
  /\ Touched(p)
  /\ p \notin tried
  /\ tried' = tried \cup {p}
  /\ IF Exists(p)
       THEN /\ candidate' = p
            /\ fresh' = [fresh EXCEPT ![p] = [id |-> NoId, class |-> content[disk[p]]]]
            /\ pc' = "rescanStat"
       ELSE UNCHANGED <<candidate, fresh, pc>>
  /\ UNCHANGED <<fsVars, trashed, refs, res, opVars, todo, passed, victim, vid,
                 cache, reread, callVars, edits, ops>>

\* ... and take the stat that verify_current_file returns with the digest.
RescanStat ==
  /\ pc = "rescanStat"
  /\ fresh' = [fresh EXCEPT ![candidate] =
                 IF Exists(candidate)
                   THEN [id |-> Id(candidate), class |-> fresh[candidate].class]
                   ELSE NoProof]
  /\ candidate' = Absent
  /\ pc' = "rescan"
  /\ UNCHANGED <<fsVars, trashed, refs, res, opVars, todo, passed, victim, vid,
                 tried, reread, cache, callVars, edits, ops>>

RescanDone ==
  /\ pc = "rescan"
  /\ \A p \in Paths : Touched(p) => p \in tried
  /\ tried' = {}
  /\ pc' = "gate"
  /\ UNCHANGED <<fsVars, trashed, refs, res, fresh, opVars, todo, passed,
                 victim, vid, candidate, cache, reread, callVars, edits, ops>>

-----------------------------------------------------------------------------
(* _verified_survivor *)

\* The victim stays out of the proven set.
Refuse(v) ==
  /\ todo' = todo \ {v}
  /\ pc' = "gate"
  /\ Forget
  /\ UNCHANGED passed

\* _proven_stat of the victim.  No entry, no proven class or no file refuses
\* it; a current proof answers from the metadata alone; otherwise a full read
\* must give the digest of its class.
ProveVictim(v) ==
  LET c == Known(v).class IN
  /\ pc = "gate"
  /\ v \in todo
  /\ \/ /\ c = Unique \/ ~Exists(v)
        /\ Refuse(v)
     \/ /\ c # Unique /\ Exists(v) /\ Shortcut(v)
        /\ victim' = v
        /\ vid' = Id(v)
        /\ pc' = "cached"
        /\ UNCHANGED <<todo, passed, candidate, tried, reread>>
     \/ /\ c # Unique /\ Exists(v) /\ ~Shortcut(v) /\ ~ReadsAs(v, c)
        /\ Refuse(v)
     \/ /\ c # Unique /\ Exists(v) /\ ~Shortcut(v) /\ ReadsAs(v, c)
        /\ victim' = v
        /\ reread' = {v}
        /\ pc' = "victimStat"
        /\ UNCHANGED <<todo, passed, vid, candidate, tried>>
  /\ UNCHANGED <<fsVars, trashed, refs, res, fresh, opVars, cache, callVars,
                 edits, ops>>

\* The lstat that follows the read, of the path and not of the file read.
VictimStat ==
  /\ pc = "victimStat"
  /\ IF Exists(victim)
       THEN /\ vid' = Id(victim)
            /\ pc' = "cached"
            /\ UNCHANGED <<todo, passed, victim, candidate, tried, reread>>
       ELSE Refuse(victim)
  /\ UNCHANGED <<fsVars, trashed, refs, res, fresh, opVars, cache, callVars,
                 edits, ops>>

\* Proven, with an independent copy.  A verification pass notes the identity;
\* _verified_to_trash_files goes on to the Trash with this one path.
Accept ==
  /\ passed' = [passed EXCEPT ![victim] = vid]
  /\ todo' = todo \ {victim}
  /\ IF InLoop
       THEN /\ pc' = "trash"
            /\ candidate' = Absent /\ tried' = {}
            /\ UNCHANGED <<victim, vid, reread>>
       ELSE pc' = "gate" /\ Forget

\* Only _verified_to_trash_files passes a survivor_cache.
CacheHit ==
  LET hit == cache[Known(victim).class] IN
  /\ InLoop
  /\ hit # NoCopy
  /\ hit.path \notin removal
  /\ hit.ino # vid.ino
  /\ Exists(hit.path)

ConsultCache ==
  /\ pc = "cached"
  /\ IF CacheHit
       THEN Accept
       ELSE pc' = "search" /\ UNCHANGED <<todo, passed, gateVars>>
  /\ UNCHANGED <<fsVars, trashed, refs, res, fresh, opVars, cache, callVars,
                 edits, ops>>

\* Paths of the class that may stand in for the victim, not yet tried.
Candidates == ClassPaths(Known(victim).class) \ (removal \cup {victim} \cup tried)

NextCandidate(q) ==
  /\ tried' = tried \cup {q}
  /\ pc' = "search"
  /\ candidate' = Absent
  /\ UNCHANGED <<passed, todo, cache, victim, vid>>

\* Mutant: another path of the class is taken for another copy.
AcceptCopyOfSameInode(q, i) ==
  /\ Accept
  /\ cache' = IF InLoop
                THEN [cache EXCEPT ![Known(victim).class] = [path |-> q, ino |-> i]]
                ELSE cache

\* Mutant: the cache keeps the victim's identity record, not the copy's inode.
AcceptCopyAsIdentity(q, i) ==
  /\ i # vid.ino
  /\ Accept
  /\ cache' = IF InLoop
                THEN [cache EXCEPT ![Known(victim).class] = [path |-> q, ino |-> vid]]
                ELSE cache

\* A copy q, proven and seen as inode i, counts when it is another inode.
AcceptCopy(q, i) ==
  /\ i # vid.ino
  /\ Accept
  /\ cache' = IF InLoop
                THEN [cache EXCEPT ![Known(victim).class] = [path |-> q, ino |-> i]]
                ELSE cache

\* _proven_stat of one candidate copy.  The code walks them in path order;
\* here in any order.
ProveCopy(q) ==
  LET c == Known(victim).class IN
  /\ pc = "search"
  /\ q \in Candidates
  /\ \/ /\ ~Exists(q)
        /\ NextCandidate(q)
        /\ UNCHANGED reread
     \/ /\ Exists(q) /\ Shortcut(q)
        /\ \/ AcceptCopy(q, disk[q])
           \/ disk[q] = vid.ino /\ NextCandidate(q) /\ UNCHANGED reread
     \/ /\ Exists(q) /\ ~Shortcut(q) /\ ~ReadsAs(q, c)
        /\ NextCandidate(q)
        /\ reread' = reread \cup {q}
     \/ /\ Exists(q) /\ ~Shortcut(q) /\ ReadsAs(q, c)
        /\ candidate' = q
        /\ reread' = reread \cup {q}
        /\ pc' = "copyStat"
        /\ UNCHANGED <<passed, todo, cache, victim, vid, tried>>
  /\ UNCHANGED <<fsVars, trashed, refs, res, fresh, opVars, callVars, edits, ops>>

\* The lstat that follows the read of a copy; OSError moves to the next one.
CopyStat ==
  /\ pc = "copyStat"
  /\ \/ Exists(candidate) /\ AcceptCopy(candidate, disk[candidate])
     \/ /\ ~Exists(candidate) \/ disk[candidate] = vid.ino
        /\ NextCandidate(candidate)
        /\ UNCHANGED reread
  /\ UNCHANGED <<fsVars, trashed, refs, res, fresh, opVars, callVars, edits, ops>>

\* No candidate is left: the victim has no independent copy.
NoSurvivor ==
  /\ pc = "search"
  /\ Candidates = {}
  /\ Refuse(victim)
  /\ UNCHANGED <<fsVars, trashed, refs, res, fresh, opVars, cache, callVars,
                 edits, ops>>

-----------------------------------------------------------------------------
(* Between the passes *)

Proven == {p \in Paths : passed[p] # NoId}

\* after_verify: nothing proven ends the removal, else the modal question.
FirstPassDone ==
  /\ pc = "gate" /\ todo = {} /\ round = "first"
  /\ IF Proven = {}
       THEN End
       ELSE pc' = "confirm" /\ UNCHANGED <<opVars, todo, passed, fresh, cache, sent>>
  /\ UNCHANGED <<fsVars, trashed, refs, res, gateVars, mv, edits, ops>>

\* The answer No, or every mark taken off in the review dialog.
Decline ==
  /\ pc = "confirm"
  /\ End
  /\ UNCHANGED <<fsVars, trashed, refs, res, gateVars, mv, edits, ops>>

\* The answer Yes.  The review of "fresh" and "each" may drop proven paths.
\* Both passes of "batch" and "fresh" verify against the requested set; the
\* loop of "each" starts over with the approved paths alone.
Confirm(yes) ==
  /\ pc = "confirm"
  /\ yes # {}
  /\ IF mode = "batch" THEN yes = Proven ELSE yes \subseteq Proven
  /\ approved' = yes
  /\ removal' = IF mode = "each" THEN yes ELSE removal
  /\ round' = "again"
  /\ BeginPass(mode, removal')
  /\ UNCHANGED <<fsVars, trashed, refs, res, mode, gateVars, callVars, edits, ops>>

\* verify_again_and_trash calls to_trash once, with the safe paths.
SecondPassDone ==
  /\ pc = "gate" /\ todo = {} /\ round = "again" /\ mode # "each"
  /\ pc' = "trash"
  /\ UNCHANGED <<fsVars, trashed, refs, res, fresh, opVars, todo, passed,
                 gateVars, cache, callVars, edits, ops>>

-----------------------------------------------------------------------------
(* to_trash *)

\* Mutant: everything the second pass proved is moved, approved or not.
BatchUnapproved == IF InLoop THEN {victim} ELSE Proven

\* The paths of this call: the safe approved ones, or the single victim.
Batch == IF InLoop THEN {victim} ELSE Proven \cap approved

\* Mutant: the inode alone stands for the identity.
AuthorizedByInode(p) == Exists(p) /\ disk[p] = passed[p].ino

Authorized(p) == Exists(p) /\ Id(p) = passed[p]

\* Mutant: the window's early refusal is the only check of reference roots.
PreflightUnprotected ==
  /\ pc = "trash"
  /\ mv' = [p \in Paths |-> IF p \in Batch /\ Authorized(p) THEN "ready" ELSE "none"]
  /\ pc' = "moving"
  /\ UNCHANGED <<fsVars, trashed, refs, res, fresh, opVars, todo, passed,
                 gateVars, cache, sent, edits, ops>>

\* Unreadable reference roots refuse everything; protected paths and paths
\* whose identity is not the proven one are refused.
Preflight ==
  /\ pc = "trash"
  /\ mv' = [p \in Paths |->
              IF /\ p \in Batch
                 /\ refs.readable
                 /\ p \notin refs.roots
                 /\ Authorized(p)
                THEN "ready" ELSE "none"]
  /\ pc' = "moving"
  /\ UNCHANGED <<fsVars, trashed, refs, res, fresh, opVars, todo, passed,
                 gateVars, cache, sent, edits, ops>>

\* move_one: the identity once more, right before the path-only call.  Eight
\* or more paths run in a pool, so the calls interleave.
MoveCheck(p) ==
  /\ mv[p] = "ready"
  /\ mv' = [mv EXCEPT ![p] = IF Authorized(p) THEN "checked" ELSE "none"]
  /\ UNCHANGED <<fsVars, trashed, refs, res, fresh, pc, opVars, todo, passed,
                 gateVars, cache, sent, edits, ops>>

\* A rename or an unlink may touch the ctime its inode's other links show.
Relinked(i) == {stamp, [stamp EXCEPT ![i] = @ + 1]}

\* send2trash moves whatever the path names now, or fails.
Send(p) ==
  /\ mv[p] = "checked"
  /\ mv' = [mv EXCEPT ![p] = "none"]
  /\ \/ /\ Exists(p)
        /\ disk' = [disk EXCEPT ![p] = Absent]
        /\ stamp' \in Relinked(disk[p])
        /\ trashed' = trashed \cup {disk[p]}
        /\ sent' = sent \cup {p}
     \/ UNCHANGED <<disk, stamp, trashed, sent>>
  /\ UNCHANGED <<content, refs, res, fresh, pc, opVars, todo, passed, gateVars,
                 cache, edits, ops>>

\* to_trash returns: the next path of the loop, or finish.
MoveDone ==
  /\ pc = "moving"
  /\ \A p \in Paths : mv[p] = "none"
  /\ IF InLoop
       THEN pc' = "gate" /\ Forget
            /\ UNCHANGED <<res, fresh, opVars, todo, passed, cache, sent>>
       ELSE Finish
  /\ UNCHANGED <<fsVars, trashed, refs, mv, edits, ops>>

\* The loop of _verified_to_trash_files is over.
LoopDone ==
  /\ pc = "gate" /\ todo = {} /\ InLoop
  /\ Finish
  /\ UNCHANGED <<fsVars, trashed, refs, mv, edits, ops>>

-----------------------------------------------------------------------------
(* The rest of the machine *)

Point == IF \E p \in Paths : mv[p] = "checked" THEN "handover" ELSE pc

Meddle ==
  /\ Point \in EditPoints
  /\ edits < MaxEdits
  /\ edits' = edits + 1
  /\ UNCHANGED <<trashed, res, fresh, pc, opVars, todo, passed, gateVars, cache,
                 callVars, ops>>

\* A change of inode i moves its stamp, unless the volume is not trusted.
Stamped(i) == {[stamp EXCEPT ![i] = @ + 1]} \cup (IF i \in Trusted THEN {} ELSE {stamp})

Free(i) == i \notin trashed /\ \A p \in Paths : disk[p] # i

\* Another program writes into the file, or only touches it.
EditInPlace(p, c) ==
  /\ Meddle
  /\ Exists(p)
  /\ content' = [content EXCEPT ![disk[p]] = c]
  /\ stamp' \in Stamped(disk[p])
  /\ UNCHANGED <<disk, refs>>

\* A save-as over the path, or a new file: another inode behind the same name.
Replace(p, i, c) ==
  /\ Meddle
  /\ Free(i)
  /\ disk' = [disk EXCEPT ![p] = i]
  /\ content' = [content EXCEPT ![i] = c]
  /\ stamp' \in Stamped(i)
  /\ UNCHANGED refs

Delete(p) ==
  /\ Meddle
  /\ Exists(p)
  /\ disk' = [disk EXCEPT ![p] = Absent]
  /\ stamp' \in Relinked(disk[p])
  /\ UNCHANGED <<content, refs>>

HardLink(p, q) ==
  /\ Meddle
  /\ Exists(q)
  /\ p # q
  /\ disk' = [disk EXCEPT ![p] = disk[q]]
  /\ stamp' \in Stamped(disk[q])
  /\ UNCHANGED <<content, refs>>

\* The user edits the list of reference folders, or its file is damaged.
SetReferences(r) ==
  /\ Meddle
  /\ refs' = r
  /\ UNCHANGED fsVars

-----------------------------------------------------------------------------

Pipeline ==
  \/ \E p \in Paths : \/ Rescan(p) \/ ProveVictim(p) \/ ProveCopy(p)
                      \/ MoveCheck(p) \/ Send(p)
  \/ RescanStat \/ RescanDone \/ VictimStat \/ ConsultCache \/ CopyStat
  \/ NoSurvivor \/ FirstPassDone \/ SecondPassDone \/ Preflight \/ MoveDone
  \/ LoopDone

User ==
  \/ \E m \in {"batch", "fresh", "each"}, s \in SUBSET Paths : Start(m, s)
  \/ \E s \in SUBSET Paths : Confirm(s)
  \/ Decline

Machine ==
  \/ \E p \in Paths, c \in Contents : EditInPlace(p, c)
  \/ \E p \in Paths, i \in Inodes, c \in Contents : Replace(p, i, c)
  \/ \E p \in Paths : Delete(p)
  \/ \E p, q \in Paths : HardLink(p, q)
  \/ \E r \in [readable : BOOLEAN, roots : RefLists] : SetReferences(r)

Next == Pipeline \/ User \/ Machine

Spec == Init /\ [][Next]_vars

-----------------------------------------------------------------------------
(* What holds between the steps, for the proofs *)

\* The locals a step reads have been set by the steps before it.
LocalsOK ==
  /\ pc \in {"rescanStat", "copyStat"} => candidate \in Paths
  /\ pc \in {"victimStat", "cached", "search", "copyStat"} => victim \in Paths
  /\ (InLoop /\ pc \in {"trash", "moving"}) => victim \in Paths

\* Identity id speaks for content c: as long as the inode's stamp has not moved
\* on, and the volume is trusted, the inode holds c.
Vouched(id, c, st, ct) ==
  (id # NoId /\ c # Unique) =>
               /\ id.stamp <= st[id.ino]
               /\ (id.ino \in Trusted /\ id.stamp = st[id.ino]) => ct[id.ino] = c

\* Only between the steps of one removal are there identities and moves.
PhasesOK ==
  /\ pc # "moving" => \A p \in Paths : mv[p] = "none"
  /\ pc \in {"idle", "confirm", "rescan", "rescanStat", "gate", "victimStat"} => vid = NoId
  /\ pc = "idle" => approved = {}
  /\ pc \in {"rescan", "rescanStat"} => passed = NothingPassed /\ mode = "fresh"

\* Every identity the pipeline relies on speaks for the class it was proven
\* for, as long as nobody acts inside the victim's windows.
WindowsClosed == EditPoints \cap VictimWindows = {}

ResultsVouched ==
  \A p \in Paths : /\ Vouched(res[p].id, res[p].class, stamp, content)
                   /\ Vouched(fresh[p].id, fresh[p].class, stamp, content)

PassedVouched ==
  \A p \in Paths : /\ Vouched(passed[p], Known(p).class, stamp, content)
                   /\ passed[p] # NoId => Known(p).class # Unique

VictimVouched ==
  /\ Vouched(vid, Known(victim).class, stamp, content)
  /\ pc \in {"victimStat", "cached", "search", "copyStat"} => Known(victim).class # Unique

ReadsStand ==
  /\ (pc = "victimStat" /\ Exists(victim)) =>
       content[disk[victim]] = Known(victim).class
  /\ (pc = "rescanStat" /\ Exists(candidate)) =>
       content[disk[candidate]] = fresh[candidate].class

MovesVouched ==
  \A p \in Paths : (mv[p] = "checked" /\ disk[p] \in Trusted) =>
    content[disk[p]] = Known(p).class

ProofsOK == /\ ResultsVouched /\ PassedVouched /\ VictimVouched
            /\ ReadsStand /\ MovesVouched

\* With nobody acting while a pass runs, what is proven has a living copy
\* outside the removal, and every move is of a proven, requested path.
QuietMachine == EditPoints \subseteq {"idle", "confirm"}

HasCopy(i, c) ==
  \E q \in Paths \ removal : /\ disk[q] \in Inodes \ {i}
                             /\ content[disk[q]] = c

RolesOK ==
  /\ todo \subseteq removal /\ approved \subseteq removal
  /\ \A p \in Paths : /\ passed[p] # NoId => p \in removal
                      /\ mv[p] # "none" => passed[p] # NoId
                      /\ mv[p] = "checked" => disk[p] \in {passed[p].ino, Absent}

SearchOK ==
  /\ pc \in {"victimStat", "cached", "search", "copyStat"} => victim \in removal
  /\ pc \in {"cached", "search", "copyStat"} =>
       vid # NoId /\ content[vid.ino] = Known(victim).class
  /\ pc = "copyStat" =>
       /\ candidate \in Paths \ removal
       /\ Exists(candidate) => content[disk[candidate]] = Known(victim).class

CopiesKept ==
  pc \notin {"idle", "confirm"} =>
    /\ \A p \in Paths : passed[p] # NoId =>
         /\ content[passed[p].ino] = Known(p).class
         /\ HasCopy(passed[p].ino, Known(p).class)
    /\ \A c \in Contents : cache[c] # NoCopy =>
         /\ cache[c].path \in Paths \ removal
         /\ disk[cache[c].path] = cache[c].ino
         /\ cache[c].ino \in Inodes
         /\ content[cache[c].ino] = c

CopiesOK == RolesOK /\ SearchOK /\ CopiesKept

\* What may be moved was approved, and stays so until it is moved.
ApprovedOK ==
  /\ InLoop => /\ todo \subseteq approved
               /\ pc \in {"victimStat", "cached", "search", "copyStat", "trash", "moving"} =>
                    victim \in approved
  /\ \A p \in Paths : mv[p] # "none" => p \in approved

\* What may be moved is under no reference root.
UnprotectedOK ==
  \A p \in Paths : mv[p] # "none" => refs.readable /\ p \notin refs.roots

-----------------------------------------------------------------------------
(* Properties *)

Sending(p) == p \in sent' \ sent

\* The promise of the confirmation dialogs, "another copy of every file
\* remains": whatever a step hands to the Trash, a path the user did not put
\* up for removal still names another inode with the same content.  It is
\* about the passes of _verified_survivor, hard links, the survivor cache and
\* a removal that names several members of one class.
NeverLastCopy ==
  [][\A p \in Paths : Sending(p) =>
       \E q \in Paths \ removal : /\ disk[q] \in Inodes \ {disk[p]}
                                  /\ content[disk[q]] = content[disk[p]]
                                  /\ disk'[q] = disk[q]]_vars

\* What goes to the Trash has, at that moment, the content that was proven to
\* be a duplicate: a file edited or replaced after the scan, after the first
\* pass or while its copies were being read is never taken for the old one.
SentAsProven ==
  [][\A p \in Paths : (Sending(p) /\ disk[p] \in Trusted) =>
       content[disk[p]] = Known(p).class]_vars

\* Nothing the user has not approved in the dialog goes to the Trash, though
\* the second pass proves the whole requested set again.
SentAsApproved == [][\A p \in Paths : Sending(p) => p \in approved]_vars

\* A path under a reference root is never handed to the Trash, nor is any path
\* while the list of roots cannot be read, even if the list changed after the
\* removal was asked for.
ProtectedStays ==
  [][\A p \in Paths : Sending(p) => refs.readable /\ p \notin refs.roots]_vars

\* What the comment of _verified_to_trash_files says of every path handed to
\* send2trash: right before, it and an independent copy have been read again
\* in full.
BothReread ==
  [][\A p \in Paths : (Sending(p) /\ InLoop) =>
       p \in reread /\ reread \ removal # {}]_vars
=============================================================================
