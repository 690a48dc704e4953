---------------------------- MODULE FolderMerge ----------------------------
(***************************************************************************)
(* The merge of two similar folders: a plan is made from the scan and the  *)
(* disk, each row is proven by a full read, the user chooses copy or move, *)
(* the rows are transferred one by one without overwriting anything, and   *)
(* after a move the rest of the source folder may go to the Trash as one   *)
(* entry.  The merge (its workers run one after another) and the rest of   *)
(* the machine act on the same two folders.                                *)
(*                                                                         *)
(* A folder is an object with entries; a path names one at a time, an open *)
(* descriptor keeps the one it was opened on.  An entry names an inode, an *)
(* inode has a content and a stamp, which stands for the metadata          *)
(* _trash_identity compares.  Both folders are on a file system whose      *)
(* stamp moves with every change; TrashGate has the others.                *)
(***************************************************************************)
EXTENDS Naturals, FiniteSets

CONSTANTS
  Files,        \* file names in the folders
  Inodes,       \* bound: inodes of the volume, 1..N
  Links,        \* inodes that are symbolic links
  Contents,     \* file contents and link targets
  MaxSuffix,    \* bound: _MAX_SUFFIX_ATTEMPTS
  EditPoints,   \* <<point, side>>: where the rest of the machine acts
  Layouts,      \* bound: what was on disk, and what of it was scanned
  MaxEdits      \* bound: changes by the rest of the machine

Sides   == {"source", "target"}
Folders == {"A", "B", "C"}          \* A and B were scanned, C replaces one
Names   == Files \X (1..MaxSuffix)  \* "name", "name (2)", ...
Entries == Folders \X Names
Absent  == 0
Blank   == "blank"                  \* the content of a reserved name
Unique  == "u:n"                    \* the class of a file without duplicate

PlanPoints  == {"plan", "digest", "recheck", "confirm"}
RowPoints   == {"open", "read", "proved", "target", "copy", "copying",
                "publish", "checked", "linked", "stub", "taken"}
TrashPoints == {"ask", "dir", "prove", "send"}
Points == {"idle", "rows", "done"} \cup PlanPoints \cup RowPoints
          \cup TrashPoints

\* Between the last system call that looked at an object by name and the one
\* that uses what it learned: no check of the program can close these.
Windows == {<<"read", "source">>, <<"checked", "source">>,
            <<"linked", "source">>, <<"linked", "target">>,
            <<"stub", "source">>, <<"stub", "target">>,
            <<"prove", "target">>, <<"send", "target">>, <<"send", "source">>}

NoDigest == "none"

ASSUME ConstantsAssumption ==
  /\ Files # {}
  /\ IsFiniteSet(Inodes) /\ Inodes = 1..Cardinality(Inodes)
  /\ Links \subseteq Inodes
  /\ {Blank, Unique, NoDigest} \cap Contents = {}
  /\ MaxSuffix \in Nat \ {0}
  /\ EditPoints \subseteq Points \X Sides
  /\ MaxEdits \in Nat

ASSUME LayoutsAssumption ==
  \A l \in Layouts :
    /\ l.disk \in [Entries -> Inodes \cup {Absent}]
    /\ l.content \in [Inodes -> Contents]
    /\ l.scanned \subseteq {e \in Entries : l.disk[e] # Absent}

VARIABLES
  disk, content, stamp,       \* entries, and the inodes behind them
  at, hardLinks,              \* the folder each path names; link(2) works
  known,                      \* the scan: identity and class of an entry
  pc, mode, cancel,
  roots, expected,            \* identities and digests of the preparation
  todo,                       \* rows not taken yet; files not proven yet
  row, temp,                  \* locals of a row; the private temporary
  temps, refused,             \* temporaries on disk; inodes the clean-up kept
  outcome, dest,              \* transferred, skipped, errors, per file
  sid, before, bad, trashed,  \* locals of the folder's proof; the Trash
  touched,                    \* the times of the folder sid moved since
  edits

fsVars   == <<disk, content, stamp>>
planVars == <<roots, expected, mode>>
left     == <<temps, refused>>
rowVars  == <<row, temp, left, outcome, dest>>
dirVars  == <<sid, before, bad, trashed, touched>>
fixed    == <<hardLinks, known>>
vars == <<disk, content, stamp, at, hardLinks, known, pc, mode, cancel, roots,
          expected, todo, row, temp, temps, refused, outcome, dest, sid, before,
          bad, trashed, touched, edits>>

-----------------------------------------------------------------------------
(* Types *)

Identity == [ino : Inodes \cup {Absent}, stamp : Nat]
NoId     == [ino |-> Absent, stamp |-> 0]
NoEntry  == <<"C", <<>>>>
Digests  == Contents \cup {Blank, NoDigest}
Row      == [file : Files, link : BOOLEAN, digest : Digests, id : Identity,
             n : 1..MaxSuffix]
NoRow    == [file |-> CHOOSE f \in Files : TRUE, link |-> FALSE,
             digest |-> NoDigest, id |-> NoId, n |-> 1]

TypeOK ==
  /\ disk \in [Entries -> Inodes \cup {Absent}]
  /\ content \in [Inodes -> Contents \cup {Blank}]
  /\ stamp \in [Inodes -> Nat]
  /\ at \in [Sides -> Folders]
  /\ hardLinks \in BOOLEAN
  /\ known \in [Entries -> [id : Identity, class : Contents \cup {Unique}]]
  /\ pc \in Points
  /\ mode \in {"none", "move", "copy"}
  /\ cancel \in BOOLEAN
  /\ roots \in [Sides -> Folders]
  /\ expected \in [Files -> Contents \cup {NoDigest}]
  /\ todo \subseteq Names
  /\ row \in Row
  /\ temp \in Inodes \cup {Absent}
  /\ temps \subseteq Inodes /\ refused \subseteq Inodes
  /\ outcome \in [Files -> {"none", "moved", "skipped", "failed"}]
  /\ dest \in [Files -> Entries \cup {NoEntry}]
  /\ sid \in Folders
  /\ before \in [Names -> Identity]
  /\ bad \in BOOLEAN
  /\ trashed \subseteq Inodes
  /\ touched \in BOOLEAN
  /\ edits \in 0..MaxEdits

-----------------------------------------------------------------------------
(* What the program asks the file system *)

First(f)  == <<f, 1>>
Src(f)    == <<at["source"], First(f)>>      \* by path
Pinned(f) == <<roots["source"], First(f)>>   \* by the source descriptor
Target    == <<roots["target"], <<row.file, row.n>>>>

Exists(e)  == disk[e] # Absent
IsLink(e)  == disk[e] \in Links
Regular(e) == Exists(e) /\ ~IsLink(e)
IdOf(i)    == IF i = Absent THEN NoId ELSE [ino |-> i, stamp |-> stamp[i]]
Id(e)      == IdOf(disk[e])

\* A full read, or readlink, of the entry gives the digest d.
Holds(e, link, d) == Exists(e) /\ IsLink(e) = link /\ content[disk[e]] = d

InUse == {disk[e] : e \in Entries} \cup trashed \cup temps \cup {temp}
Free(link)  == {i \in Inodes \ InUse : (i \in Links) = link}
Fresh(link) == CHOOSE i \in Free(link) : \A j \in Free(link) : i <= j

\* What a new inode holds; its stamp is none that a file had before.
Create(i, c) == /\ content' = [content EXCEPT ![i] = c]
                /\ stamp' = [stamp EXCEPT ![i] = @ + 1]

\* snapshot_directory_state: the metadata of everything in the folder
Snapshot(d) == [nm \in Names |-> Id(<<d, nm>>)]

-----------------------------------------------------------------------------
(* The scan that the merge starts from *)

Covered(e) == known[e].id # NoId

\* proof_kind is FULL_PROOF: the class has another member
FullProof(e) == Covered(e) /\ known[e].class # Unique

ScanOf(d, scanned) ==
  [e \in Entries |->
     [id    |-> IF e \in scanned THEN [ino |-> d[e], stamp |-> 0] ELSE NoId,
      class |-> IF /\ e \in scanned
                   /\ \E o \in scanned \ {e} : content[d[o]] = content[d[e]]
                THEN content[d[e]] ELSE Unique]]

Init ==
  /\ \E l \in Layouts :
       /\ disk = l.disk /\ content = l.content
       /\ known = ScanOf(l.disk, l.scanned)
  /\ temp = Absent /\ temps = {} /\ refused = {} /\ trashed = {}
  /\ stamp = [i \in Inodes |-> 0]
  /\ at = [s \in Sides |-> IF s = "source" THEN "A" ELSE "B"]
  /\ hardLinks \in BOOLEAN
  /\ pc = "idle" /\ mode = "none" /\ cancel = FALSE
  /\ roots = at
  /\ expected = [f \in Files |-> NoDigest]
  /\ todo = {}
  /\ row = NoRow
  /\ outcome = [f \in Files |-> "none"]
  /\ dest = [f \in Files |-> NoEntry]
  /\ sid = "A" /\ before = [nm \in Names |-> NoId]
  /\ bad = FALSE /\ touched = FALSE
  /\ edits = 0

-----------------------------------------------------------------------------
(* Preparation: MergePreparationWorker *)

\* Files of the source whose class the target lacks (pair_diff), and what is
\* on disk there without a proof: uncovered files and symbolic links.
Unproven(f) ==
  \/ /\ Covered(<<"A", First(f)>>)
     /\ ~ \E nm \in Names :
            /\ FullProof(<<"B", nm>>)
            /\ known[<<"B", nm>>].class = known[<<"A", First(f)>>].class
  \/ Exists(Src(f)) /\ (IsLink(Src(f)) \/ ~FullProof(Src(f)))

Plan ==
  /\ pc = "idle"
  /\ todo' = {First(f) : f \in {g \in Files : Unproven(g)}}
  /\ roots' = at
  /\ pc' = "digest"
  /\ UNCHANGED <<fsVars, at, fixed, mode, cancel, expected, rowVars, dirVars,
                 edits>>

\* verify_current_file with the scan's metadata, when there is any
Readable(f) ==
  /\ Exists(Src(f))
  /\ Covered(Src(f)) /\ ~IsLink(Src(f)) => known[Src(f)].id = Id(Src(f))

ProveRow(f) ==
  /\ pc = "digest" /\ ~cancel
  /\ First(f) \in todo
  /\ IF Readable(f)
     THEN /\ expected' = [expected EXCEPT ![f] = content[disk[Src(f)]]]
          /\ todo' = todo \ {First(f)}
          /\ pc' = pc
     ELSE pc' = "done" /\ UNCHANGED <<expected, todo>>
  /\ UNCHANGED <<fsVars, at, fixed, mode, cancel, roots, rowVars, dirVars,
                 edits>>

\* An empty plan goes straight to the question about the folder.
RecheckRoots ==
  /\ pc = "digest" /\ (todo = {} \/ cancel)
  /\ pc' = IF cancel \/ at # roots THEN "done"
           ELSE IF \A f \in Files : expected[f] = NoDigest THEN "ask"
           ELSE "confirm"
  /\ UNCHANGED <<fsVars, at, fixed, planVars, cancel, todo, rowVars, dirVars,
                 edits>>

\* The user chooses; a move across volumes is refused by the caller.
Confirm(m) ==
  /\ pc = "confirm"
  /\ mode' = m
  /\ todo' = {First(f) : f \in {g \in Files : expected[g] # NoDigest}}
  /\ pc' = "rows"
  /\ cancel' = FALSE
  /\ UNCHANGED <<fsVars, at, fixed, roots, expected, rowVars, dirVars, edits>>

Decline ==
  /\ pc \in {"confirm", "ask"}
  /\ pc' = "done"
  /\ UNCHANGED <<fsVars, at, fixed, planVars, cancel, todo, rowVars, dirVars,
                 edits>>

-----------------------------------------------------------------------------
(* One row of the transfer: _transfer_files *)

rowFrame == UNCHANGED <<at, fixed, planVars, cancel, dirVars, edits>>

\* The row has its outcome, the loop goes on or stops.
Ended(f, o, e) ==
  /\ outcome' = [outcome EXCEPT ![f] = o]
  /\ dest' = [dest EXCEPT ![f] = e]
  /\ temp' = Absent
  /\ row' = NoRow
  /\ pc' = "rows"

\* The clean-up, but for what it fails to unlink; nobody hears of that.
Cleaned(kept) ==
  /\ temps' = temps \ ({temp} \ kept)
  /\ refused' = refused \cup kept

\* The finally block: the temporary goes, if it can be unlinked.
Leave(f, o, e) ==
  /\ Ended(f, o, e)
  /\ \E kept \in SUBSET ({temp} \ {Absent}) : Cleaned(kept)

Go(point) == pc' = point /\ UNCHANGED <<temp, left, outcome, dest>>

Failed == Leave(row.file, "failed", NoEntry)

\* _safe_source_parent pins the source folder if it is still the proven one.
TakeRow(f) ==
  /\ pc = "rows" /\ ~cancel
  /\ First(f) \in todo
  /\ todo' = todo \ {First(f)}
  /\ IF at["source"] = roots["source"]
     THEN row' = [NoRow EXCEPT !.file = f] /\ Go("open")
     ELSE Leave(f, "failed", NoEntry)
  /\ rowFrame /\ UNCHANGED fsVars

\* verify_current_symlink reads the link at once; of a file the identity is
\* taken by path after the full read.
ReadSource ==
  /\ pc = "open"
  /\ LET e == Src(row.file) IN
     IF Readable(row.file)
     THEN /\ row' = [row EXCEPT !.link = IsLink(e), !.digest = content[disk[e]],
                                !.id = IF IsLink(e) THEN Id(e) ELSE NoId]
          /\ Go(IF IsLink(e) THEN "proved" ELSE "read")
     ELSE Failed
  /\ rowFrame /\ UNCHANGED <<fsVars, todo>>

StatSource ==
  /\ pc = "read"
  /\ IF Exists(Src(row.file))
     THEN row' = [row EXCEPT !.id = Id(Src(row.file))] /\ Go("proved")
     ELSE Failed
  /\ rowFrame /\ UNCHANGED <<fsVars, todo>>

\* Mutant: the digest of the preparation is not compared.
CheckTargetOnly ==
  /\ pc = "proved" /\ ~cancel
  /\ IF at["target"] = roots["target"] THEN Go("target") /\ UNCHANGED row
     ELSE Failed
  /\ rowFrame /\ UNCHANGED <<fsVars, todo>>

\* The digest of the preparation, then _safe_destination_parent.
CheckDigest ==
  /\ pc = "proved" /\ ~cancel
  /\ IF row.digest = expected[row.file] /\ at["target"] = roots["target"]
     THEN Go("target") /\ UNCHANGED row
     ELSE Failed
  /\ rowFrame /\ UNCHANGED <<fsVars, todo>>

\* _destination_holds_same_content: the row is skipped, its evidence kept.
SameThere ==
  /\ pc \in {"target", "taken"}
  /\ Holds(Target, row.link, row.digest)
  /\ Leave(row.file, "skipped", Target)
  /\ rowFrame /\ UNCHANGED <<fsVars, todo>>

NotThere ==
  /\ pc = "target"
  /\ ~Holds(Target, row.link, row.digest)
  /\ Go(IF mode = "copy" THEN "copy" ELSE "publish") /\ UNCHANGED row
  /\ rowFrame /\ UNCHANGED <<fsVars, todo>>

\* What a copy reads is what was proven: a link is re-read, a file opened
\* through the pinned folder.
StillProven ==
  LET e == Pinned(row.file) IN
  IF row.link THEN Holds(e, TRUE, row.digest) ELSE Regular(e) /\ Id(e) = row.id

\* The private temporary is new on disk.
NewTemp(i) ==
  /\ Create(i, IF row.link THEN row.digest ELSE Blank)
  /\ temps' = temps \cup {i}

MakeTemp ==
  /\ pc = "copy" /\ Free(row.link) # {}
  /\ StillProven
  /\ NewTemp(Fresh(row.link)) /\ temp' = Fresh(row.link)
  /\ refused' = refused \ {Fresh(row.link)}
  /\ pc' = IF row.link THEN "publish" ELSE "copying"
  /\ rowFrame /\ UNCHANGED <<disk, todo, row, outcome, dest>>

\* The source changed.  A file's temporary is made before its source is opened
\* and stays when the clean-up fails.
NotProven ==
  /\ pc = "copy" /\ ~StillProven
  /\ Ended(row.file, "failed", NoEntry)
  /\ \/ UNCHANGED <<content, stamp, left>>
     \/ /\ ~row.link /\ Free(FALSE) # {}
        /\ NewTemp(Fresh(FALSE))
        /\ refused' = refused \cup {Fresh(FALSE)}
  /\ rowFrame /\ UNCHANGED <<disk, todo>>

\* The copy loop re-hashes what it reads and compares the inode again.
CopyContent ==
  /\ pc = "copying" /\ ~cancel
  /\ IF content[row.id.ino] = row.digest /\ IdOf(row.id.ino) = row.id
     THEN /\ content' = [content EXCEPT ![temp] = row.digest]
          /\ Go("publish") /\ UNCHANGED row
     ELSE Failed /\ UNCHANGED content
  /\ rowFrame /\ UNCHANGED <<disk, stamp, todo>>

\* Mutant: the source only has to exist.
RestatByName ==
  /\ pc = "publish" /\ ~cancel
  /\ IF mode = "copy" \/ Exists(Pinned(row.file))
     THEN Go("checked") /\ UNCHANGED row
     ELSE Failed
  /\ rowFrame /\ UNCHANGED <<fsVars, todo>>

\* Before each attempt a move looks at the source once more.
Restat ==
  /\ pc = "publish" /\ ~cancel
  /\ LET e == Pinned(row.file) IN
     IF mode = "copy" \/ (Exists(e) /\ Id(e) = row.id /\ IsLink(e) = row.link)
     THEN Go("checked") /\ UNCHANGED row
     ELSE Failed
  /\ rowFrame /\ UNCHANGED <<fsVars, todo>>

\* What _publish_no_overwrite is about to publish, by name.
Published == IF mode = "copy" THEN temp ELSE disk[Pinned(row.file)]

\* Mutant: a rename that replaces.
LinkReplacing ==
  /\ pc = "checked" /\ hardLinks
  /\ Published # Absent
  /\ disk' = [disk EXCEPT ![Target] = Published]
  /\ stamp' = [stamp EXCEPT ![Published] = @ + 1]
  /\ Go("linked")
  /\ rowFrame /\ UNCHANGED <<content, todo, row>>

\* link(2): exclusive.  Without hard links an empty file reserves the name.
Link ==
  /\ pc = "checked" /\ hardLinks
  /\ Published # Absent /\ ~Exists(Target)
  /\ disk' = [disk EXCEPT ![Target] = Published]
  /\ stamp' = [stamp EXCEPT ![Published] = @ + 1]
  /\ Go("linked")
  /\ rowFrame /\ UNCHANGED <<content, todo, row>>

Reserve ==
  /\ pc = "checked" /\ ~hardLinks
  /\ ~Exists(Target) /\ Free(FALSE) # {}
  /\ disk' = [disk EXCEPT ![Target] = Fresh(FALSE)]
  /\ Create(Fresh(FALSE), Blank)
  /\ refused' = refused \ {Fresh(FALSE)}
  /\ pc' = "stub"
  /\ rowFrame /\ UNCHANGED <<todo, row, temp, temps, outcome, dest>>

NameTaken ==
  /\ pc = "checked" /\ Exists(Target)
  /\ Go("taken")
  /\ rowFrame /\ UNCHANGED <<fsVars, todo, row>>

\* unlink(2) of the source name: the move is done, or the temporary gone.
UnlinkSource ==
  /\ pc = "linked"
  /\ mode = "move" => Exists(Pinned(row.file))
  /\ disk' = IF mode = "move" THEN [disk EXCEPT ![Pinned(row.file)] = Absent]
             ELSE disk
  /\ stamp' = [stamp EXCEPT ![disk[Target]] = @ + 1]
  /\ Ended(row.file, "moved", Target) /\ Cleaned({})
  /\ rowFrame /\ UNCHANGED <<content, todo>>

\* rename(2) over the reserved name.
RenameOver ==
  /\ pc = "stub" /\ Published # Absent
  /\ LET i == Published IN
     /\ disk' = IF mode = "move"
                THEN [disk EXCEPT ![Target] = i, ![Pinned(row.file)] = Absent]
                ELSE [disk EXCEPT ![Target] = i]
     /\ stamp' = [stamp EXCEPT ![i] = @ + 1]
  /\ Ended(row.file, "moved", Target) /\ Cleaned({})
  /\ rowFrame /\ UNCHANGED <<content, todo>>

\* Mutants: the suffix is not bounded, or not raised.
NextSuffixUnbounded ==
  /\ pc = "taken" /\ ~Holds(Target, row.link, row.digest)
  /\ row' = [row EXCEPT !.n = @ + 1]
  /\ Go("publish")
  /\ rowFrame /\ UNCHANGED <<fsVars, todo>>

NextSuffixSame ==
  /\ pc = "taken" /\ ~Holds(Target, row.link, row.digest)
  /\ row.n < MaxSuffix
  /\ Go("publish")
  /\ rowFrame /\ UNCHANGED <<fsVars, todo, row>>

NextSuffix ==
  /\ pc = "taken" /\ ~Holds(Target, row.link, row.digest)
  /\ row.n < MaxSuffix
  /\ row' = [row EXCEPT !.n = @ + 1]
  /\ Go("publish")
  /\ rowFrame /\ UNCHANGED <<fsVars, todo>>

\* Mutant: the reserved name is not given back.
RowFailsKeepingName ==
  /\ pc \in RowPoints
  /\ Leave(row.file, IF cancel THEN outcome[row.file] ELSE "failed", NoEntry)
  /\ rowFrame /\ UNCHANGED <<fsVars, todo>>

\* Mutant: the source is gone when the failure is noticed.
RowFailsAfterUnlink ==
  /\ pc \in RowPoints
  /\ disk' = IF pc = "stub" THEN [disk EXCEPT ![Target] = Absent]
             ELSE IF pc = "linked" /\ mode = "move"
             THEN [disk EXCEPT ![Pinned(row.file)] = Absent]
             ELSE disk
  /\ Leave(row.file, IF cancel THEN outcome[row.file] ELSE "failed", NoEntry)
  /\ rowFrame /\ UNCHANGED <<content, stamp, todo>>

\* What a row that fails has to take back.
ToTakeBack ==
  ({temp} \cup (IF pc = "stub" THEN {disk[Target]} ELSE {})) \ {Absent}

\* A system call of the row fails, or no suffix is left.  A reserved name is
\* given back, a published link stays beside its source.
RowFails ==
  /\ pc \in RowPoints
  /\ \E kept \in SUBSET ToTakeBack :
       /\ disk' = IF pc = "stub" /\ disk[Target] \notin kept
                  THEN [disk EXCEPT ![Target] = Absent] ELSE disk
       /\ Cleaned(kept)
  /\ Ended(row.file, IF cancel THEN outcome[row.file] ELSE "failed", NoEntry)
  /\ rowFrame /\ UNCHANGED <<content, stamp, todo>>

\* The checks of cancel between the steps: the row is left as it is.
StopRow ==
  /\ cancel
  /\ pc \in {"open", "proved", "copying", "publish"}
  /\ Leave(row.file, outcome[row.file], NoEntry)
  /\ rowFrame /\ UNCHANGED <<fsVars, todo>>

\* The user's button, while a worker runs.
Cancel ==
  /\ pc \in {"digest", "rows", "prove"} \cup RowPoints
  /\ ~cancel /\ cancel' = TRUE
  /\ UNCHANGED <<fsVars, at, fixed, pc, planVars, todo, rowVars, dirVars,
                 edits>>

\* The answer of the worker: the question about the folder comes only after
\* a move that was not cancelled and had no error.
RowsDone ==
  /\ pc = "rows" /\ (todo = {} \/ cancel)
  /\ pc' = IF mode = "copy" \/ cancel \/ (\E f \in Files : outcome[f] = "failed")
           THEN "done" ELSE "ask"
  /\ UNCHANGED <<fsVars, at, fixed, planVars, cancel, todo, rowVars, dirVars,
                 edits>>

-----------------------------------------------------------------------------
(* The folder goes to the Trash as one entry: _verify_then_trash_dir *)

dirFrame == UNCHANGED <<at, fixed, planVars, rowVars, edits>>

AgreeToTrash ==
  /\ pc = "ask"
  /\ pc' = "dir" /\ cancel' = FALSE
  /\ dirFrame /\ UNCHANGED <<fsVars, todo, dirVars>>

SnapshotBefore ==
  /\ pc = "dir"
  /\ sid' = at["source"]
  /\ before' = Snapshot(at["source"])
  /\ todo' = {nm \in Names : Exists(<<at["source"], nm>>)}
  /\ bad' = FALSE /\ touched' = FALSE
  /\ pc' = "prove"
  /\ dirFrame /\ UNCHANGED <<fsVars, cancel, trashed>>

Outside(e) == e[1] # sid

\* A path leads to the entry.
Reached(e) == \E s \in Sides : e[1] = at[s]

\* _verified_survivor: the file and a copy of its class outside the folder.
HasSurvivor(e) ==
  /\ FullProof(e) /\ content[disk[e]] = known[e].class
  /\ \E o \in Entries :
       /\ Outside(o) /\ Reached(o) /\ FullProof(o) /\ known[o].class = known[e].class
       /\ Regular(o) /\ disk[o] # disk[e]
       /\ content[disk[o]] = known[e].class

\* Mutant: a hard link outside counts as a copy.
HasNamedCopyOfSameInode(e) ==
  \E f \in Files :
    LET o == <<at["target"], dest[f][2]>> IN
    /\ e[2] = First(f) /\ outcome[f] = "skipped"
    /\ Outside(o) /\ Regular(o)
    /\ content[disk[o]] = content[disk[e]]

\* _survivor_by_content: the copy a skipped row named, read again by path.
HasNamedCopy(e) ==
  \E f \in Files :
    LET o == <<at["target"], dest[f][2]>> IN
    /\ e[2] = First(f) /\ outcome[f] = "skipped"
    /\ Outside(o) /\ Regular(o) /\ disk[o] # disk[e]
    /\ content[disk[o]] = content[disk[e]]

\* A link needs no proof: the snapshot has its target.
ProveFile(nm) ==
  /\ pc = "prove" /\ ~cancel
  /\ nm \in todo
  /\ todo' = todo \ {nm}
  /\ LET e == <<at["source"], nm>> IN
     bad' = (bad \/ ~(IsLink(e)
                      \/ (Regular(e) /\ (HasSurvivor(e) \/ HasNamedCopy(e)))))
  /\ dirFrame /\ UNCHANGED <<fsVars, pc, cancel, sid, before, trashed, touched>>

SnapshotAfter ==
  /\ pc = "prove" /\ (todo = {} \/ cancel)
  /\ pc' = IF /\ ~cancel /\ ~bad /\ Snapshot(sid) = before
              /\ at["source"] = sid /\ ~touched
           THEN "send" ELSE "done"
  /\ dirFrame /\ UNCHANGED <<fsVars, cancel, todo, dirVars>>

\* to_trash compares the folder's identity, its times included, once more and
\* moves it.
Send ==
  /\ pc = "send"
  /\ pc' = "done"
  /\ IF at["source"] = sid /\ ~touched
     THEN /\ trashed' = {disk[e] : e \in {o \in Entries :
                                            o[1] = sid /\ Exists(o)}}
          /\ disk' = [e \in Entries |-> IF e[1] = sid THEN Absent ELSE disk[e]]
     ELSE UNCHANGED <<disk, trashed>>
  /\ dirFrame /\ UNCHANGED <<content, stamp, cancel, todo, sid, before, bad, touched>>

-----------------------------------------------------------------------------
(* The rest of the machine *)

MayEdit(s) == edits < MaxEdits /\ <<pc, s>> \in EditPoints
machineFrame ==
  /\ edits' = edits + 1
  /\ touched' = (touched \/ \E nm \in Names : disk'[<<sid, nm>>] # disk[<<sid, nm>>])
  /\ UNCHANGED <<fixed, pc, planVars, cancel, todo, rowVars, sid, before, bad,
                 trashed>>

\* A side names the inode, by its path or by the descriptor of its folder.
Linked(i, t) ==
  \E nm \in Names : i \in {disk[<<at[t], nm>>], disk[<<roots[t], nm>>]}

\* A change of a file is one in every folder that has a link of it.
EditInPlace(s, nm, c) ==
  /\ MayEdit(s)
  /\ LET e == <<at[s], nm>> IN
     /\ Regular(e) /\ content[disk[e]] # c
     /\ \A t \in Sides : Linked(disk[e], t) => <<pc, t>> \in EditPoints
     /\ content' = [content EXCEPT ![disk[e]] = c]
     /\ stamp' = [stamp EXCEPT ![disk[e]] = @ + 1]
  /\ UNCHANGED <<disk, at>> /\ machineFrame

\* A new file under the name, whether there was one or not.
SaveOver(s, nm, c) ==
  /\ MayEdit(s) /\ Free(FALSE) # {}
  /\ disk' = [disk EXCEPT ![<<at[s], nm>>] = Fresh(FALSE)]
  /\ Create(Fresh(FALSE), c)
  /\ machineFrame /\ UNCHANGED at

Delete(s, nm) ==
  /\ MayEdit(s) /\ Exists(<<at[s], nm>>)
  /\ disk' = [disk EXCEPT ![<<at[s], nm>>] = Absent]
  /\ machineFrame /\ UNCHANGED <<content, stamp, at>>

HardLink(s, nm, o) ==
  /\ MayEdit(s) /\ hardLinks
  /\ Regular(o) /\ ~Exists(<<at[s], nm>>)
  /\ disk' = [disk EXCEPT ![<<at[s], nm>>] = disk[o]]
  /\ stamp' = [stamp EXCEPT ![disk[o]] = @ + 1]
  /\ machineFrame /\ UNCHANGED <<content, at>>

\* The folder is renamed away and another takes its path, at any moment: the
\* descriptors leave no window for this one.
SwapFolder(s) ==
  /\ edits < MaxEdits /\ pc # "done" /\ "C" \notin {at["source"], at["target"]}
  /\ at' = [at EXCEPT ![s] = "C"]
  /\ UNCHANGED fsVars /\ machineFrame

Machine ==
  \E s \in Sides :
    \/ \E nm \in Names, c \in Contents :
         EditInPlace(s, nm, c) \/ SaveOver(s, nm, c)
    \/ \E nm \in Names : Delete(s, nm)
    \/ \E nm \in Names, o \in Entries : HardLink(s, nm, o)
    \/ SwapFolder(s)

-----------------------------------------------------------------------------
RowStep ==
  \/ \E f \in Files : TakeRow(f)
  \/ ReadSource \/ StatSource \/ CheckDigest
  \/ SameThere \/ NotThere
  \/ MakeTemp \/ NotProven \/ CopyContent
  \/ Restat \/ Link \/ Reserve \/ NameTaken \/ UnlinkSource \/ RenameOver
  \/ NextSuffix \/ RowFails \/ StopRow \/ RowsDone

WorkerStep ==
  \/ \E f \in Files : ProveRow(f)
  \/ RecheckRoots
  \/ RowStep
  \/ SnapshotBefore \/ (\E nm \in Names : ProveFile(nm)) \/ SnapshotAfter
  \/ Send

UserStep ==
  \/ Plan
  \/ \E m \in {"move", "copy"} : Confirm(m)
  \/ Decline \/ AgreeToTrash \/ Cancel

Next == WorkerStep \/ UserStep \/ Machine

Spec == Init /\ [][Next]_vars

\* A worker thread that runs goes on; the user owes no answer.
FairSpec == Spec /\ WF_vars(WorkerStep)

-----------------------------------------------------------------------------
(* Properties *)

Ours == edits' = edits

Held(c) == \E e \in Entries : Regular(e) /\ content[disk[e]] = c

\* _publish_no_overwrite and _verify_then_trash_dir: whatever content a file
\* in any of the folders had before a step of the merge, some file has after
\* it.  Neither a row nor the whole folder takes away the last copy.
ContentKept ==
  [][Ours => \A c \in Contents : Held(c) => Held(c)']_vars

\* _transfer_files, "the target is never overwritten": a step of the merge
\* puts a file only where no name was, or where its own reserved name is, in
\* the folder whose identity was proven; it takes away only the inode the row
\* proved, its own reserved name, or the whole folder it proved.
NothingForeign ==
  [][Ours =>
       \A e \in Entries :
         disk'[e] # disk[e] =>
           \/ /\ e = Target
              /\ disk[e] = Absent \/ content[disk[e]] = Blank
           \/ /\ e = Pinned(row.file) /\ disk'[e] = Absent
              /\ disk[e] = row.id.ino
           \/ e[1] = sid /\ trashed' # trashed]_vars

\* _verify_then_trash_dir: at the moment the folder goes to the Trash, every
\* file in it has an independent copy, another inode, outside the folder.
CopiesOutside ==
  [][trashed' # trashed =>
       \A e \in Entries :
         e[1] = sid /\ Regular(e) =>
           \E o \in Entries : /\ Outside(o) /\ Regular(o)
                              /\ disk[o] # disk[e]
                              /\ content[disk[o]] = content[disk[e]]]_vars

\* The finally block and the failure branch of the fallback: when no row is
\* being transferred, the only temporaries and reserved empty names on disk
\* are those whose unlink failed in the clean-up, which the program swallows.
NoLeftovers ==
  pc \notin RowPoints =>
    /\ temps \subseteq refused
    /\ \A e \in Entries :
         Exists(e) /\ content[disk[e]] = Blank => disk[e] \in refused

\* The dialog after a transfer counts on it: a row that was neither moved nor
\* skipped is still in the source unless the rest of the machine touched it.
LeftInPlace ==
  edits = 0 =>
    \A f \in Files :
      /\ expected[f] # NoDigest /\ outcome[f] \in {"none", "failed"}
      /\ trashed = {}
      => Exists(Src(f)) /\ content[disk[Src(f)]] = expected[f]

\* Every worker of a merge comes to its end: the rows, with their suffixes,
\* and the proof of the folder end in a question or an answer.
WorkersEnd ==
  pc \notin {"idle", "confirm", "ask", "done"} ~>
    pc \in {"confirm", "ask", "done"}

Has(e, c) == Exists(e) /\ content[disk[e]] = c

\* Where a proven content is: in the source folder of the plan, or elsewhere:
\* in the target folder, in one that took a path, or, a link only, in the Trash.
Where(f) ==
  {p \in {"source", "elsewhere"} :
     IF p = "source"
     THEN \E e \in Entries : e[1] = roots["source"] /\ Has(e, expected[f])
     ELSE \/ \E e \in Entries : e[1] # roots["source"] /\ Has(e, expected[f])
          \/ \E i \in trashed \cap Links : content[i] = expected[f]}

\* The merge implements the promise of Relocation.
Promise == INSTANCE Relocation WITH
  where  <- [f \in Files |-> IF expected[f] = NoDigest THEN {} ELSE Where(f)],
  report <- [f \in Files |-> IF expected[f] = NoDigest THEN "none"
                             ELSE IF outcome[f] = "none" THEN "open"
                             ELSE outcome[f]]

Relocates == Promise!Spec
=============================================================================
