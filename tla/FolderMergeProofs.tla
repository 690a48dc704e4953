-------------------------- MODULE FolderMergeProofs --------------------------
(***************************************************************************)
(* The merge of two folders, for any number of files, inodes and suffixes, *)
(* and any number of changes by the rest of the machine.  What the safety  *)
(* properties need is that none of these falls into one of Windows.        *)
(***************************************************************************)
EXTENDS FolderMerge, FiniteSums

\* The rest of the machine acts at any moment but those.
WindowsClosed == EditPoints \cap Windows = {}

-----------------------------------------------------------------------------
(* The inductive invariant *)

\* The points of a row after the source was read, and after its digest was
\* compared with the one of the preparation.
AfterRead  == RowPoints \ {"open"}
AfterCheck == AfterRead \ {"read", "proved"}

\* Where a copy has its private temporary.
Writing == {"copying", "publish", "checked", "linked", "stub", "taken"}

\* A path names the folder of the scan or the one that replaced it, and a
\* descriptor that folder or the one the path names.
Seated ==
  /\ at["source"] \in {"A", "C"} /\ at["target"] \in {"B", "C"}
  /\ at["source"] # at["target"]
  /\ roots["source"] \in {"A", at["source"]}
  /\ roots["target"] \in {"B", at["target"]}
  /\ edits = 0 => at["source"] = "A"

\* The rows that wait, and the one at work, were planned and have no outcome.
Planned ==
  /\ pc \in {"idle", "digest", "confirm"} => \A f \in Files : outcome[f] = "none"
  /\ pc = "idle" => \A f \in Files : expected[f] = NoDigest
  /\ pc = "digest" => \A f \in Files : First(f) \in todo => expected[f] = NoDigest
  /\ pc \in {"rows"} \cup RowPoints =>
       /\ mode # "none"
       /\ \A f \in Files : First(f) \in todo => /\ expected[f] # NoDigest
                                                /\ outcome[f] = "none"
  /\ pc \in RowPoints => /\ expected[row.file] # NoDigest
                         /\ outcome[row.file] = "none"
                         /\ First(row.file) \notin todo

\* What was read is a content, or that of a name nobody took back, and after the
\* comparison the planned one.
Digested ==
  /\ pc \in AfterRead => row.digest \in Contents \cup {Blank}
  /\ pc \in AfterCheck => row.digest \in Contents /\ row.digest = expected[row.file]

\* No name leads to the temporary before it is published.
TempAlone ==
  /\ temp # Absent => pc \in Writing /\ mode = "copy"
  /\ pc \in Writing /\ mode = "copy" => temp # Absent
  /\ pc \in {"copy", "copying"} => mode = "copy"
  /\ temp # Absent /\ pc # "linked" => \A e \in Entries : disk[e] # temp
  /\ mode = "copy" /\ pc \in Writing \ {"copying"} => content[temp] = row.digest

\* An empty name is the one that was reserved, or one that a clean-up after the
\* plan failed to take back.
Blanks ==
  /\ \A e \in Entries :
       Has(e, Blank) => disk[e] \in refused \/ (pc = "stub" /\ e = Target)
  /\ pc \in {"idle"} \cup PlanPoints => refused = {}
  /\ pc = "stub" => Has(Target, Blank)

\* A temporary on disk is the one of the row, or one that a clean-up kept.
Cleared == temps \subseteq refused \cup {temp}

\* The content that was read is behind the name or the path of the source.
ReadHeld ==
  pc = "read" => Has(Pinned(row.file), row.digest) \/ Has(Src(row.file), row.digest)

\* The inode that was proven has the content that was read, or a newer stamp,
\* or is not in the source folder and never comes there.
Stamped ==
  pc \in AfterRead \ {"read"} =>
    /\ row.id.ino # Absent
    /\ row.id.stamp <= stamp[row.id.ino]
    /\ \/ content[row.id.ino] = row.digest
       \/ stamp[row.id.ino] > row.id.stamp
       \/ at["source"] # roots["source"] /\ disk[Pinned(row.file)] # row.id.ino

\* A move publishes what it proved, and has two names of it for a moment.
Proven ==
  /\ mode = "move" /\ pc \in {"checked", "linked", "stub"} =>
       /\ disk[Pinned(row.file)] = row.id.ino
       /\ Has(Pinned(row.file), row.digest)
  /\ pc = "linked" => disk[Target] = Published

\* A row that was transferred or skipped names where its content is.
Named == \A f \in Files : outcome[f] \in {"moved", "skipped"} => dest[f] \in Entries

\* Nothing is in the Trash before the last step.
Untrashed == pc # "done" => trashed = {}

\* Unless its own times moved, the folder has the entries of the snapshot; the
\* stamps only rise.
Bracketed ==
  /\ pc \in {"prove", "send"} => sid \in {"A", at["source"]}
  /\ pc \in {"prove", "send"} /\ at["source"] = sid /\ ~touched =>
       \A nm \in Names : /\ before[nm].ino = Id(<<sid, nm>>).ino
                         /\ before[nm].stamp <= Id(<<sid, nm>>).stamp

Copied(e) ==
  \E o \in Entries : /\ Outside(o) /\ o[1] # roots["source"] /\ Regular(o)
                     /\ disk[o] # disk[e] /\ content[disk[o]] = content[disk[e]]

\* If the folder is as in the snapshot, what was proven has its copy.
Spared ==
  /\ pc \in {"prove", "send"} /\ at["source"] = sid /\ ~touched /\ ~bad
     /\ Snapshot(sid) = before =>
       \A nm \in Names \ todo : Regular(<<sid, nm>>) => Copied(<<sid, nm>>)
  /\ pc = "send" => todo = {} /\ ~bad /\ Snapshot(sid) = before

Inv ==
  /\ TypeOK
  /\ Seated /\ Planned /\ Digested /\ TempAlone /\ Blanks /\ Cleared
  /\ ReadHeld /\ Stamped /\ Proven
  /\ Named /\ Untrashed /\ Bracketed /\ Spared
  /\ LeftInPlace

-----------------------------------------------------------------------------
(* Names, entries and new inodes *)

USE ConstantsAssumption

\* A folder and a name make an entry, a file is known by its first name.
LEMMA EntryIn ==
  /\ \A d \in Folders, nm \in Names : <<d, nm>> \in Entries
  /\ \A e \in Entries : e[1] \in Folders /\ e[2] \in Names /\ e = <<e[1], e[2]>>
  /\ \A f \in Files : First(f) \in Names
  /\ \A f, g \in Files : First(f) = First(g) => f = g
BY DEF Entries, Names, First

\* Inodes are numbers, and no inode has the number of none.
LEMMA InodesNat == Inodes \subseteq Nat /\ Absent \notin Inodes
BY FS_CardinalityType DEF Absent

\* The sides have folders, the descriptors of both sides are of two folders.
LEMMA Places ==
  ASSUME TypeOK, Seated
  PROVE  /\ \A s \in Sides : at[s] \in Folders /\ roots[s] \in Folders
         /\ at["source"] # at["target"] /\ roots["source"] # roots["target"]
         /\ roots["source"] # at["target"] /\ roots["target"] # at["source"]
BY DEF TypeOK, Seated, Sides, Folders

\* The name a row publishes is an entry of the target folder, the name it reads
\* one of the source folder.
LEMMA RowPlaces ==
  ASSUME TypeOK, Seated
  PROVE  /\ Target \in Entries /\ Target[1] = roots["target"]
         /\ \A f \in Files : /\ Pinned(f) \in Entries /\ Pinned(f)[1] = roots["source"]
                             /\ Src(f) \in Entries /\ Src(f)[1] = at["source"]
                             /\ Pinned(f) # Target /\ Src(f) # Target
         /\ \A f, g \in Files : Pinned(f) = Pinned(g) \/ Src(f) = Src(g) => f = g
         /\ row.file \in Files
<1>1. row.file \in Files /\ row.n \in 1..MaxSuffix
  BY DEF TypeOK, Row
<1>2. <<row.file, row.n>> \in Names
  BY <1>1 DEF Names
<1>3. "source" \in Sides /\ "target" \in Sides
  BY DEF Sides
<1>4. Target \in Entries /\ Target[1] = roots["target"]
  BY <1>2, <1>3, Places, EntryIn DEF Target
<1>5. ASSUME NEW f \in Files
      PROVE  /\ Pinned(f) \in Entries /\ Pinned(f)[1] = roots["source"]
             /\ Src(f) \in Entries /\ Src(f)[1] = at["source"]
  BY <1>3, Places, EntryIn DEF Pinned, Src
<1>6. ASSUME NEW f \in Files, NEW g \in Files, Pinned(f) = Pinned(g) \/ Src(f) = Src(g)
      PROVE  f = g
  BY <1>6, EntryIn DEF Pinned, Src
<1>7. ASSUME NEW f \in Files PROVE Pinned(f) # Target /\ Src(f) # Target
  BY <1>4, <1>5, Places
<1> QED
  BY <1>1, <1>4, <1>5, <1>6, <1>7

\* A new inode is one that nothing names.
LEMMA FreshIn ==
  ASSUME TypeOK, NEW link \in BOOLEAN, Free(link) # {}
  PROVE  /\ Fresh(link) \in Inodes /\ (Fresh(link) \in Links) = link
         /\ \A e \in Entries : disk[e] # Fresh(link)
         /\ Fresh(link) \notin trashed /\ Fresh(link) # temp /\ Fresh(link) \notin temps
<1>1. Free(link) \in SUBSET Nat
  BY InodesNat DEF Free
<1>2. \E i \in Free(link) : \A j \in Free(link) : i <= j
  BY <1>1, HasLeast
<1>3. Fresh(link) \in Free(link)
  BY <1>2 DEF Fresh
<1> QED
  BY <1>3 DEF Free, InUse

\* No row has not begun.
LEMMA NoRowType ==
  /\ NoRow \in Row
  /\ \A f \in Files : [NoRow EXCEPT !.file = f] \in Row
<1>1. (CHOOSE f \in Files : TRUE) \in Files
  OBVIOUS
<1>2. NoId \in Identity /\ NoDigest \in Digests
  BY DEF NoId, Identity, Digests
<1>3. 1 \in 1..MaxSuffix
  OBVIOUS
<1> HIDE DEF NoId, NoDigest
<1>4. NoRow \in Row
  BY <1>1, <1>2, <1>3 DEF NoRow, Row
<1> QED
  BY <1>4 DEF Row

\* What is on the volume: names for inodes, contents and stamps behind them.
LEMMA Volume ==
  ASSUME TypeOK
  PROVE  /\ disk \in [Entries -> Inodes \cup {Absent}]
         /\ content \in [Inodes -> Contents \cup {Blank}]
         /\ stamp \in [Inodes -> Nat]
         /\ temp \in Inodes \cup {Absent}
         /\ temps \subseteq Inodes /\ refused \subseteq Inodes
         /\ row \in Row /\ row.digest \in Contents \cup {Blank, NoDigest} /\ row.file \in Files
         /\ row.link \in BOOLEAN /\ row.n \in 1..MaxSuffix
         /\ row.id.ino \in Inodes \cup {Absent} /\ row.id.stamp \in Nat
         /\ outcome \in [Files -> {"none", "moved", "skipped", "failed"}]
         /\ dest \in [Files -> Entries \cup {NoEntry}]
         /\ Absent \notin Inodes
         /\ Blank \notin Contents /\ NoDigest \notin Contents
BY InodesNat DEF TypeOK, Row, Digests, Identity

\* The names of a row are the same while its file, its suffix and the
\* descriptors are.
LEMMA SameNames ==
  /\ UNCHANGED roots /\ row'.file = row.file /\ row'.n = row.n => Target' = Target
  /\ UNCHANGED roots => \A f \in Files : Pinned(f)' = Pinned(f)
  /\ UNCHANGED at => \A f \in Files : Src(f)' = Src(f)
BY DEF Target, Pinned, Src

-----------------------------------------------------------------------------
(* The steps, in groups *)

Prepares ==
  \/ Plan
  \/ \E f \in Files : ProveRow(f)
  \/ RecheckRoots
  \/ \E m \in {"move", "copy"} : Confirm(m)
  \/ Decline
  \/ Cancel

Reads ==
  \/ \E f \in Files : TakeRow(f)
  \/ ReadSource
  \/ StatSource
  \/ CheckDigest
  \/ SameThere
  \/ NotThere

Copies ==
  \/ MakeTemp
  \/ NotProven
  \/ CopyContent
  \/ Restat
  \/ NameTaken
  \/ NextSuffix

Publishes ==
  \/ Link
  \/ Reserve
  \/ UnlinkSource
  \/ RenameOver

Stops ==
  \/ RowFails
  \/ StopRow
  \/ RowsDone

Trashes ==
  \/ AgreeToTrash
  \/ SnapshotBefore
  \/ \E nm \in Names : ProveFile(nm)
  \/ SnapshotAfter
  \/ Send

\* Every step is a stutter or a step of one of these groups.
LEMMA Steps ==
  ASSUME [Next]_vars
  PROVE  \/ UNCHANGED vars
         \/ Prepares \/ Reads \/ Copies \/ Publishes \/ Stops \/ Trashes \/ Machine
BY DEF Next, WorkerStep, UserStep, RowStep, Prepares, Reads, Copies, Publishes, Stops,
       Trashes

USE DEF Go, Leave, Ended, left, Failed, fsVars, planVars, rowVars, dirVars, fixed, rowFrame,
        dirFrame, machineFrame

\* The identity of an entry is one.
LEMMA IdType ==
  ASSUME TypeOK, NEW e \in Entries
  PROVE  /\ Id(e) \in Identity /\ Id(e).ino = disk[e]
         /\ Exists(e) => Id(e).stamp = stamp[disk[e]] /\ disk[e] \in Inodes
         /\ NoId \in Identity /\ NoId.ino = Absent
<1>1. NoId \in Identity /\ NoId.ino = Absent
  BY DEF NoId, Identity
<1>2. CASE disk[e] = Absent
  BY <1>1, <1>2 DEF Id, IdOf, Exists
<1>3. CASE disk[e] # Absent
  <2>1. disk[e] \in Inodes /\ stamp[disk[e]] \in Nat
    BY <1>3 DEF TypeOK
  <2> QED
    BY <1>1, <1>3, <2>1 DEF Id, IdOf, Exists, Identity
<1> QED
  BY <1>2, <1>3

\* A read of the source fails, or gives the row its digest and, of a link, the
\* identity.
LEMMA ReadEffect ==
  ASSUME TypeOK, Seated, ReadSource
  PROVE  /\ pc = "open" /\ UNCHANGED <<disk, content, stamp, at, mode, roots, expected, todo>>
         /\ \/ Failed
            \/ /\ pc' = (IF row'.link THEN "proved" ELSE "read")
               /\ UNCHANGED <<temp, outcome, dest>>
               /\ row' \in Row /\ row'.file = row.file /\ row'.n = row.n
               /\ row'.link = IsLink(Src(row.file))
               /\ row'.digest \in Contents \cup {Blank}
               /\ Has(Src(row.file), row'.digest)
               /\ row'.id = IF row'.link THEN Id(Src(row.file)) ELSE NoId
<1> DEFINE e == Src(row.file)
<1>1. pc = "open" /\ UNCHANGED <<disk, content, stamp, at, mode, roots, expected, todo>>
  BY DEF ReadSource
<1>2. CASE ~Readable(row.file)
  BY <1>1, <1>2 DEF ReadSource
<1>3. CASE Readable(row.file)
  <2>1. Exists(e)
    BY <1>3 DEF Readable
  <2>2. e \in Entries /\ row.file \in Files /\ row \in Row
    BY RowPlaces DEF TypeOK
  <2>3. disk[e] \in Inodes /\ content[disk[e]] \in Contents \cup {Blank}
    BY <2>1, <2>2 DEF TypeOK, Exists
  <2>4. row' = [row EXCEPT !.link = IsLink(e), !.digest = content[disk[e]],
                           !.id = IF IsLink(e) THEN Id(e) ELSE NoId]
        /\ pc' = (IF IsLink(e) THEN "proved" ELSE "read") /\ UNCHANGED <<temp, outcome, dest>>
    BY <1>3 DEF ReadSource
  <2> DEFINE l == IsLink(e)
             c == content[disk[e]]
             id == IF IsLink(e) THEN Id(e) ELSE NoId
  <2>5. l \in BOOLEAN /\ c \in Digests /\ id \in Identity
    BY <2>2, <2>3, IdType DEF Digests, IsLink
  <2> HIDE DEF l, c, id
  <2>6. row' = [row EXCEPT !.link = l, !.digest = c, !.id = id]
    BY <2>4 DEF l, c, id
  <2>7. row' \in Row /\ row'.file = row.file /\ row'.n = row.n
        /\ row'.link = l /\ row'.digest = c /\ row'.id = id
    BY <2>2, <2>5, <2>6 DEF Row
  <2> QED
    BY <1>1, <2>1, <2>3, <2>4, <2>7 DEF Has, l, c, id
<1> QED
  BY <1>2, <1>3

\* The identity of a file is taken by path, after the read.
LEMMA StatEffect ==
  ASSUME TypeOK, Seated, StatSource
  PROVE  /\ pc = "read" /\ UNCHANGED <<disk, content, stamp, at, mode, roots, expected, todo>>
         /\ \/ Failed
            \/ /\ pc' = "proved" /\ UNCHANGED <<temp, outcome, dest>>
               /\ Exists(Src(row.file))
               /\ row' \in Row /\ row'.file = row.file /\ row'.n = row.n
               /\ row'.link = row.link /\ row'.digest = row.digest
               /\ row'.id = Id(Src(row.file))
<1> DEFINE e == Src(row.file)
<1>1. pc = "read" /\ UNCHANGED <<disk, content, stamp, at, mode, roots, expected, todo>>
  BY DEF StatSource
<1>2. CASE ~Exists(e)
  BY <1>1, <1>2 DEF StatSource
<1>3. CASE Exists(e)
  <2>1. e \in Entries /\ row.file \in Files /\ row \in Row
    BY RowPlaces DEF TypeOK
  <2>2. Id(e) \in Identity
    BY <2>1, IdType
  <2>3. row' = [row EXCEPT !.id = Id(e)] /\ pc' = "proved" /\ UNCHANGED <<temp, outcome, dest>>
    BY <1>3 DEF StatSource
  <2> DEFINE id == Id(e)
  <2>4. row' = [row EXCEPT !.id = id] /\ id \in Identity
    BY <2>2, <2>3
  <2> HIDE DEF id
  <2>5. row' \in Row /\ row'.file = row.file /\ row'.n = row.n
        /\ row'.link = row.link /\ row'.digest = row.digest /\ row'.id = id
    BY <2>1, <2>4 DEF Row
  <2> QED
    BY <1>1, <1>3, <2>3, <2>5 DEF id
<1> QED
  BY <1>2, <1>3

\* What every change by the rest of the machine leaves alone.
MachineKeeps ==
  /\ edits' = edits + 1
  /\ UNCHANGED <<hardLinks, known, pc, mode, cancel, roots, expected, todo, row, temp,
                 temps, refused, outcome, dest, sid, before, bad, trashed>>

\* The windows: nobody acts while a row has two names or a reserved one, or while
\* the folder is sent; nobody in the source while a row relies on what it read.
LEMMA Closed ==
  ASSUME WindowsClosed, NEW s \in Sides, <<pc, s>> \in EditPoints
  PROVE  /\ pc \notin {"linked", "stub", "send"}
         /\ s = "source" => pc \notin {"read", "checked"}
         /\ s = "target" => pc # "prove"
<1>1. <<pc, s>> \notin Windows
  BY DEF WindowsClosed
<1> QED
  BY <1>1 DEF Windows, Sides

\* A change in place is of one inode, which a path names; its stamp moves.  While
\* a row relies on what it read, it is none of the source folder.
LEMMA EditEffect ==
  ASSUME TypeOK, Seated, WindowsClosed, NEW s \in Sides, NEW nm \in Names,
         NEW c \in Contents, EditInPlace(s, nm, c)
  PROVE  /\ MachineKeeps /\ UNCHANGED <<disk, at>>
         /\ pc \notin {"linked", "stub", "send"} /\ (pc = "prove" => s = "source")
         /\ \E i \in Inodes, e \in Entries :
              /\ e = <<at[s], nm>> /\ disk[e] = i /\ i \notin Links
              /\ content' = [content EXCEPT ![i] = c]
              /\ stamp' = [stamp EXCEPT ![i] = stamp[i] + 1]
              /\ pc \in {"read", "checked"} =>
                   \A f \in Files : disk[Pinned(f)] # i /\ disk[Src(f)] # i
<1> DEFINE e == <<at[s], nm>>
           i == disk[e]
<1>1. MachineKeeps /\ UNCHANGED <<disk, at>>
  BY DEF EditInPlace, MachineKeeps
<1>2. e \in Entries
  BY Places, EntryIn
<1>3. i \in Inodes /\ i \notin Links
  BY <1>2 DEF EditInPlace, Regular, Exists, IsLink, TypeOK
<1>4. content' = [content EXCEPT ![i] = c] /\ stamp' = [stamp EXCEPT ![i] = stamp[i] + 1]
  BY DEF EditInPlace
<1>5. \A t \in Sides : Linked(i, t) => <<pc, t>> \in EditPoints
  BY DEF EditInPlace
<1>6. ASSUME NEW f \in Files, disk[Pinned(f)] = i \/ disk[Src(f)] = i
      PROVE  pc \notin {"read", "checked"}
  <2>1. Linked(i, "source")
    BY <1>6, EntryIn DEF Linked, Pinned, Src
  <2> HIDE DEF i
  <2>2. "source" \in Sides
    BY DEF Sides
  <2> QED
    BY <1>5, <2>1, <2>2, Closed
<1>7. <<pc, s>> \in EditPoints
  BY DEF EditInPlace, MayEdit
<1>8. pc \notin {"linked", "stub", "send"} /\ (pc = "prove" => s = "source")
  BY <1>7, Closed DEF Sides
<1> HIDE DEF i
<1> QED
  BY <1>1, <1>2, <1>3, <1>4, <1>6, <1>8 DEF i

\* A file saved over a name is a new inode with a new stamp.
LEMMA SaveEffect ==
  ASSUME TypeOK, Seated, WindowsClosed, NEW s \in Sides, NEW nm \in Names,
         NEW c \in Contents, SaveOver(s, nm, c)
  PROVE  /\ MachineKeeps /\ UNCHANGED at
         /\ pc \notin {"linked", "stub", "send"} /\ (pc = "prove" => s = "source")
         /\ s = "source" => pc \notin {"read", "checked"}
         /\ \E i \in Inodes, e \in Entries :
              /\ e = <<at[s], nm>> /\ i \notin Links /\ i # temp /\ i \notin trashed
              /\ \A o \in Entries : disk[o] # i
              /\ disk' = [disk EXCEPT ![e] = i]
              /\ content' = [content EXCEPT ![i] = c]
              /\ stamp' = [stamp EXCEPT ![i] = stamp[i] + 1]
<1> DEFINE e == <<at[s], nm>>
           i == Fresh(FALSE)
<1>1. MachineKeeps /\ UNCHANGED at
  BY DEF SaveOver, MachineKeeps
<1>2. e \in Entries
  BY Places, EntryIn
<1>3. /\ i \in Inodes /\ i \notin Links /\ i # temp /\ i \notin trashed
      /\ \A o \in Entries : disk[o] # i
  BY FreshIn DEF SaveOver
<1>4. /\ content' = [content EXCEPT ![i] = c] /\ stamp' = [stamp EXCEPT ![i] = stamp[i] + 1]
      /\ disk' = [disk EXCEPT ![e] = i]
  BY DEF SaveOver, Create
<1>5. <<pc, s>> \in EditPoints
  BY DEF SaveOver, MayEdit
<1> HIDE DEF i
<1> QED
  BY <1>1, <1>2, <1>3, <1>4, <1>5, Closed DEF Sides

\* A name goes away.
LEMMA DeleteEffect ==
  ASSUME TypeOK, Seated, WindowsClosed, NEW s \in Sides, NEW nm \in Names, Delete(s, nm)
  PROVE  /\ MachineKeeps /\ UNCHANGED <<content, stamp, at>>
         /\ pc \notin {"linked", "stub", "send"} /\ (pc = "prove" => s = "source")
         /\ s = "source" => pc \notin {"read", "checked"}
         /\ \E e \in Entries : e = <<at[s], nm>> /\ disk[e] # Absent
                               /\ disk' = [disk EXCEPT ![e] = Absent]
<1>1. MachineKeeps /\ UNCHANGED <<content, stamp, at>>
  BY DEF Delete, MachineKeeps
<1>2. <<at[s], nm>> \in Entries
  BY Places, EntryIn
<1>3. disk' = [disk EXCEPT ![<<at[s], nm>>] = Absent] /\ disk[<<at[s], nm>>] # Absent
  BY DEF Delete, Exists
<1>4. <<pc, s>> \in EditPoints
  BY DEF Delete, MayEdit
<1> QED
  BY <1>1, <1>2, <1>3, <1>4, Closed DEF Sides

\* A file gets another name, where none was.
LEMMA HardLinkEffect ==
  ASSUME TypeOK, Seated, WindowsClosed, NEW s \in Sides, NEW nm \in Names,
         NEW o \in Entries, HardLink(s, nm, o)
  PROVE  /\ MachineKeeps /\ UNCHANGED <<content, at>>
         /\ pc \notin {"linked", "stub", "send"} /\ (pc = "prove" => s = "source")
         /\ s = "source" => pc \notin {"read", "checked"}
         /\ \E i \in Inodes, e \in Entries :
              /\ e = <<at[s], nm>> /\ disk[e] = Absent /\ disk[o] = i /\ i \notin Links
              /\ disk' = [disk EXCEPT ![e] = i]
              /\ stamp' = [stamp EXCEPT ![i] = stamp[i] + 1]
<1> DEFINE e == <<at[s], nm>>
           i == disk[o]
<1>1. MachineKeeps /\ UNCHANGED <<content, at>>
  BY DEF HardLink, MachineKeeps
<1>2. e \in Entries
  BY Places, EntryIn
<1>3. i \in Inodes /\ i \notin Links /\ disk[e] = Absent
  BY DEF HardLink, Regular, Exists, IsLink, TypeOK
<1>4. disk' = [disk EXCEPT ![e] = i] /\ stamp' = [stamp EXCEPT ![i] = stamp[i] + 1]
  BY DEF HardLink
<1>5. <<pc, s>> \in EditPoints
  BY DEF HardLink, MayEdit
<1> HIDE DEF i
<1> QED
  BY <1>1, <1>2, <1>3, <1>4, <1>5, Closed DEF Sides, i

\* Another folder takes the path of one of the scan.
LEMMA SwapEffect ==
  ASSUME Seated, NEW s \in Sides, SwapFolder(s)
  PROVE  /\ MachineKeeps /\ UNCHANGED <<disk, content, stamp>> /\ pc # "done"
         /\ at["source"] = "A" /\ at["target"] = "B"
         /\ at' = [at EXCEPT ![s] = "C"]
BY DEF SwapFolder, MachineKeeps, Seated, Sides

\* The private temporary is a new inode, which nothing names.
LEMMA TempEffect ==
  ASSUME TypeOK, MakeTemp
  PROVE  /\ pc = "copy" /\ UNCHANGED <<disk, at, mode, roots, expected, todo, trashed>>
         /\ UNCHANGED <<row, outcome, dest>>
         /\ pc' = (IF row.link THEN "publish" ELSE "copying")
         /\ \E i \in Inodes :
              /\ i # temp /\ i \notin trashed /\ \A e \in Entries : disk[e] # i
              /\ temp' = i /\ stamp' = [stamp EXCEPT ![i] = stamp[i] + 1]
              /\ content' = [content EXCEPT ![i] = IF row.link THEN row.digest
                                                   ELSE Blank]
              /\ temps' = temps \cup {i} /\ refused' = refused \ {i}
<1>1. /\ pc = "copy" /\ UNCHANGED <<disk, at, mode, roots, expected, todo, trashed>>
      /\ UNCHANGED <<row, outcome, dest>>
      /\ Free(row.link) # {}
  BY DEF MakeTemp
<1>2. row.link \in BOOLEAN
  BY DEF TypeOK, Row
<1> DEFINE i == Fresh(row.link)
<1>3. i \in Inodes /\ i # temp /\ i \notin trashed /\ \A e \in Entries : disk[e] # i
  BY <1>1, <1>2, FreshIn
<1>4. /\ pc' = (IF row.link THEN "publish" ELSE "copying")
      /\ temp' = i /\ stamp' = [stamp EXCEPT ![i] = stamp[i] + 1]
      /\ content' = [content EXCEPT ![i] = IF row.link THEN row.digest ELSE Blank]
      /\ temps' = temps \cup {i} /\ refused' = refused \ {i}
  BY DEF MakeTemp, NewTemp, Create
<1> HIDE DEF i
<1> QED
  BY <1>1, <1>3, <1>4

\* A copy whose source changed ends the row; its temporary, which nothing names,
\* is gone or kept.
LEMMA NotProvenEffect ==
  ASSUME TypeOK, NotProven
  PROVE  /\ pc = "copy" /\ UNCHANGED <<disk, at, mode, roots, expected, todo, trashed>>
         /\ Ended(row.file, "failed", NoEntry)
         /\ \/ UNCHANGED <<content, stamp, temps, refused>>
            \/ \E i \in Inodes :
                 /\ i # temp /\ i \notin trashed /\ \A e \in Entries : disk[e] # i
                 /\ stamp' = [stamp EXCEPT ![i] = stamp[i] + 1]
                 /\ content' = [content EXCEPT ![i] = Blank]
                 /\ temps' = temps \cup {i} /\ refused' = refused \cup {i}
<1>1. /\ pc = "copy" /\ UNCHANGED <<disk, at, mode, roots, expected, todo, trashed>>
      /\ Ended(row.file, "failed", NoEntry)
  BY DEF NotProven
<1>2. CASE UNCHANGED <<content, stamp, temps, refused>>
  BY <1>1, <1>2
<1>3. CASE ~UNCHANGED <<content, stamp, temps, refused>>
  <2> DEFINE i == Fresh(FALSE)
  <2>1. /\ Free(FALSE) # {} /\ ~row.link /\ NewTemp(i)
        /\ refused' = refused \cup {i}
    BY <1>3 DEF NotProven
  <2>2. i \in Inodes /\ i # temp /\ i \notin trashed /\ \A e \in Entries : disk[e] # i
    BY <2>1, FreshIn
  <2>3. /\ stamp' = [stamp EXCEPT ![i] = stamp[i] + 1]
        /\ content' = [content EXCEPT ![i] = Blank]
        /\ temps' = temps \cup {i}
    BY <2>1 DEF NewTemp, Create
  <2> HIDE DEF i
  <2> QED
    BY <1>1, <2>1, <2>2, <2>3
<1> QED
  BY <1>2, <1>3

\* The name is reserved by a new empty file.
LEMMA ReserveEffect ==
  ASSUME TypeOK, Seated, Reserve
  PROVE  /\ pc = "checked" /\ pc' = "stub"
         /\ UNCHANGED <<at, mode, roots, expected, todo, trashed, row, temp,
                        temps, outcome, dest>>
         /\ \E i \in Inodes :
              /\ i # temp /\ i \notin trashed /\ \A e \in Entries : disk[e] # i
              /\ disk[Target] = Absent
              /\ disk' = [disk EXCEPT ![Target] = i]
              /\ stamp' = [stamp EXCEPT ![i] = stamp[i] + 1]
              /\ content' = [content EXCEPT ![i] = Blank]
              /\ refused' = refused \ {i} /\ i \notin temps
<1> DEFINE i == Fresh(FALSE)
<1>1. i \in Inodes /\ i # temp /\ i \notin temps /\ i \notin trashed /\ \A e \in Entries : disk[e] # i
  BY FreshIn DEF Reserve
<1>2. /\ disk[Target] = Absent /\ disk' = [disk EXCEPT ![Target] = i]
      /\ content' = [content EXCEPT ![i] = Blank]
      /\ stamp' = [stamp EXCEPT ![i] = stamp[i] + 1]
      /\ refused' = refused \ {i}
  BY DEF Reserve, Create, Exists
<1>3. /\ pc = "checked" /\ pc' = "stub"
      /\ UNCHANGED <<at, mode, roots, expected, todo, trashed, row, temp, temps,
                     outcome, dest>>
  BY DEF Reserve
<1> HIDE DEF i
<1> QED
  BY <1>1, <1>2, <1>3

\* A hard link gives what is published its new name, if nobody has it.
LEMMA LinkEffect ==
  ASSUME TypeOK, Seated, Link
  PROVE  /\ pc = "checked" /\ pc' = "linked"
         /\ UNCHANGED <<content, at, mode, roots, expected, todo, trashed, row, temp,
                        temps, refused, outcome, dest>>
         /\ Published \in Inodes /\ disk[Target] = Absent
         /\ disk' = [disk EXCEPT ![Target] = Published]
         /\ stamp' = [stamp EXCEPT ![Published] = stamp[Published] + 1]
<1>1. Published \in Inodes
  BY RowPlaces DEF Link, Published, TypeOK
<1> QED
  BY <1>1 DEF Link, Exists

\* Names for the temporary and the inode a name is renamed to.
LEMMA RenameEffect ==
  ASSUME TypeOK, Seated, RenameOver
  PROVE  /\ pc = "stub" /\ pc' = "rows" /\ Published \in Inodes
         /\ UNCHANGED <<content, at, mode, roots, expected, todo, trashed>>
         /\ disk' = [e \in Entries |->
                       IF e = Target THEN Published
                       ELSE IF mode = "move" /\ e = Pinned(row.file) THEN Absent
                       ELSE disk[e]]
         /\ stamp' = [stamp EXCEPT ![Published] = stamp[Published] + 1]
         /\ temp' = Absent /\ row' = NoRow
         /\ temps' = temps \ {temp} /\ refused' = refused
         /\ outcome' = [outcome EXCEPT ![row.file] = "moved"]
         /\ dest' = [dest EXCEPT ![row.file] = Target]
<1>1. Published \in Inodes
  BY RowPlaces DEF RenameOver, Published, TypeOK
<1>2. Target \in Entries /\ Pinned(row.file) \in Entries /\ Pinned(row.file) # Target
  BY RowPlaces
<1>3. disk \in [Entries -> Inodes \cup {Absent}]
  BY DEF TypeOK
<1>4. disk' = IF mode = "move"
              THEN [disk EXCEPT ![Target] = Published, ![Pinned(row.file)] = Absent]
              ELSE [disk EXCEPT ![Target] = Published]
  BY DEF RenameOver
<1>5. disk' = [e \in Entries |->
                 IF e = Target THEN Published
                 ELSE IF mode = "move" /\ e = Pinned(row.file) THEN Absent
                 ELSE disk[e]]
  <2> DEFINE T == Target
             P == Pinned(row.file)
             i == Published
  <2>1. T # P /\ T \in Entries /\ P \in Entries
    BY <1>2
  <2>2. disk' = IF mode = "move" THEN [disk EXCEPT ![T] = i, ![P] = Absent]
                ELSE [disk EXCEPT ![T] = i]
    BY <1>4
  <2> HIDE DEF T, P, i
  <2>3. disk' = [e \in Entries |-> IF e = T THEN i
                                   ELSE IF mode = "move" /\ e = P THEN Absent
                                   ELSE disk[e]]
    BY <1>3, <2>1, <2>2
  <2> QED
    BY <2>3 DEF T, P, i
<1> QED
  BY <1>1, <1>5 DEF RenameOver, Cleaned

\* What a row is about to publish has the content that was planned.
LEMMA PublishedIs ==
  ASSUME TypeOK, Seated, Planned, Digested, TempAlone, Proven,
         pc \in {"checked", "linked", "stub"}
  PROVE  /\ content[Published] = row.digest /\ Published \in Inodes
         /\ row.digest \in Contents /\ row.digest = expected[row.file]
         /\ mode \in {"move", "copy"}
         /\ mode = "move" => Published = disk[Pinned(row.file)] /\ Published = row.id.ino
         /\ mode = "copy" => Published = temp /\ temp # Absent
<1>1. pc \in AfterCheck /\ pc \in AfterRead /\ pc \in RowPoints /\ pc \in Writing \ {"copying"}
  BY DEF AfterCheck, AfterRead, RowPoints, Writing
<1>2. mode \in {"move", "copy"}
  BY <1>1 DEF Planned, TypeOK
<1>3. Pinned(row.file) \in Entries
  BY RowPlaces
<1>4. row.digest \in Contents /\ row.digest = expected[row.file]
  BY <1>1 DEF Digested
<1>5. CASE mode = "move"
  <2>1. disk[Pinned(row.file)] = row.id.ino /\ Has(Pinned(row.file), row.digest)
    BY <1>5 DEF Proven
  <2>2. Published = disk[Pinned(row.file)]
    BY <1>5 DEF Published
  <2> QED
    BY <1>3, <1>4, <1>5, <2>1, <2>2, Volume DEF Has, Exists
<1>6. CASE mode = "copy"
  <2>1. Published = temp
    BY <1>6 DEF Published
  <2>2. temp # Absent /\ content[temp] = row.digest
    BY <1>1, <1>6 DEF TempAlone
  <2> QED
    BY <1>4, <1>6, <2>1, <2>2, Volume
<1> QED
  BY <1>2, <1>5, <1>6

\* What a change by the rest of the machine leaves alone, and when none happens.
LEMMA MachineStep ==
  ASSUME WindowsClosed, TypeOK, Seated, Machine
  PROVE  MachineKeeps /\ (pc \in {"linked", "stub", "send"} => UNCHANGED <<disk, content, stamp>>)
<1>1. ASSUME NEW s \in Sides, NEW nm \in Names, NEW c \in Contents,
             EditInPlace(s, nm, c) \/ SaveOver(s, nm, c)
      PROVE  MachineKeeps /\ pc \notin {"linked", "stub", "send"}
  BY <1>1, EditEffect, SaveEffect
<1>2. ASSUME NEW s \in Sides, NEW nm \in Names, Delete(s, nm)
      PROVE  MachineKeeps /\ pc \notin {"linked", "stub", "send"}
  BY <1>2, DeleteEffect
<1>3. ASSUME NEW s \in Sides, NEW nm \in Names, NEW o \in Entries, HardLink(s, nm, o)
      PROVE  MachineKeeps /\ pc \notin {"linked", "stub", "send"}
  BY <1>3, HardLinkEffect
<1>4. ASSUME NEW s \in Sides, SwapFolder(s)
      PROVE  MachineKeeps /\ UNCHANGED <<disk, content, stamp>>
  BY <1>4, SwapEffect
<1> QED
  BY <1>1, <1>2, <1>3, <1>4 DEF Machine

\* While a row relies on what it read, nothing in the source folder changes under
\* its names, by the path or by the descriptor.
LEMMA SourceStill ==
  ASSUME WindowsClosed, TypeOK, Seated, Machine, pc \in {"read", "checked"},
         NEW f \in Files
  PROVE  /\ MachineKeeps
         /\ disk'[Pinned(f)] = disk[Pinned(f)] /\ disk'[Src(f)] = disk[Src(f)]
         /\ disk[Pinned(f)] # Absent => content'[disk[Pinned(f)]] = content[disk[Pinned(f)]]
         /\ disk[Src(f)] # Absent => content'[disk[Src(f)]] = content[disk[Src(f)]]
         /\ Pinned(f)' = Pinned(f)
         /\ Src(f)' = Src(f) \/ Src(f) = Pinned(f)
<1> DEFINE Still == /\ disk'[Pinned(f)] = disk[Pinned(f)] /\ disk'[Src(f)] = disk[Src(f)]
                    /\ disk[Pinned(f)] # Absent =>
                         content'[disk[Pinned(f)]] = content[disk[Pinned(f)]]
                    /\ disk[Src(f)] # Absent =>
                         content'[disk[Src(f)]] = content[disk[Src(f)]]
<1>1. /\ Pinned(f) \in Entries /\ Pinned(f)[1] = roots["source"]
      /\ Src(f) \in Entries /\ Src(f)[1] = at["source"]
      /\ roots["source"] # at["target"] /\ at["source"] # at["target"]
  BY RowPlaces, Places
<1>2. ASSUME NEW s \in Sides, NEW nm \in Names, NEW c \in Contents, EditInPlace(s, nm, c)
      PROVE  MachineKeeps /\ UNCHANGED at /\ Still
  BY <1>1, <1>2, EditEffect, Volume
<1>3. ASSUME NEW s \in Sides, NEW nm \in Names, NEW c \in Contents, SaveOver(s, nm, c)
      PROVE  MachineKeeps /\ UNCHANGED at /\ Still
  <2>1. s = "target"
    BY <1>3, SaveEffect DEF Sides
  <2>2. PICK i \in Inodes, e \in Entries :
          /\ e = <<at[s], nm>> /\ \A o \in Entries : disk[o] # i
          /\ disk' = [disk EXCEPT ![e] = i] /\ content' = [content EXCEPT ![i] = c]
    BY <1>3, SaveEffect
  <2>3. e # Pinned(f) /\ e # Src(f)
    BY <1>1, <2>1, <2>2
  <2>4. MachineKeeps /\ UNCHANGED at
    BY <1>3, SaveEffect
  <2> QED
    BY <1>1, <2>2, <2>3, <2>4, Volume
<1>4. ASSUME NEW s \in Sides, NEW nm \in Names, Delete(s, nm)
      PROVE  MachineKeeps /\ UNCHANGED at /\ Still
  <2>1. s = "target"
    BY <1>4, DeleteEffect DEF Sides
  <2>2. PICK e \in Entries : e = <<at[s], nm>> /\ disk' = [disk EXCEPT ![e] = Absent]
    BY <1>4, DeleteEffect
  <2>3. e # Pinned(f) /\ e # Src(f)
    BY <1>1, <2>1, <2>2
  <2>4. MachineKeeps /\ UNCHANGED <<at, content>>
    BY <1>4, DeleteEffect
  <2> QED
    BY <1>1, <2>2, <2>3, <2>4, Volume
<1>5. ASSUME NEW s \in Sides, NEW nm \in Names, NEW o \in Entries, HardLink(s, nm, o)
      PROVE  MachineKeeps /\ UNCHANGED at /\ Still
  <2>1. s = "target"
    BY <1>5, HardLinkEffect DEF Sides
  <2>2. PICK i \in Inodes, e \in Entries :
          e = <<at[s], nm>> /\ disk' = [disk EXCEPT ![e] = i]
    BY <1>5, HardLinkEffect
  <2>3. e # Pinned(f) /\ e # Src(f)
    BY <1>1, <2>1, <2>2
  <2>4. MachineKeeps /\ UNCHANGED <<at, content>>
    BY <1>5, HardLinkEffect
  <2> QED
    BY <1>1, <2>2, <2>3, <2>4, Volume
<1>6. ASSUME NEW s \in Sides, SwapFolder(s)
      PROVE  MachineKeeps /\ Still /\ Src(f) = Pinned(f)
  <2>1. MachineKeeps /\ UNCHANGED <<disk, content>> /\ at["source"] = "A"
    BY <1>6, SwapEffect
  <2> QED
    BY <2>1 DEF Seated, Src, Pinned
<1> HIDE DEF Still
<1>7. MachineKeeps /\ Still /\ (UNCHANGED at \/ Src(f) = Pinned(f))
  BY <1>2, <1>3, <1>4, <1>5, <1>6 DEF Machine
<1>8. Pinned(f)' = Pinned(f) /\ (Src(f)' = Src(f) \/ Src(f) = Pinned(f))
  BY <1>7, SameNames DEF MachineKeeps
<1> QED
  BY <1>7, <1>8 DEF Still

\* The inode that was proven changes only with its stamp, and comes to the name of
\* the source only with a newer one.
ProvenKept ==
  /\ stamp'[row.id.ino] \in Nat /\ stamp'[row.id.ino] >= stamp[row.id.ino]
  /\ \/ stamp'[row.id.ino] > stamp[row.id.ino]
     \/ /\ content'[row.id.ino] \in {content[row.id.ino], row.digest}
        /\ disk[Pinned(row.file)] # row.id.ino => disk'[Pinned(row.file)] # row.id.ino

\* Then what was proven stays so.
LEMMA StampKept ==
  ASSUME TypeOK, Seated, Stamped, pc \in AfterRead \ {"read"}, UNCHANGED <<at, roots>>,
         row'.file = row.file, row'.id = row.id, row'.digest = row.digest,
         ProvenKept
  PROVE  Stamped'
<1>1. Pinned(row.file)' = Pinned(row.file)
  BY Volume, SameNames
<1>2. row.id.ino \in Inodes /\ stamp[row.id.ino] \in Nat /\ row.id.stamp \in Nat
      /\ row.id.stamp <= stamp[row.id.ino]
  BY Volume DEF Stamped
<1> QED
  BY <1>1, <1>2 DEF Stamped, ProvenKept

\* An entry is the same while the volume is.
LEMMA SameIds ==
  ASSUME UNCHANGED <<disk, stamp, sid>>
  PROVE  /\ \A d, nm : Id(<<d, nm>>)' = Id(<<d, nm>>)
         /\ \A nm : Id(<<sid, nm>>)' = Id(<<sid, nm>>)
         /\ Snapshot(sid)' = Snapshot(sid)
<1>1. ASSUME NEW e PROVE Id(e)' = Id(e)
  BY <1>1 DEF Id, IdOf
<1> QED
  BY <1>1 DEF Snapshot

\* A path of the source moves away from the folder of the scan, and stays.
LEMMA MachineAt ==
  ASSUME TypeOK, Seated, Machine
  PROVE  at'["source"] = at["source"] \/ (at["source"] = "A" /\ at'["source"] = "C")
<1>1. ASSUME NEW s \in Sides, SwapFolder(s)
      PROVE  at'["source"] = at["source"] \/ (at["source"] = "A" /\ at'["source"] = "C")
  <2>1. at["source"] = "A" /\ at' = [at EXCEPT ![s] = "C"] /\ at \in [Sides -> Folders]
    BY <1>1, SwapEffect DEF TypeOK
  <2> QED
    BY <2>1 DEF Sides
<1>2. CASE at' = at
  BY <1>2
<1> QED
  <2>1. PICK s \in Sides : at' = at \/ SwapFolder(s)
    BY ZenonT(60) DEF Machine, EditInPlace, SaveOver, Delete, HardLink
  <2> QED
    BY <1>1, <1>2, <2>1

\* Each change of the rest of the machine is counted, and none is of the merge.
LEMMA MachineCounts ==
  ASSUME Machine
  PROVE  machineFrame
<1>1. PICK s \in Sides :
        \/ \E nm \in Names, c \in Contents : EditInPlace(s, nm, c) \/ SaveOver(s, nm, c)
        \/ \E nm \in Names : Delete(s, nm)
        \/ \E nm \in Names, o \in Entries : HardLink(s, nm, o)
        \/ SwapFolder(s)
  BY DEF Machine
<1>2. ASSUME NEW nm \in Names, NEW c \in Contents, EditInPlace(s, nm, c) PROVE machineFrame
  BY <1>2 DEF EditInPlace
<1>3. ASSUME NEW nm \in Names, NEW c \in Contents, SaveOver(s, nm, c) PROVE machineFrame
  BY <1>3 DEF SaveOver
<1>4. ASSUME NEW nm \in Names, Delete(s, nm) PROVE machineFrame
  BY <1>4 DEF Delete
<1>5. ASSUME NEW nm \in Names, NEW o \in Entries, HardLink(s, nm, o) PROVE machineFrame
  BY <1>5 DEF HardLink
<1>6. CASE SwapFolder(s)
  BY <1>6 DEF SwapFolder
<1> QED
  BY <1>1, <1>2, <1>3, <1>4, <1>5, <1>6

\* The times of the folder move with its entries.
LEMMA MachineTouch ==
  ASSUME Machine, ~touched'
  PROVE  ~touched /\ \A nm \in Names : disk'[<<sid, nm>>] = disk[<<sid, nm>>]
<1>1. touched' = (touched \/ \E nm \in Names : disk'[<<sid, nm>>] # disk[<<sid, nm>>])
  BY MachineCounts DEF machineFrame
<1> QED
  BY <1>1

\* Stamps only rise.
LEMMA MachineIds ==
  ASSUME WindowsClosed, TypeOK, Seated, Machine
  PROVE  /\ \A i \in Inodes : stamp'[i] \in Nat /\ stamp'[i] >= stamp[i]
         /\ disk' \in [Entries -> Inodes \cup {Absent}]
         /\ \A e \in Entries : disk'[e] = disk[e] =>
              /\ Id(e)'.ino = Id(e).ino
              /\ Id(e)'.stamp >= Id(e).stamp /\ Id(e)'.stamp \in Nat
<1> DEFINE Rise == /\ \A i \in Inodes : stamp'[i] \in Nat /\ stamp'[i] >= stamp[i]
                   /\ disk' \in [Entries -> Inodes \cup {Absent}]
<1>1. ASSUME NEW s \in Sides, NEW nm \in Names, NEW c \in Contents, EditInPlace(s, nm, c)
      PROVE  Rise
  BY <1>1, EditEffect, Volume
<1>2. ASSUME NEW s \in Sides, NEW nm \in Names, NEW c \in Contents, SaveOver(s, nm, c)
      PROVE  Rise
  <2>1. PICK i \in Inodes, e \in Entries :
          /\ disk' = [disk EXCEPT ![e] = i] /\ stamp' = [stamp EXCEPT ![i] = stamp[i] + 1]
    BY <1>2, SaveEffect
  <2> QED
    BY <2>1, Volume
<1>3. ASSUME NEW s \in Sides, NEW nm \in Names, Delete(s, nm)
      PROVE  Rise
  BY <1>3, DeleteEffect, Volume
<1>4. ASSUME NEW s \in Sides, NEW nm \in Names, NEW o \in Entries, HardLink(s, nm, o)
      PROVE  Rise
  <2>1. PICK i \in Inodes, e \in Entries :
          /\ disk' = [disk EXCEPT ![e] = i] /\ stamp' = [stamp EXCEPT ![i] = stamp[i] + 1]
    BY <1>4, HardLinkEffect
  <2> QED
    BY <2>1, Volume
<1>5. ASSUME NEW s \in Sides, SwapFolder(s) PROVE Rise
  BY <1>5, SwapEffect, Volume
<1> HIDE DEF Rise
<1>6. Rise
  BY <1>1, <1>2, <1>3, <1>4, <1>5 DEF Machine
<1>7. ASSUME NEW e \in Entries, disk'[e] = disk[e]
      PROVE  /\ Id(e)'.ino = Id(e).ino
             /\ Id(e)'.stamp >= Id(e).stamp /\ Id(e)'.stamp \in Nat
  <2>1. CASE disk[e] = Absent
    BY <1>7, <2>1 DEF Id, IdOf, NoId
  <2>2. CASE disk[e] # Absent
    <3>1. disk[e] \in Inodes
      BY <2>2, Volume
    <3> QED
      BY <1>6, <1>7, <2>2, <3>1 DEF Id, IdOf, Rise
  <2> QED
    BY <2>1, <2>2
<1> QED
  BY <1>6, <1>7 DEF Rise

\* While the folder is proven, a change by the rest of the machine takes the path
\* from it, moves its times, or raises a stamp in it; or it is a swap of the target.
LEMMA MachineSeen ==
  ASSUME WindowsClosed, TypeOK, Seated, Bracketed, Machine, pc = "prove",
         at'["source"] = sid, ~touched', Snapshot(sid)' = before
  PROVE  at["source"] = sid /\ ~touched /\ UNCHANGED <<disk, content, stamp>>
<1>1. at["source"] = sid
  <2>1. sid \in {"A", at["source"]}
    BY DEF Bracketed
  <2> QED
    BY <2>1, MachineAt
<1>2. ~touched /\ \A nm \in Names : disk'[<<sid, nm>>] = disk[<<sid, nm>>]
  BY MachineTouch
<1>3. \A nm \in Names : <<sid, nm>> \in Entries
  BY <1>1, Places, EntryIn DEF Sides
<1>4. ASSUME NEW s \in Sides, NEW nm \in Names, NEW c \in Contents, EditInPlace(s, nm, c)
      PROVE  FALSE
  <2>1. s = "source" /\ sid' = sid
    BY <1>4, EditEffect DEF MachineKeeps
  <2>2. PICK i \in Inodes : /\ disk[<<sid, nm>>] = i /\ UNCHANGED disk
                            /\ stamp' = [stamp EXCEPT ![i] = stamp[i] + 1]
    BY <1>1, <1>4, <2>1, EditEffect
  <2>3. before[nm] = Id(<<sid, nm>>)'
    BY DEF Snapshot
  <2>4. before[nm].stamp <= Id(<<sid, nm>>).stamp
    BY <1>1, <1>2 DEF Bracketed
  <2>5. Id(<<sid, nm>>).stamp = stamp[i] /\ i # Absent
    BY <1>3, <2>2, IdType, Volume DEF Exists
  <2>6. Id(<<sid, nm>>)'.stamp = stamp[i] + 1
    BY <2>1, <2>2, <2>5, Volume DEF Id, IdOf
  <2> QED
    BY <2>3, <2>4, <2>5, <2>6, Volume
<1>5. ASSUME NEW s \in Sides, NEW nm \in Names, NEW c \in Contents, SaveOver(s, nm, c)
      PROVE  FALSE
  <2>1. s = "source"
    BY <1>5, SaveEffect
  <2>2. PICK i \in Inodes : /\ \A o \in Entries : disk[o] # i
                            /\ disk' = [disk EXCEPT ![<<sid, nm>>] = i]
    BY <1>1, <1>5, <2>1, SaveEffect
  <2> QED
    BY <1>2, <1>3, <2>2, Volume
<1>6. ASSUME NEW s \in Sides, NEW nm \in Names, Delete(s, nm)
      PROVE  FALSE
  <2>1. s = "source"
    BY <1>6, DeleteEffect
  <2>2. disk[<<sid, nm>>] # Absent /\ disk' = [disk EXCEPT ![<<sid, nm>>] = Absent]
    BY <1>1, <1>6, <2>1, DeleteEffect
  <2> QED
    BY <1>2, <1>3, <2>2, Volume
<1>7. ASSUME NEW s \in Sides, NEW nm \in Names, NEW o \in Entries, HardLink(s, nm, o)
      PROVE  FALSE
  <2>1. s = "source"
    BY <1>7, HardLinkEffect
  <2>2. PICK i \in Inodes : /\ disk[<<sid, nm>>] = Absent
                            /\ disk' = [disk EXCEPT ![<<sid, nm>>] = i]
    BY <1>1, <1>7, <2>1, HardLinkEffect
  <2> QED
    BY <1>2, <1>3, <2>2, Volume
<1>8. ASSUME NEW s \in Sides, SwapFolder(s)
      PROVE  UNCHANGED <<disk, content, stamp>>
  BY <1>8, SwapEffect
<1> QED
  BY <1>1, <1>2, <1>4, <1>5, <1>6, <1>7, <1>8 DEF Machine

\* A file that was proven has a copy of another inode outside the folder.
LEMMA ProvenIsCopied ==
  ASSUME TypeOK, Seated, Named, pc = "prove", at["source"] = sid, NEW nm \in Names,
         ProveFile(nm), ~bad', Regular(<<sid, nm>>)
  PROVE  Copied(<<sid, nm>>)
<1> DEFINE e == <<sid, nm>>
<1>1. HasSurvivor(e) \/ HasNamedCopy(e)
  BY DEF ProveFile, Regular
<1>2. at["target"] # roots["source"] /\ at["target"] \in Folders
  BY Places DEF Sides
<1>3. CASE HasSurvivor(e)
  <2>1. PICK o \in Entries :
          /\ Outside(o) /\ Reached(o) /\ Regular(o) /\ disk[o] # disk[e]
          /\ content[disk[o]] = content[disk[e]]
    BY <1>3 DEF HasSurvivor
  <2>2. o[1] = at["target"]
    BY <2>1 DEF Outside, Reached, Sides
  <2> QED
    BY <1>2, <2>1, <2>2 DEF Copied
<1>4. CASE HasNamedCopy(e)
  <2>1. PICK f \in Files :
          /\ outcome[f] = "skipped"
          /\ Outside(<<at["target"], dest[f][2]>>) /\ Regular(<<at["target"], dest[f][2]>>)
          /\ disk[<<at["target"], dest[f][2]>>] # disk[e]
          /\ content[disk[<<at["target"], dest[f][2]>>]] = content[disk[e]]
    BY <1>4 DEF HasNamedCopy
  <2>2. dest[f] \in Entries
    BY <2>1 DEF Named
  <2>3. <<at["target"], dest[f][2]>> \in Entries
    BY <1>2, <2>2, EntryIn
  <2> QED
    BY <1>2, <2>1, <2>3 DEF Copied
<1> QED
  BY <1>1, <1>3, <1>4

\* The proofs stay while the volume and the folder do.
LEMMA SameCopies ==
  ASSUME UNCHANGED <<disk, content, sid, roots>>
  PROVE  \A nm : /\ Copied(<<sid, nm>>)' = Copied(<<sid, nm>>)
                 /\ Regular(<<sid, nm>>)' = Regular(<<sid, nm>>)
BY DEF Copied, Outside, Regular, Exists, IsLink

\* The names that hold something have other inodes than the temporary and the new
\* ones, so a step of the merge changes nothing that is behind a name.
LEMMA BehindNames ==
  ASSUME TypeOK, Seated, TempAlone, MakeTemp \/ NotProven \/ CopyContent \/ Reserve,
         NEW e \in Entries, disk[e] # Absent
  PROVE  content'[disk[e]] = content[disk[e]]
<1>1. disk[e] \in Inodes
  BY Volume
<1>2. CASE MakeTemp
  BY <1>1, <1>2, TempEffect, Volume
<1>3. CASE CopyContent
  <2>1. pc = "copying"
    BY <1>3 DEF CopyContent
  <2>2. disk[e] # temp
    BY <2>1, <1>1, Volume DEF TempAlone, Writing
  <2> QED
    BY <1>1, <1>3, <2>2, Volume DEF CopyContent
<1>4. CASE Reserve
  BY <1>1, <1>4, ReserveEffect, Volume
<1>5. CASE NotProven
  BY <1>1, <1>5, NotProvenEffect, Volume
<1> QED
  BY <1>2, <1>3, <1>4, <1>5

\* As long as nobody else acts, the path of the source is the folder of the scan.
LEMMA Undisturbed ==
  ASSUME TypeOK, Seated, edits = 0
  PROVE  at["source"] = roots["source"] /\ \A f \in Files : Src(f) = Pinned(f)
BY DEF Seated, Src, Pinned

\* The type invariant in parts: the volume, the plan and the control, what clean-ups
\* left, a row, and the proof of the folder.
TypeVolume ==
  /\ disk \in [Entries -> Inodes \cup {Absent}]
  /\ content \in [Inodes -> Contents \cup {Blank}]
  /\ stamp \in [Inodes -> Nat]

TypeControl ==
  /\ at \in [Sides -> Folders] /\ roots \in [Sides -> Folders]
  /\ hardLinks \in BOOLEAN /\ cancel \in BOOLEAN
  /\ known \in [Entries -> [id : Identity, class : Contents \cup {Unique}]]
  /\ pc \in Points /\ mode \in {"none", "move", "copy"}
  /\ expected \in [Files -> Contents \cup {NoDigest}]

TypeLeft == temps \subseteq Inodes /\ refused \subseteq Inodes

TypeRow ==
  /\ todo \subseteq Names /\ row \in Row /\ temp \in Inodes \cup {Absent}
  /\ outcome \in [Files -> {"none", "moved", "skipped", "failed"}]
  /\ dest \in [Files -> Entries \cup {NoEntry}]

TypeDir ==
  /\ sid \in Folders /\ before \in [Names -> Identity] /\ bad \in BOOLEAN
  /\ trashed \subseteq Inodes /\ touched \in BOOLEAN /\ edits \in 0..MaxEdits

\* The parts make the whole.
LEMMA TypeParts ==
  TypeOK <=> TypeVolume /\ TypeControl /\ TypeLeft /\ TypeRow /\ TypeDir
BY DEF TypeOK, TypeVolume, TypeControl, TypeLeft, TypeRow, TypeDir

\* The types of a row.
LEMMA RowTypes ==
  ASSUME TypeOK
  PROVE  /\ todo \subseteq Names /\ row \in Row /\ temp \in Inodes \cup {Absent}
         /\ outcome \in [Files -> {"none", "moved", "skipped", "failed"}]
         /\ dest \in [Files -> Entries \cup {NoEntry}]
         /\ row.file \in Files
BY Volume, TypeParts DEF TypeRow

\* The types of the proof of a folder.
LEMMA DirTypes ==
  ASSUME TypeOK
  PROVE  /\ sid \in Folders /\ before \in [Names -> Identity] /\ bad \in BOOLEAN
         /\ trashed \subseteq Inodes /\ touched \in BOOLEAN /\ edits \in Nat
         /\ edits <= MaxEdits /\ MaxEdits \in Nat
BY TypeParts DEF TypeDir

\* Only a swap of a folder moves a path, and only once.
LEMMA StepSeated ==
  ASSUME TypeOK, Seated, Planned, [Next]_vars
  PROVE  Seated'
<1> USE DEF TypeOK, Seated, Sides, Folders
<1>1. ASSUME Prepares PROVE Seated'
  <2>1. ASSUME Plan PROVE Seated'
    BY <2>1 DEF Plan
  <2>2. ASSUME NEW f \in Files, ProveRow(f) PROVE Seated'
    BY <2>2 DEF ProveRow
  <2>3. ASSUME RecheckRoots PROVE Seated'
    BY <2>3 DEF RecheckRoots
  <2>4. ASSUME NEW m \in {"move", "copy"}, Confirm(m) PROVE Seated'
    BY <2>4 DEF Confirm
  <2>5. ASSUME Decline PROVE Seated'
    BY <2>5 DEF Decline
  <2>6. ASSUME Cancel PROVE Seated'
    BY <2>6 DEF Cancel
  <2> QED
    BY <1>1, <2>1, <2>2, <2>3, <2>4, <2>5, <2>6 DEF Prepares
<1>2. ASSUME Reads PROVE Seated'
  <2>1. ASSUME NEW f \in Files, TakeRow(f) PROVE Seated'
    BY <2>1 DEF TakeRow
  <2>2. ASSUME ReadSource PROVE Seated'
    BY <2>2 DEF ReadSource
  <2>3. ASSUME StatSource PROVE Seated'
    BY <2>3 DEF StatSource
  <2>4. ASSUME CheckDigest PROVE Seated'
    BY <2>4 DEF CheckDigest
  <2>5. ASSUME SameThere PROVE Seated'
    BY <2>5 DEF SameThere
  <2>6. ASSUME NotThere PROVE Seated'
    BY <2>6 DEF NotThere
  <2> QED
    BY <1>2, <2>1, <2>2, <2>3, <2>4, <2>5, <2>6 DEF Reads
<1>3. ASSUME Copies PROVE Seated'
  <2>1. ASSUME MakeTemp PROVE Seated'
    BY <2>1 DEF MakeTemp
  <2>6. ASSUME NotProven PROVE Seated'
    BY <2>6 DEF NotProven
  <2>2. ASSUME CopyContent PROVE Seated'
    BY <2>2 DEF CopyContent
  <2>3. ASSUME Restat PROVE Seated'
    BY <2>3 DEF Restat
  <2>4. ASSUME NameTaken PROVE Seated'
    BY <2>4 DEF NameTaken
  <2>5. ASSUME NextSuffix PROVE Seated'
    BY <2>5 DEF NextSuffix
  <2> QED
    BY <1>3, <2>1, <2>2, <2>3, <2>4, <2>5, <2>6 DEF Copies
<1>4. ASSUME Publishes PROVE Seated'
  <2>1. ASSUME Link PROVE Seated'
    BY <2>1 DEF Link
  <2>2. ASSUME Reserve PROVE Seated'
    BY <2>2 DEF Reserve
  <2>3. ASSUME UnlinkSource PROVE Seated'
    BY <2>3 DEF UnlinkSource
  <2>4. ASSUME RenameOver PROVE Seated'
    BY <2>4 DEF RenameOver
  <2> QED
    BY <1>4, <2>1, <2>2, <2>3, <2>4 DEF Publishes
<1>5. ASSUME Stops PROVE Seated'
  <2>1. ASSUME RowFails PROVE Seated'
    BY <2>1 DEF RowFails
  <2>2. ASSUME StopRow PROVE Seated'
    BY <2>2 DEF StopRow
  <2>3. ASSUME RowsDone PROVE Seated'
    BY <2>3 DEF RowsDone
  <2> QED
    BY <1>5, <2>1, <2>2, <2>3 DEF Stops
<1>6. ASSUME Trashes PROVE Seated'
  <2>1. ASSUME AgreeToTrash PROVE Seated'
    BY <2>1 DEF AgreeToTrash
  <2>2. ASSUME SnapshotBefore PROVE Seated'
    BY <2>2 DEF SnapshotBefore
  <2>3. ASSUME NEW nm \in Names, ProveFile(nm) PROVE Seated'
    BY <2>3 DEF ProveFile
  <2>4. ASSUME SnapshotAfter PROVE Seated'
    BY <2>4 DEF SnapshotAfter
  <2>5. ASSUME Send PROVE Seated'
    BY <2>5 DEF Send
  <2> QED
    BY <1>6, <2>1, <2>2, <2>3, <2>4, <2>5 DEF Trashes
<1>7. ASSUME Machine PROVE Seated'
  <2>1. ASSUME NEW s \in Sides, NEW nm \in Names, NEW c \in Contents, EditInPlace(s, nm, c) PROVE Seated'
    BY <2>1 DEF EditInPlace
  <2>2. ASSUME NEW s \in Sides, NEW nm \in Names, NEW c \in Contents, SaveOver(s, nm, c) PROVE Seated'
    BY <2>2 DEF SaveOver
  <2>3. ASSUME NEW s \in Sides, NEW nm \in Names, Delete(s, nm) PROVE Seated'
    BY <2>3 DEF Delete
  <2>4. ASSUME NEW s \in Sides, NEW nm \in Names, NEW o \in Entries, HardLink(s, nm, o) PROVE Seated'
    BY <2>4 DEF HardLink
  <2>5. ASSUME NEW s \in Sides, SwapFolder(s) PROVE Seated'
    BY <2>5 DEF SwapFolder
  <2> QED
    BY <1>7, <2>1, <2>2, <2>3, <2>4, <2>5 DEF Machine
<1>8. CASE UNCHANGED vars
  BY <1>8 DEF vars
<1> QED
  BY <1>1, <1>2, <1>3, <1>4, <1>5, <1>6, <1>7, <1>8, Steps

\* A row is taken once, and has no outcome before it ends.
LEMMA StepPlanned ==
  ASSUME TypeOK, Seated, Blanks, Planned, [Next]_vars
  PROVE  Planned'
<1> USE DEF TypeOK, Planned, RowPoints, PlanPoints, NoRow
<1>1. ASSUME Prepares PROVE Planned'
  <2>1. ASSUME Plan PROVE Planned'
    BY <2>1, EntryIn, NoRowType DEF Plan
  <2>2. ASSUME NEW f \in Files, ProveRow(f) PROVE Planned'
    BY <2>2, EntryIn, NoRowType DEF ProveRow
  <2>3. ASSUME RecheckRoots PROVE Planned'
    BY <2>3, EntryIn, NoRowType DEF RecheckRoots
  <2>4. ASSUME NEW m \in {"move", "copy"}, Confirm(m) PROVE Planned'
    BY <2>4, EntryIn, NoRowType DEF Confirm
  <2>5. ASSUME Decline PROVE Planned'
    BY <2>5, EntryIn, NoRowType DEF Decline
  <2>6. ASSUME Cancel PROVE Planned'
    BY <2>6, EntryIn, NoRowType DEF Cancel
  <2> QED
    BY <1>1, <2>1, <2>2, <2>3, <2>4, <2>5, <2>6 DEF Prepares
<1>2. ASSUME Reads PROVE Planned'
  <2>1. ASSUME NEW f \in Files, TakeRow(f) PROVE Planned'
    BY <2>1, EntryIn, NoRowType DEF TakeRow
  <2>2. ASSUME ReadSource PROVE Planned'
    BY <2>2, ReadEffect, Volume
  <2>3. ASSUME StatSource PROVE Planned'
    BY <2>3, StatEffect, Volume
  <2>4. ASSUME CheckDigest PROVE Planned'
    BY <2>4, EntryIn, NoRowType DEF CheckDigest
  <2>5. ASSUME SameThere PROVE Planned'
    BY <2>5, EntryIn, NoRowType DEF SameThere
  <2>6. ASSUME NotThere PROVE Planned'
    BY <2>6, EntryIn, NoRowType DEF NotThere
  <2> QED
    BY <1>2, <2>1, <2>2, <2>3, <2>4, <2>5, <2>6 DEF Reads
<1>3. ASSUME Copies PROVE Planned'
  <2>1. ASSUME MakeTemp PROVE Planned'
    BY <2>1, EntryIn, NoRowType DEF MakeTemp
  <2>6. ASSUME NotProven PROVE Planned'
    BY <2>6, NotProvenEffect, Volume, RowPlaces
  <2>2. ASSUME CopyContent PROVE Planned'
    BY <2>2, EntryIn, NoRowType DEF CopyContent
  <2>3. ASSUME Restat PROVE Planned'
    BY <2>3, EntryIn, NoRowType DEF Restat
  <2>4. ASSUME NameTaken PROVE Planned'
    BY <2>4, EntryIn, NoRowType DEF NameTaken
  <2>5. ASSUME NextSuffix PROVE Planned'
    BY <2>5, EntryIn, NoRowType DEF NextSuffix
  <2> QED
    BY <1>3, <2>1, <2>2, <2>3, <2>4, <2>5, <2>6 DEF Copies
<1>4. ASSUME Publishes PROVE Planned'
  <2>1. ASSUME Link PROVE Planned'
    BY <2>1, EntryIn, NoRowType DEF Link
  <2>2. ASSUME Reserve PROVE Planned'
    BY <2>2, EntryIn, NoRowType DEF Reserve
  <2>3. ASSUME UnlinkSource PROVE Planned'
    BY <2>3, EntryIn, NoRowType DEF UnlinkSource
  <2>4. ASSUME RenameOver PROVE Planned'
    BY <2>4, EntryIn, NoRowType DEF RenameOver
  <2> QED
    BY <1>4, <2>1, <2>2, <2>3, <2>4 DEF Publishes
<1>5. ASSUME Stops PROVE Planned'
  <2>1. ASSUME RowFails PROVE Planned'
    BY <2>1, EntryIn, NoRowType DEF RowFails
  <2>2. ASSUME StopRow PROVE Planned'
    BY <2>2, EntryIn, NoRowType DEF StopRow
  <2>3. ASSUME RowsDone PROVE Planned'
    BY <2>3, EntryIn, NoRowType DEF RowsDone
  <2> QED
    BY <1>5, <2>1, <2>2, <2>3 DEF Stops
<1>6. ASSUME Trashes PROVE Planned'
  <2>1. ASSUME AgreeToTrash PROVE Planned'
    BY <2>1, EntryIn, NoRowType DEF AgreeToTrash
  <2>2. ASSUME SnapshotBefore PROVE Planned'
    BY <2>2, EntryIn, NoRowType DEF SnapshotBefore
  <2>3. ASSUME NEW nm \in Names, ProveFile(nm) PROVE Planned'
    BY <2>3, EntryIn, NoRowType DEF ProveFile
  <2>4. ASSUME SnapshotAfter PROVE Planned'
    BY <2>4, EntryIn, NoRowType DEF SnapshotAfter
  <2>5. ASSUME Send PROVE Planned'
    BY <2>5, EntryIn, NoRowType DEF Send
  <2> QED
    BY <1>6, <2>1, <2>2, <2>3, <2>4, <2>5 DEF Trashes
<1>7. ASSUME Machine PROVE Planned'
  <2>1. ASSUME NEW s \in Sides, NEW nm \in Names, NEW c \in Contents, EditInPlace(s, nm, c) PROVE Planned'
    BY <2>1, EntryIn, NoRowType DEF EditInPlace
  <2>2. ASSUME NEW s \in Sides, NEW nm \in Names, NEW c \in Contents, SaveOver(s, nm, c) PROVE Planned'
    BY <2>2, EntryIn, NoRowType DEF SaveOver
  <2>3. ASSUME NEW s \in Sides, NEW nm \in Names, Delete(s, nm) PROVE Planned'
    BY <2>3, EntryIn, NoRowType DEF Delete
  <2>4. ASSUME NEW s \in Sides, NEW nm \in Names, NEW o \in Entries, HardLink(s, nm, o) PROVE Planned'
    BY <2>4, EntryIn, NoRowType DEF HardLink
  <2>5. ASSUME NEW s \in Sides, SwapFolder(s) PROVE Planned'
    BY <2>5, EntryIn, NoRowType DEF SwapFolder
  <2> QED
    BY <1>7, <2>1, <2>2, <2>3, <2>4, <2>5 DEF Machine
<1>8. CASE UNCHANGED vars
  BY <1>8 DEF vars
<1> QED
  BY <1>1, <1>2, <1>3, <1>4, <1>5, <1>6, <1>7, <1>8, Steps

\* The content of the source is one of a file; only the planned one goes on.
LEMMA StepDigested ==
  ASSUME TypeOK, Planned, Blanks, Digested, Seated, [Next]_vars
  PROVE  Digested'
<1> USE DEF TypeOK, Planned, Digested, RowPoints, AfterRead, AfterCheck, NoRow
<1>1. ASSUME Prepares PROVE Digested'
  <2>1. ASSUME Plan PROVE Digested'
    BY <2>1 DEF Plan
  <2>2. ASSUME NEW f \in Files, ProveRow(f) PROVE Digested'
    BY <2>2 DEF ProveRow
  <2>3. ASSUME RecheckRoots PROVE Digested'
    BY <2>3 DEF RecheckRoots
  <2>4. ASSUME NEW m \in {"move", "copy"}, Confirm(m) PROVE Digested'
    BY <2>4 DEF Confirm
  <2>5. ASSUME Decline PROVE Digested'
    BY <2>5 DEF Decline
  <2>6. ASSUME Cancel PROVE Digested'
    BY <2>6 DEF Cancel
  <2> QED
    BY <1>1, <2>1, <2>2, <2>3, <2>4, <2>5, <2>6 DEF Prepares
<1>2. ASSUME Reads PROVE Digested'
  <2>1. ASSUME NEW f \in Files, TakeRow(f) PROVE Digested'
    BY <2>1 DEF TakeRow
  <2>2. ASSUME ReadSource PROVE Digested'
    BY <2>2, ReadEffect, Volume
  <2>3. ASSUME StatSource PROVE Digested'
    BY <2>3, StatEffect, Volume
  <2>4. ASSUME CheckDigest PROVE Digested'
    <3>1. pc = "proved" /\ expected[row.file] # NoDigest
      BY <2>4 DEF CheckDigest
    <3>2. expected[row.file] \in Contents
      BY <3>1 DEF Row
    <3> QED
      BY <2>4, <3>2 DEF CheckDigest
  <2>5. ASSUME SameThere PROVE Digested'
    BY <2>5 DEF SameThere
  <2>6. ASSUME NotThere PROVE Digested'
    BY <2>6 DEF NotThere
  <2> QED
    BY <1>2, <2>1, <2>2, <2>3, <2>4, <2>5, <2>6 DEF Reads
<1>3. ASSUME Copies PROVE Digested'
  <2>1. ASSUME MakeTemp PROVE Digested'
    BY <2>1 DEF MakeTemp
  <2>6. ASSUME NotProven PROVE Digested'
    BY <2>6, NotProvenEffect, Volume, RowPlaces
  <2>2. ASSUME CopyContent PROVE Digested'
    BY <2>2 DEF CopyContent
  <2>3. ASSUME Restat PROVE Digested'
    BY <2>3 DEF Restat
  <2>4. ASSUME NameTaken PROVE Digested'
    BY <2>4 DEF NameTaken
  <2>5. ASSUME NextSuffix PROVE Digested'
    BY <2>5 DEF NextSuffix
  <2> QED
    BY <1>3, <2>1, <2>2, <2>3, <2>4, <2>5, <2>6 DEF Copies
<1>4. ASSUME Publishes PROVE Digested'
  <2>1. ASSUME Link PROVE Digested'
    BY <2>1 DEF Link
  <2>2. ASSUME Reserve PROVE Digested'
    BY <2>2 DEF Reserve
  <2>3. ASSUME UnlinkSource PROVE Digested'
    BY <2>3 DEF UnlinkSource
  <2>4. ASSUME RenameOver PROVE Digested'
    BY <2>4 DEF RenameOver
  <2> QED
    BY <1>4, <2>1, <2>2, <2>3, <2>4 DEF Publishes
<1>5. ASSUME Stops PROVE Digested'
  <2>1. ASSUME RowFails PROVE Digested'
    BY <2>1 DEF RowFails
  <2>2. ASSUME StopRow PROVE Digested'
    BY <2>2 DEF StopRow
  <2>3. ASSUME RowsDone PROVE Digested'
    BY <2>3 DEF RowsDone
  <2> QED
    BY <1>5, <2>1, <2>2, <2>3 DEF Stops
<1>6. ASSUME Trashes PROVE Digested'
  <2>1. ASSUME AgreeToTrash PROVE Digested'
    BY <2>1 DEF AgreeToTrash
  <2>2. ASSUME SnapshotBefore PROVE Digested'
    BY <2>2 DEF SnapshotBefore
  <2>3. ASSUME NEW nm \in Names, ProveFile(nm) PROVE Digested'
    BY <2>3 DEF ProveFile
  <2>4. ASSUME SnapshotAfter PROVE Digested'
    BY <2>4 DEF SnapshotAfter
  <2>5. ASSUME Send PROVE Digested'
    BY <2>5 DEF Send
  <2> QED
    BY <1>6, <2>1, <2>2, <2>3, <2>4, <2>5 DEF Trashes
<1>7. ASSUME Machine PROVE Digested'
  <2>1. ASSUME NEW s \in Sides, NEW nm \in Names, NEW c \in Contents, EditInPlace(s, nm, c) PROVE Digested'
    BY <2>1 DEF EditInPlace
  <2>2. ASSUME NEW s \in Sides, NEW nm \in Names, NEW c \in Contents, SaveOver(s, nm, c) PROVE Digested'
    BY <2>2 DEF SaveOver
  <2>3. ASSUME NEW s \in Sides, NEW nm \in Names, Delete(s, nm) PROVE Digested'
    BY <2>3 DEF Delete
  <2>4. ASSUME NEW s \in Sides, NEW nm \in Names, NEW o \in Entries, HardLink(s, nm, o) PROVE Digested'
    BY <2>4 DEF HardLink
  <2>5. ASSUME NEW s \in Sides, SwapFolder(s) PROVE Digested'
    BY <2>5 DEF SwapFolder
  <2> QED
    BY <1>7, <2>1, <2>2, <2>3, <2>4, <2>5 DEF Machine
<1>8. CASE UNCHANGED vars
  BY <1>8 DEF vars
<1> QED
  BY <1>1, <1>2, <1>3, <1>4, <1>5, <1>6, <1>7, <1>8, Steps

\* The Trash gets the folder in the last step.
LEMMA StepUntrashed ==
  ASSUME TypeOK, Untrashed, [Next]_vars
  PROVE  Untrashed'
<1> USE DEF Untrashed, RowPoints
<1>1. ASSUME Prepares PROVE Untrashed'
  <2>1. ASSUME Plan PROVE Untrashed'
    BY <2>1 DEF Plan
  <2>2. ASSUME NEW f \in Files, ProveRow(f) PROVE Untrashed'
    BY <2>2 DEF ProveRow
  <2>3. ASSUME RecheckRoots PROVE Untrashed'
    BY <2>3 DEF RecheckRoots
  <2>4. ASSUME NEW m \in {"move", "copy"}, Confirm(m) PROVE Untrashed'
    BY <2>4 DEF Confirm
  <2>5. ASSUME Decline PROVE Untrashed'
    BY <2>5 DEF Decline
  <2>6. ASSUME Cancel PROVE Untrashed'
    BY <2>6 DEF Cancel
  <2> QED
    BY <1>1, <2>1, <2>2, <2>3, <2>4, <2>5, <2>6 DEF Prepares
<1>2. ASSUME Reads PROVE Untrashed'
  <2>1. ASSUME NEW f \in Files, TakeRow(f) PROVE Untrashed'
    BY <2>1 DEF TakeRow
  <2>2. ASSUME ReadSource PROVE Untrashed'
    BY <2>2 DEF ReadSource
  <2>3. ASSUME StatSource PROVE Untrashed'
    BY <2>3 DEF StatSource
  <2>4. ASSUME CheckDigest PROVE Untrashed'
    BY <2>4 DEF CheckDigest
  <2>5. ASSUME SameThere PROVE Untrashed'
    BY <2>5 DEF SameThere
  <2>6. ASSUME NotThere PROVE Untrashed'
    BY <2>6 DEF NotThere
  <2> QED
    BY <1>2, <2>1, <2>2, <2>3, <2>4, <2>5, <2>6 DEF Reads
<1>3. ASSUME Copies PROVE Untrashed'
  <2>1. ASSUME MakeTemp PROVE Untrashed'
    BY <2>1 DEF MakeTemp
  <2>6. ASSUME NotProven PROVE Untrashed'
    BY <2>6, NotProvenEffect, Volume, RowPlaces
  <2>2. ASSUME CopyContent PROVE Untrashed'
    BY <2>2 DEF CopyContent
  <2>3. ASSUME Restat PROVE Untrashed'
    BY <2>3 DEF Restat
  <2>4. ASSUME NameTaken PROVE Untrashed'
    BY <2>4 DEF NameTaken
  <2>5. ASSUME NextSuffix PROVE Untrashed'
    BY <2>5 DEF NextSuffix
  <2> QED
    BY <1>3, <2>1, <2>2, <2>3, <2>4, <2>5, <2>6 DEF Copies
<1>4. ASSUME Publishes PROVE Untrashed'
  <2>1. ASSUME Link PROVE Untrashed'
    BY <2>1 DEF Link
  <2>2. ASSUME Reserve PROVE Untrashed'
    BY <2>2 DEF Reserve
  <2>3. ASSUME UnlinkSource PROVE Untrashed'
    BY <2>3 DEF UnlinkSource
  <2>4. ASSUME RenameOver PROVE Untrashed'
    BY <2>4 DEF RenameOver
  <2> QED
    BY <1>4, <2>1, <2>2, <2>3, <2>4 DEF Publishes
<1>5. ASSUME Stops PROVE Untrashed'
  <2>1. ASSUME RowFails PROVE Untrashed'
    BY <2>1 DEF RowFails
  <2>2. ASSUME StopRow PROVE Untrashed'
    BY <2>2 DEF StopRow
  <2>3. ASSUME RowsDone PROVE Untrashed'
    BY <2>3 DEF RowsDone
  <2> QED
    BY <1>5, <2>1, <2>2, <2>3 DEF Stops
<1>6. ASSUME Trashes PROVE Untrashed'
  <2>1. ASSUME AgreeToTrash PROVE Untrashed'
    BY <2>1 DEF AgreeToTrash
  <2>2. ASSUME SnapshotBefore PROVE Untrashed'
    BY <2>2 DEF SnapshotBefore
  <2>3. ASSUME NEW nm \in Names, ProveFile(nm) PROVE Untrashed'
    BY <2>3 DEF ProveFile
  <2>4. ASSUME SnapshotAfter PROVE Untrashed'
    BY <2>4 DEF SnapshotAfter
  <2>5. ASSUME Send PROVE Untrashed'
    BY <2>5 DEF Send
  <2> QED
    BY <1>6, <2>1, <2>2, <2>3, <2>4, <2>5 DEF Trashes
<1>7. ASSUME Machine PROVE Untrashed'
  <2>1. ASSUME NEW s \in Sides, NEW nm \in Names, NEW c \in Contents, EditInPlace(s, nm, c) PROVE Untrashed'
    BY <2>1 DEF EditInPlace
  <2>2. ASSUME NEW s \in Sides, NEW nm \in Names, NEW c \in Contents, SaveOver(s, nm, c) PROVE Untrashed'
    BY <2>2 DEF SaveOver
  <2>3. ASSUME NEW s \in Sides, NEW nm \in Names, Delete(s, nm) PROVE Untrashed'
    BY <2>3 DEF Delete
  <2>4. ASSUME NEW s \in Sides, NEW nm \in Names, NEW o \in Entries, HardLink(s, nm, o) PROVE Untrashed'
    BY <2>4 DEF HardLink
  <2>5. ASSUME NEW s \in Sides, SwapFolder(s) PROVE Untrashed'
    BY <2>5 DEF SwapFolder
  <2> QED
    BY <1>7, <2>1, <2>2, <2>3, <2>4, <2>5 DEF Machine
<1>8. CASE UNCHANGED vars
  BY <1>8 DEF vars
<1> QED
  BY <1>1, <1>2, <1>3, <1>4, <1>5, <1>6, <1>7, <1>8, Steps

\* Only the copy of a row has a temporary, and only the row a way to it.
LEMMA StepTempAlone ==
  ASSUME WindowsClosed, TypeOK, Seated, Planned, Blanks, Digested, Untrashed,
         TempAlone, [Next]_vars
  PROVE  TempAlone'
<1> USE DEF Planned, Digested, Untrashed, TempAlone, Writing, AfterRead,
          AfterCheck, RowPoints
<1>1. ASSUME Prepares PROVE TempAlone'
  <2>1. ASSUME Plan PROVE TempAlone'
    BY <2>1 DEF Plan
  <2>2. ASSUME NEW f \in Files, ProveRow(f) PROVE TempAlone'
    BY <2>2 DEF ProveRow
  <2>3. ASSUME RecheckRoots PROVE TempAlone'
    BY <2>3 DEF RecheckRoots
  <2>4. ASSUME NEW m \in {"move", "copy"}, Confirm(m) PROVE TempAlone'
    BY <2>4 DEF Confirm
  <2>5. ASSUME Decline PROVE TempAlone'
    BY <2>5 DEF Decline
  <2>6. ASSUME Cancel PROVE TempAlone'
    BY <2>6 DEF Cancel
  <2> QED
    BY <1>1, <2>1, <2>2, <2>3, <2>4, <2>5, <2>6 DEF Prepares
<1>2. ASSUME Reads PROVE TempAlone'
  <2>1. ASSUME NEW f \in Files, TakeRow(f) PROVE TempAlone'
    BY <2>1 DEF TakeRow
  <2>2. ASSUME ReadSource PROVE TempAlone'
    BY <2>2, ReadEffect, Volume
  <2>3. ASSUME StatSource PROVE TempAlone'
    BY <2>3, StatEffect, Volume
  <2>4. ASSUME CheckDigest PROVE TempAlone'
    BY <2>4 DEF CheckDigest
  <2>5. ASSUME SameThere PROVE TempAlone'
    BY <2>5 DEF SameThere
  <2>6. ASSUME NotThere PROVE TempAlone'
    BY <2>6 DEF NotThere
  <2> QED
    BY <1>2, <2>1, <2>2, <2>3, <2>4, <2>5, <2>6 DEF Reads
<1>3. ASSUME Copies PROVE TempAlone'
  <2>1. ASSUME MakeTemp PROVE TempAlone'
    <3>1. /\ pc = "copy" /\ UNCHANGED <<disk, mode>>
          /\ \/ temp' = Absent /\ pc' = "rows"
             \/ /\ pc' = (IF row.link THEN "publish" ELSE "copying") /\ UNCHANGED row
                /\ \E i \in Inodes :
                     /\ \A e \in Entries : disk[e] # i
                     /\ temp' = i
                     /\ content' = [content EXCEPT ![i] = IF row.link THEN row.digest
                                                          ELSE Blank]
      BY <2>1, TempEffect
    <3>2. mode = "copy" \/ mode # "copy"
      OBVIOUS
    <3> QED
      BY <3>1, Volume
  <2>6. ASSUME NotProven PROVE TempAlone'
    BY <2>6, NotProvenEffect, Volume, RowPlaces
  <2>2. ASSUME CopyContent PROVE TempAlone'
    BY <2>2, Volume DEF CopyContent
  <2>3. ASSUME Restat PROVE TempAlone'
    BY <2>3 DEF Restat
  <2>4. ASSUME NameTaken PROVE TempAlone'
    BY <2>4 DEF NameTaken
  <2>5. ASSUME NextSuffix PROVE TempAlone'
    BY <2>5 DEF NextSuffix
  <2> QED
    BY <1>3, <2>1, <2>2, <2>3, <2>4, <2>5, <2>6 DEF Copies
<1>4. ASSUME Publishes PROVE TempAlone'
  <2>1. ASSUME Link PROVE TempAlone'
    BY <2>1, LinkEffect, Volume
  <2>2. ASSUME Reserve PROVE TempAlone'
    BY <2>2, ReserveEffect, Volume
  <2>3. ASSUME UnlinkSource PROVE TempAlone'
    BY <2>3 DEF UnlinkSource
  <2>4. ASSUME RenameOver PROVE TempAlone'
    BY <2>4, RenameEffect, Volume
  <2> QED
    BY <1>4, <2>1, <2>2, <2>3, <2>4 DEF Publishes
<1>5. ASSUME Stops PROVE TempAlone'
  <2>1. ASSUME RowFails PROVE TempAlone'
    BY <2>1 DEF RowFails
  <2>2. ASSUME StopRow PROVE TempAlone'
    BY <2>2 DEF StopRow
  <2>3. ASSUME RowsDone PROVE TempAlone'
    BY <2>3 DEF RowsDone
  <2> QED
    BY <1>5, <2>1, <2>2, <2>3 DEF Stops
<1>6. ASSUME Trashes PROVE TempAlone'
  <2>1. ASSUME AgreeToTrash PROVE TempAlone'
    BY <2>1 DEF AgreeToTrash
  <2>2. ASSUME SnapshotBefore PROVE TempAlone'
    BY <2>2 DEF SnapshotBefore
  <2>3. ASSUME NEW nm \in Names, ProveFile(nm) PROVE TempAlone'
    BY <2>3 DEF ProveFile
  <2>4. ASSUME SnapshotAfter PROVE TempAlone'
    BY <2>4 DEF SnapshotAfter
  <2>5. ASSUME Send PROVE TempAlone'
    BY <2>5 DEF Send
  <2> QED
    BY <1>6, <2>1, <2>2, <2>3, <2>4, <2>5 DEF Trashes
<1>7. ASSUME Machine PROVE TempAlone'
  <2>1. ASSUME NEW s \in Sides, NEW nm \in Names, NEW c \in Contents, EditInPlace(s, nm, c) PROVE TempAlone'
    BY <2>1, EditEffect, Volume DEF MachineKeeps
  <2>2. ASSUME NEW s \in Sides, NEW nm \in Names, NEW c \in Contents, SaveOver(s, nm, c) PROVE TempAlone'
    BY <2>2, SaveEffect, Volume DEF MachineKeeps
  <2>3. ASSUME NEW s \in Sides, NEW nm \in Names, Delete(s, nm) PROVE TempAlone'
    BY <2>3, DeleteEffect, Volume DEF MachineKeeps
  <2>4. ASSUME NEW s \in Sides, NEW nm \in Names, NEW o \in Entries, HardLink(s, nm, o) PROVE TempAlone'
    BY <2>4, HardLinkEffect, Volume DEF MachineKeeps
  <2>5. ASSUME NEW s \in Sides, SwapFolder(s) PROVE TempAlone'
    BY <2>5, SwapEffect, Volume DEF MachineKeeps
  <2> QED
    BY <1>7, <2>1, <2>2, <2>3, <2>4, <2>5 DEF Machine
<1>8. CASE UNCHANGED vars
  BY <1>8 DEF vars
<1> QED
  BY <1>1, <1>2, <1>3, <1>4, <1>5, <1>6, <1>7, <1>8, Steps

\* What a clean-up kept is forgotten only when its inode is made anew.
LEMMA RefusedStays ==
  ASSUME TypeOK, Seated, [Next]_vars
  PROVE  \A e \in Entries : disk[e] \in refused => disk[e] \in refused'
<1>1. CASE Prepares \/ Trashes
  <2>1. refused' = refused
    BY <1>1 DEF Prepares, Plan, ProveRow, RecheckRoots, Confirm, Decline, Cancel,
                Trashes, AgreeToTrash, SnapshotBefore, ProveFile, SnapshotAfter, Send
  <2> QED
    BY <2>1
<1>2. CASE Reads
  <2>1. refused \subseteq refused'
    BY <1>2 DEF Reads, TakeRow, ReadSource, StatSource, CheckDigest, SameThere, NotThere,
                Cleaned
  <2> QED
    BY <2>1
<1>3. CASE MakeTemp
  BY <1>3, TempEffect
<1>4. CASE NotProven
  BY <1>4, NotProvenEffect
<1>5. CASE CopyContent \/ Restat \/ NameTaken \/ NextSuffix
  <2>1. refused \subseteq refused'
    BY <1>5 DEF CopyContent, Restat, NameTaken, NextSuffix, Cleaned
  <2> QED
    BY <2>1
<1>6. CASE Reserve
  BY <1>6, ReserveEffect
<1>7. CASE Link \/ UnlinkSource \/ RenameOver
  <2>1. refused' = refused
    BY <1>7 DEF Link, UnlinkSource, RenameOver, Cleaned
  <2> QED
    BY <2>1
<1>8. CASE Stops
  <2>1. refused \subseteq refused'
    BY <1>8 DEF Stops, RowFails, StopRow, RowsDone, Cleaned
  <2> QED
    BY <2>1
<1>9. CASE Machine
  <2>1. refused' = refused
    BY <1>9 DEF Machine, EditInPlace, SaveOver, Delete, HardLink, SwapFolder
  <2> QED
    BY <2>1
<1>10. CASE UNCHANGED vars
  BY <1>10 DEF vars
<1> QED
  BY <1>1, <1>2, <1>3, <1>4, <1>5, <1>6, <1>7, <1>8, <1>9, <1>10, Steps DEF Copies, Publishes

\* Outside a reservation the empty names after a step lead where empty names led
\* before it.
LEMMA BlanksKept ==
  ASSUME TypeOK, Seated, Blanks, [Next]_vars, pc # "stub", pc' # "stub",
         pc' \in {"idle"} \cup PlanPoints => refused' = {},
         \A e \in Entries :
           disk'[e] # Absent /\ content'[disk'[e]] = Blank =>
             \E o \in Entries : disk[o] # Absent /\ content[disk[o]] = Blank
                               /\ disk'[e] = disk[o]
  PROVE  Blanks'
<1>1. ASSUME NEW e \in Entries, Has(e, Blank)' PROVE disk'[e] \in refused'
  <2>1. PICK o \in Entries : /\ disk[o] # Absent /\ content[disk[o]] = Blank
                             /\ disk'[e] = disk[o]
    BY <1>1 DEF Has, Exists
  <2>2. disk[o] \in refused
    BY <2>1 DEF Blanks, Has, Exists
  <2> QED
    BY <2>1, <2>2, RefusedStays
<1> QED
  BY <1>1 DEF Blanks

\* None is new when no name and no content changes.
LEMMA BlanksUnmoved ==
  ASSUME TypeOK, Seated, Blanks, [Next]_vars, pc # "stub", pc' # "stub",
         pc' \in {"idle"} \cup PlanPoints => refused' = {},
         UNCHANGED <<disk, content>>
  PROVE  Blanks'
BY BlanksKept

\* Only a reserved name is empty, or one that was not taken back.
LEMMA StepBlanks ==
  ASSUME WindowsClosed, TypeOK, Seated, Planned, Digested, TempAlone, Blanks,
         Proven, [Next]_vars
  PROVE  Blanks'
<1> USE DEF PlanPoints, RowPoints
<1>1. ASSUME Prepares PROVE Blanks'
  <2>1. ASSUME Plan PROVE Blanks'
    BY <2>1, BlanksUnmoved DEF Plan, Blanks
  <2>2. ASSUME NEW f \in Files, ProveRow(f) PROVE Blanks'
    BY <2>2, BlanksUnmoved DEF ProveRow, Blanks
  <2>3. ASSUME RecheckRoots PROVE Blanks'
    BY <2>3, BlanksUnmoved DEF RecheckRoots, Blanks
  <2>4. ASSUME NEW m \in {"move", "copy"}, Confirm(m) PROVE Blanks'
    BY <2>4, BlanksUnmoved DEF Confirm
  <2>5. ASSUME Decline PROVE Blanks'
    BY <2>5, BlanksUnmoved DEF Decline
  <2>6. ASSUME Cancel PROVE Blanks'
    BY <2>6, Volume, SameNames, RowPlaces DEF Cancel, Blanks, Has, Exists
  <2> QED
    BY <1>1, <2>1, <2>2, <2>3, <2>4, <2>5, <2>6 DEF Prepares
<1>2. ASSUME Reads PROVE Blanks'
  <2>1. ASSUME NEW f \in Files, TakeRow(f) PROVE Blanks'
    BY <2>1, BlanksUnmoved DEF TakeRow
  <2>2. ASSUME ReadSource PROVE Blanks'
    BY <2>2, BlanksUnmoved DEF ReadSource
  <2>3. ASSUME StatSource PROVE Blanks'
    BY <2>3, BlanksUnmoved DEF StatSource
  <2>4. ASSUME CheckDigest PROVE Blanks'
    BY <2>4, BlanksUnmoved DEF CheckDigest
  <2>5. ASSUME SameThere PROVE Blanks'
    BY <2>5, BlanksUnmoved DEF SameThere
  <2>6. ASSUME NotThere PROVE Blanks'
    BY <2>6, BlanksUnmoved DEF NotThere
  <2> QED
    BY <1>2, <2>1, <2>2, <2>3, <2>4, <2>5, <2>6 DEF Reads
<1>3. ASSUME Copies PROVE Blanks'
  <2>1. ASSUME MakeTemp PROVE Blanks'
    <3>1. pc = "copy" /\ pc' \in {"publish", "copying"} /\ UNCHANGED disk
      BY <2>1, TempEffect
    <3>2. \A e \in Entries : disk[e] # Absent => content'[disk[e]] = content[disk[e]]
      BY <2>1, TempEffect, Volume
    <3> QED
      BY <3>1, <3>2, BlanksKept
  <2>2. ASSUME NotProven PROVE Blanks'
    <3>1. pc = "copy" /\ pc' = "rows" /\ UNCHANGED disk
      BY <2>2, NotProvenEffect
    <3>2. \A e \in Entries : disk[e] # Absent => content'[disk[e]] = content[disk[e]]
      BY <2>2, NotProvenEffect, Volume
    <3> QED
      BY <3>1, <3>2, BlanksKept
  <2>3. ASSUME CopyContent PROVE Blanks'
    <3>1. pc = "copying" /\ pc' \in {"publish", "rows"} /\ UNCHANGED disk
      BY <2>3 DEF CopyContent
    <3>2. \A e \in Entries : disk[e] # temp \/ temp = Absent
      BY <3>1 DEF TempAlone
    <3>3. \A e \in Entries : disk[e] # Absent => content'[disk[e]] = content[disk[e]]
      BY <2>3, <3>2, Volume DEF CopyContent
    <3> QED
      BY <3>1, <3>3, BlanksKept
  <2>4. ASSUME Restat PROVE Blanks'
    BY <2>4, BlanksUnmoved DEF Restat
  <2>5. ASSUME NameTaken PROVE Blanks'
    BY <2>5, BlanksUnmoved DEF NameTaken
  <2>6. ASSUME NextSuffix PROVE Blanks'
    BY <2>6, BlanksUnmoved DEF NextSuffix
  <2> QED
    BY <1>3, <2>1, <2>2, <2>3, <2>4, <2>5, <2>6 DEF Copies
<1>4. ASSUME Publishes PROVE Blanks'
  <2>1. ASSUME Link PROVE Blanks'
    <3>1. /\ pc = "checked" /\ pc' = "linked" /\ UNCHANGED content
          /\ disk' = [disk EXCEPT ![Target] = Published]
      BY <2>1, LinkEffect
    <3>2. content[Published] # Blank
      BY <3>1, PublishedIs, Volume
    <3>3. \A e \in Entries : disk'[e] = Published \/ disk'[e] = disk[e]
      BY <3>1, Volume
    <3> QED
      BY <3>1, <3>2, <3>3, BlanksKept
  <2>2. ASSUME Reserve PROVE Blanks'
    <3>1. PICK i \in Inodes :
            /\ \A e \in Entries : disk[e] # i
            /\ disk' = [disk EXCEPT ![Target] = i]
            /\ content' = [content EXCEPT ![i] = Blank]
      BY <2>2, ReserveEffect
    <3>2. pc = "checked" /\ pc' = "stub" /\ UNCHANGED <<roots, row>>
      BY <2>2, ReserveEffect
    <3>3. Target' = Target /\ Target \in Entries
      BY <3>2, SameNames, RowPlaces
    <3>4. ASSUME NEW e \in Entries, e # Target, Has(e, Blank)' PROVE disk'[e] \in refused'
      <4>1. disk'[e] = disk[e] /\ Has(e, Blank)
        BY <3>1, <3>4, Volume DEF Has, Exists
      <4>2. disk[e] \in refused
        BY <3>2, <4>1 DEF Blanks
      <4> QED
        BY <4>1, <4>2, RefusedStays
    <3>5. Has(Target, Blank)'
      BY <3>1, <3>3, Volume DEF Has, Exists
    <3> QED
      BY <3>2, <3>3, <3>4, <3>5 DEF Blanks
  <2>3. ASSUME UnlinkSource PROVE Blanks'
    <3>1. /\ pc = "linked" /\ pc' = "rows" /\ UNCHANGED content
          /\ \A e \in Entries : disk'[e] \in {disk[e], Absent}
      BY <2>3, Volume DEF UnlinkSource
    <3> QED
      BY <3>1, BlanksKept
  <2>4. ASSUME RenameOver PROVE Blanks'
    <3>1. /\ pc = "stub" /\ pc' = "rows" /\ UNCHANGED content
          /\ disk' = [e \in Entries |->
                        IF e = Target THEN Published
                        ELSE IF mode = "move" /\ e = Pinned(row.file) THEN Absent
                        ELSE disk[e]]
      BY <2>4, RenameEffect
    <3>2. content[Published] # Blank
      BY <3>1, PublishedIs, Volume
    <3>3. ASSUME NEW e \in Entries, Has(e, Blank)' PROVE disk'[e] \in refused'
      <4>1. e # Target /\ disk'[e] = disk[e] /\ Has(e, Blank)
        BY <3>1, <3>2, <3>3 DEF Has, Exists
      <4>2. disk[e] \in refused
        BY <4>1 DEF Blanks
      <4> QED
        BY <4>1, <4>2, RefusedStays
    <3> QED
      BY <3>1, <3>3 DEF Blanks
  <2> QED
    BY <1>4, <2>1, <2>2, <2>3, <2>4 DEF Publishes
<1>5. ASSUME Stops PROVE Blanks'
  <2>1. ASSUME RowFails PROVE Blanks'
    <3>1. PICK kept \in SUBSET ToTakeBack :
            /\ disk' = IF pc = "stub" /\ disk[Target] \notin kept
                       THEN [disk EXCEPT ![Target] = Absent] ELSE disk
            /\ Cleaned(kept)
      BY <2>1 DEF RowFails
    <3>2. pc' = "rows" /\ UNCHANGED content /\ refused' = refused \cup kept
      BY <2>1, <3>1 DEF RowFails, Cleaned
    <3>3. ASSUME NEW e \in Entries, Has(e, Blank)' PROVE disk'[e] \in refused'
      <4>1. Has(e, Blank) /\ disk'[e] = disk[e]
            /\ (pc = "stub" /\ e = Target => disk[Target] \in kept)
        BY <3>1, <3>2, <3>3, Volume DEF Has, Exists
      <4> QED
        BY <3>2, <4>1 DEF Blanks
    <3> QED
      BY <3>2, <3>3 DEF Blanks
  <2>2. ASSUME StopRow PROVE Blanks'
    BY <2>2, BlanksUnmoved DEF StopRow
  <2>3. ASSUME RowsDone PROVE Blanks'
    BY <2>3, BlanksUnmoved DEF RowsDone
  <2> QED
    BY <1>5, <2>1, <2>2, <2>3 DEF Stops
<1>6. ASSUME Trashes PROVE Blanks'
  <2>1. ASSUME AgreeToTrash PROVE Blanks'
    BY <2>1, BlanksUnmoved DEF AgreeToTrash
  <2>2. ASSUME SnapshotBefore PROVE Blanks'
    BY <2>2, BlanksUnmoved DEF SnapshotBefore
  <2>3. ASSUME NEW nm \in Names, ProveFile(nm) PROVE Blanks'
    BY <2>3, BlanksUnmoved DEF ProveFile
  <2>4. ASSUME SnapshotAfter PROVE Blanks'
    BY <2>4, BlanksUnmoved DEF SnapshotAfter
  <2>5. ASSUME Send PROVE Blanks'
    <3>1. /\ pc = "send" /\ pc' = "done" /\ UNCHANGED content
          /\ \A e \in Entries : disk'[e] \in {disk[e], Absent}
      BY <2>5, Volume DEF Send
    <3> QED
      BY <3>1, BlanksKept
  <2> QED
    BY <1>6, <2>1, <2>2, <2>3, <2>4, <2>5 DEF Trashes
<1>7. ASSUME Machine PROVE Blanks'
  <2>1. ASSUME NEW s \in Sides, NEW nm \in Names, NEW c \in Contents, EditInPlace(s, nm, c)
        PROVE  Blanks'
    <3>1. /\ pc # "stub" /\ pc' = pc /\ UNCHANGED <<disk, refused>>
          /\ \A i \in Inodes : content'[i] = Blank => content[i] = Blank
      BY <2>1, EditEffect, Volume DEF MachineKeeps
    <3> QED
      BY <3>1, BlanksKept, Volume DEF Blanks
  <2>2. ASSUME NEW s \in Sides, NEW nm \in Names, NEW c \in Contents, SaveOver(s, nm, c)
        PROVE  Blanks'
    <3>1. PICK i \in Inodes, e \in Entries :
            /\ \A o \in Entries : disk[o] # i
            /\ disk' = [disk EXCEPT ![e] = i] /\ content' = [content EXCEPT ![i] = c]
      BY <2>2, SaveEffect
    <3>2. pc # "stub" /\ pc' = pc /\ UNCHANGED refused
      BY <2>2, SaveEffect DEF MachineKeeps
    <3>3. \A p \in Entries : \/ disk'[p] = disk[p] /\ content'[disk[p]] = content[disk[p]]
                             \/ content'[disk'[p]] = c
                             \/ disk'[p] = Absent
      BY <3>1, Volume
    <3> QED
      BY <3>2, <3>3, BlanksKept, Volume DEF Blanks
  <2>3. ASSUME NEW s \in Sides, NEW nm \in Names, Delete(s, nm) PROVE Blanks'
    <3>1. PICK e \in Entries : disk' = [disk EXCEPT ![e] = Absent]
      BY <2>3, DeleteEffect
    <3>2. pc # "stub" /\ pc' = pc /\ UNCHANGED <<content, refused>>
      BY <2>3, DeleteEffect DEF MachineKeeps
    <3>3. \A p \in Entries : disk'[p] \in {disk[p], Absent}
      BY <3>1, Volume
    <3> QED
      BY <3>2, <3>3, BlanksKept DEF Blanks
  <2>4. ASSUME NEW s \in Sides, NEW nm \in Names, NEW o \in Entries, HardLink(s, nm, o)
        PROVE  Blanks'
    <3>1. PICK e \in Entries : disk' = [disk EXCEPT ![e] = disk[o]] /\ disk[o] # Absent
      BY <2>4, HardLinkEffect, Volume
    <3>2. pc # "stub" /\ pc' = pc /\ UNCHANGED <<content, refused>>
      BY <2>4, HardLinkEffect DEF MachineKeeps
    <3>3. \A p \in Entries : disk'[p] = disk[p] \/ disk'[p] = disk[o]
      BY <3>1, Volume
    <3> QED
      BY <3>2, <3>3, BlanksKept DEF Blanks
  <2>5. ASSUME NEW s \in Sides, SwapFolder(s) PROVE Blanks'
    BY <2>5, SwapEffect, Volume, SameNames, RowPlaces DEF MachineKeeps, Blanks, Has, Exists
  <2> QED
    BY <1>7, <2>1, <2>2, <2>3, <2>4, <2>5 DEF Machine
<1>8. CASE UNCHANGED vars
  BY <1>8, SameNames DEF vars, Blanks, Has, Exists
<1> QED
  BY <1>1, <1>2, <1>3, <1>4, <1>5, <1>6, <1>7, <1>8, Steps

\* A temporary that is no row's was kept by a clean-up.
LEMMA StepCleared ==
  ASSUME TypeOK, Seated, TempAlone, Cleared, [Next]_vars
  PROVE  Cleared'
<1> USE DEF Cleared
<1>1. CASE Prepares \/ Trashes
  BY <1>1 DEF Prepares, Plan, ProveRow, RecheckRoots, Confirm, Decline, Cancel,
              Trashes, AgreeToTrash, SnapshotBefore, ProveFile, SnapshotAfter, Send
<1>2. CASE Reads
  BY <1>2 DEF Reads, TakeRow, ReadSource, StatSource, CheckDigest, SameThere, NotThere,
              Cleaned
<1>3. CASE MakeTemp
  <2>1. temp = Absent /\ temps \subseteq refused
    BY <1>3, TempEffect, Volume DEF TempAlone, Writing
  <2> QED
    BY <1>3, <2>1, TempEffect
<1>4. CASE NotProven
  <2>1. temp = Absent /\ temps \subseteq refused
    BY <1>4, NotProvenEffect, Volume DEF TempAlone, Writing
  <2> QED
    BY <1>4, <2>1, NotProvenEffect
<1>5. CASE CopyContent \/ Restat \/ NameTaken \/ NextSuffix
  BY <1>5 DEF CopyContent, Restat, NameTaken, NextSuffix, Cleaned
<1>6. CASE Reserve
  <2>1. PICK i \in Inodes : refused' = refused \ {i} /\ i \notin temps
    BY <1>6, ReserveEffect
  <2> QED
    BY <1>6, <2>1, ReserveEffect
<1>7. CASE Link \/ UnlinkSource \/ RenameOver
  BY <1>7 DEF Link, UnlinkSource, RenameOver, Cleaned
<1>8. CASE Stops
  BY <1>8 DEF Stops, RowFails, StopRow, RowsDone, Cleaned
<1>9. CASE Machine
  BY <1>9 DEF Machine, EditInPlace, SaveOver, Delete, HardLink, SwapFolder
<1>10. CASE UNCHANGED vars
  BY <1>10 DEF vars
<1> QED
  BY <1>1, <1>2, <1>3, <1>4, <1>5, <1>6, <1>7, <1>8, <1>9, <1>10, Steps DEF Copies, Publishes

\* The read itself is not interrupted, the path and the descriptor are.
LEMMA StepReadHeld ==
  ASSUME WindowsClosed, TypeOK, Seated, Planned, Blanks, ReadHeld, [Next]_vars
  PROVE  ReadHeld'
<1> USE DEF ReadHeld, Has, Exists, RowPoints
<1>1. ASSUME Prepares PROVE ReadHeld'
  <2>1. ASSUME Plan PROVE ReadHeld'
    BY <2>1 DEF Plan
  <2>2. ASSUME NEW f \in Files, ProveRow(f) PROVE ReadHeld'
    BY <2>2 DEF ProveRow
  <2>3. ASSUME RecheckRoots PROVE ReadHeld'
    BY <2>3 DEF RecheckRoots
  <2>4. ASSUME NEW m \in {"move", "copy"}, Confirm(m) PROVE ReadHeld'
    BY <2>4 DEF Confirm
  <2>5. ASSUME Decline PROVE ReadHeld'
    BY <2>5 DEF Decline
  <2>6. ASSUME Cancel PROVE ReadHeld'
    BY <2>6, SameNames, Volume DEF Cancel
  <2> QED
    BY <1>1, <2>1, <2>2, <2>3, <2>4, <2>5, <2>6 DEF Prepares
<1>2. ASSUME Reads PROVE ReadHeld'
  <2>1. ASSUME NEW f \in Files, TakeRow(f) PROVE ReadHeld'
    BY <2>1 DEF TakeRow
  <2>2. ASSUME ReadSource PROVE ReadHeld'
    BY <2>2, ReadEffect, Volume, SameNames, RowPlaces
  <2>3. ASSUME StatSource PROVE ReadHeld'
    BY <2>3, StatEffect, Volume
  <2>4. ASSUME CheckDigest PROVE ReadHeld'
    BY <2>4 DEF CheckDigest
  <2>5. ASSUME SameThere PROVE ReadHeld'
    BY <2>5 DEF SameThere
  <2>6. ASSUME NotThere PROVE ReadHeld'
    BY <2>6 DEF NotThere
  <2> QED
    BY <1>2, <2>1, <2>2, <2>3, <2>4, <2>5, <2>6 DEF Reads
<1>3. ASSUME Copies PROVE ReadHeld'
  <2>1. ASSUME MakeTemp PROVE ReadHeld'
    BY <2>1, TempEffect, Volume
  <2>6. ASSUME NotProven PROVE ReadHeld'
    BY <2>6, NotProvenEffect, Volume, RowPlaces
  <2>2. ASSUME CopyContent PROVE ReadHeld'
    BY <2>2 DEF CopyContent
  <2>3. ASSUME Restat PROVE ReadHeld'
    BY <2>3 DEF Restat
  <2>4. ASSUME NameTaken PROVE ReadHeld'
    BY <2>4 DEF NameTaken
  <2>5. ASSUME NextSuffix PROVE ReadHeld'
    BY <2>5 DEF NextSuffix
  <2> QED
    BY <1>3, <2>1, <2>2, <2>3, <2>4, <2>5, <2>6 DEF Copies
<1>4. ASSUME Publishes PROVE ReadHeld'
  <2>1. ASSUME Link PROVE ReadHeld'
    BY <2>1, LinkEffect, Volume
  <2>2. ASSUME Reserve PROVE ReadHeld'
    BY <2>2, ReserveEffect, Volume
  <2>3. ASSUME UnlinkSource PROVE ReadHeld'
    BY <2>3 DEF UnlinkSource
  <2>4. ASSUME RenameOver PROVE ReadHeld'
    BY <2>4, RenameEffect, Volume
  <2> QED
    BY <1>4, <2>1, <2>2, <2>3, <2>4 DEF Publishes
<1>5. ASSUME Stops PROVE ReadHeld'
  <2>1. ASSUME RowFails PROVE ReadHeld'
    BY <2>1 DEF RowFails
  <2>2. ASSUME StopRow PROVE ReadHeld'
    BY <2>2 DEF StopRow
  <2>3. ASSUME RowsDone PROVE ReadHeld'
    BY <2>3 DEF RowsDone
  <2> QED
    BY <1>5, <2>1, <2>2, <2>3 DEF Stops
<1>6. ASSUME Trashes PROVE ReadHeld'
  <2>1. ASSUME AgreeToTrash PROVE ReadHeld'
    BY <2>1 DEF AgreeToTrash
  <2>2. ASSUME SnapshotBefore PROVE ReadHeld'
    BY <2>2 DEF SnapshotBefore
  <2>3. ASSUME NEW nm \in Names, ProveFile(nm) PROVE ReadHeld'
    BY <2>3 DEF ProveFile
  <2>4. ASSUME SnapshotAfter PROVE ReadHeld'
    BY <2>4 DEF SnapshotAfter
  <2>5. ASSUME Send PROVE ReadHeld'
    BY <2>5 DEF Send
  <2> QED
    BY <1>6, <2>1, <2>2, <2>3, <2>4, <2>5 DEF Trashes
<1>7. ASSUME Machine PROVE ReadHeld'
  <2>1. ASSUME pc' = "read" PROVE ReadHeld'
    <3>1. MachineKeeps /\ pc = "read"
      BY <1>7, <2>1, MachineStep DEF MachineKeeps
    <3>2. row.file \in Files
      BY Volume
    <3> QED
      BY <1>7, <3>1, <3>2, SourceStill DEF MachineKeeps
  <2> QED
    BY <2>1
<1>8. CASE UNCHANGED vars
  BY <1>8, SameNames, Volume DEF vars
<1> QED
  BY <1>1, <1>2, <1>3, <1>4, <1>5, <1>6, <1>7, <1>8, Steps

\* What changes the inode that was proven raises its stamp.
LEMMA StepStamped ==
  ASSUME WindowsClosed, TypeOK, Seated, Planned, Blanks, ReadHeld, Stamped,
         [Next]_vars
  PROVE  Stamped'
<1> USE DEF Stamped, AfterRead, RowPoints
<1>1. ASSUME Prepares PROVE Stamped'
  <2>1. ASSUME Plan PROVE Stamped'
    BY <2>1 DEF Plan
  <2>2. ASSUME NEW f \in Files, ProveRow(f) PROVE Stamped'
    BY <2>2 DEF ProveRow
  <2>3. ASSUME RecheckRoots PROVE Stamped'
    BY <2>3 DEF RecheckRoots
  <2>4. ASSUME NEW m \in {"move", "copy"}, Confirm(m) PROVE Stamped'
    BY <2>4 DEF Confirm
  <2>5. ASSUME Decline PROVE Stamped'
    BY <2>5 DEF Decline
  <2>6. ASSUME Cancel PROVE Stamped'
    <3> SUFFICES ASSUME pc \in AfterRead \ {"read"} PROVE Stamped'
      BY <2>6 DEF Cancel
    <3>1. row.id.ino \in Inodes /\ stamp[row.id.ino] \in Nat
      BY Volume
    <3> QED
      BY <2>6, <3>1, StampKept DEF ProvenKept, Cancel
  <2> QED
    BY <1>1, <2>1, <2>2, <2>3, <2>4, <2>5, <2>6 DEF Prepares
<1>2. ASSUME Reads PROVE Stamped'
  <2>1. ASSUME NEW f \in Files, TakeRow(f) PROVE Stamped'
    BY <2>1 DEF TakeRow
  <2>2. ASSUME ReadSource PROVE Stamped'
    BY <2>2, ReadEffect, IdType, Volume, SameNames, RowPlaces DEF Has, Exists, IsLink
  <2>3. ASSUME StatSource PROVE Stamped'
    <3>1. CASE pc' = "rows"
      BY <3>1
    <3>2. CASE pc' # "rows"
      <4> DEFINE e == Src(row.file)
                 p == Pinned(row.file)
      <4>1. /\ pc = "read" /\ UNCHANGED <<disk, content, stamp, at, roots>>
            /\ Exists(e) /\ row'.file = row.file /\ row'.digest = row.digest
            /\ row'.id = Id(e)
        BY <2>3, <3>2, StatEffect
      <4>2. e \in Entries /\ p \in Entries /\ p' = p
        BY <4>1, RowPlaces, SameNames
      <4>3. /\ row'.id.ino = disk[e] /\ row'.id.stamp = stamp[disk[e]]
            /\ disk[e] # Absent /\ stamp[disk[e]] \in Nat
        BY <4>1, <4>2, IdType, Volume DEF Exists
      <4>4. \/ content[disk[e]] = row.digest
            \/ disk[p] # disk[e] /\ at["source"] # roots["source"]
        BY <4>1, <4>3 DEF ReadHeld, Has, Exists, Pinned, Src
      <4>5. row'.id.ino # Absent /\ row'.id.stamp <= stamp'[row'.id.ino]
        BY <4>1, <4>3
      <4>6. CASE content[disk[e]] = row.digest
        <5>1. content'[row'.id.ino] = row'.digest
          BY <4>1, <4>3, <4>6
        <5> QED
          BY <4>5, <5>1
      <4>7. CASE disk[p] # disk[e] /\ at["source"] # roots["source"]
        <5>1. disk'[p'] # row'.id.ino /\ at'["source"] # roots'["source"]
          BY <4>1, <4>2, <4>3, <4>7
        <5>2. Pinned(row.file)' = p'
          BY <4>1
        <5> QED
          BY <4>5, <5>1, <5>2
      <4> QED
        BY <4>4, <4>6, <4>7
    <3> QED
      BY <3>1, <3>2
  <2>4. ASSUME CheckDigest PROVE Stamped'
    <3>1. CASE pc' = "rows"
      BY <3>1
    <3>2. CASE pc' # "rows"
      <4>1. pc \in AfterRead \ {"read"} /\ UNCHANGED <<at, roots>> /\ row'.file = row.file
            /\ row'.id = row.id /\ row'.digest = row.digest
        BY <2>4, <3>2 DEF CheckDigest
      <4>2. row.id.ino \in Inodes
        BY <4>1, Volume
      <4>3. ProvenKept
        BY <2>4, <3>2, <4>2, Volume DEF ProvenKept, CheckDigest
      <4> QED
        BY <4>1, <4>3, StampKept
    <3> QED
      BY <3>1, <3>2
  <2>5. ASSUME SameThere PROVE Stamped'
    BY <2>5 DEF SameThere
  <2>6. ASSUME NotThere PROVE Stamped'
    <3>1. CASE pc' = "rows"
      BY <3>1
    <3>2. CASE pc' # "rows"
      <4>1. pc \in AfterRead \ {"read"} /\ UNCHANGED <<at, roots>> /\ row'.file = row.file
            /\ row'.id = row.id /\ row'.digest = row.digest
        BY <2>6, <3>2 DEF NotThere
      <4>2. row.id.ino \in Inodes
        BY <4>1, Volume
      <4>3. ProvenKept
        BY <2>6, <3>2, <4>2, Volume DEF ProvenKept, NotThere
      <4> QED
        BY <4>1, <4>3, StampKept
    <3> QED
      BY <3>1, <3>2
  <2> QED
    BY <1>2, <2>1, <2>2, <2>3, <2>4, <2>5, <2>6 DEF Reads
<1>3. ASSUME Copies PROVE Stamped'
  <2>1. ASSUME MakeTemp PROVE Stamped'
    <3>1. CASE pc' = "rows"
      BY <3>1
    <3>2. CASE pc' # "rows"
      <4>1. pc \in AfterRead \ {"read"} /\ UNCHANGED <<at, roots>> /\ row'.file = row.file
            /\ row'.id = row.id /\ row'.digest = row.digest
        BY <2>1, <3>2, TempEffect
      <4>2. row.id.ino \in Inodes
        BY <4>1, Volume
      <4>3. ProvenKept
        BY <2>1, <3>2, <4>2, Volume, TempEffect, RowPlaces DEF ProvenKept
      <4> QED
        BY <4>1, <4>3, StampKept
    <3> QED
      BY <3>1, <3>2
  <2>6. ASSUME NotProven PROVE Stamped'
    BY <2>6, NotProvenEffect, Volume, RowPlaces
  <2>2. ASSUME CopyContent PROVE Stamped'
    <3>1. CASE pc' = "rows"
      BY <3>1
    <3>2. CASE pc' # "rows"
      <4>1. pc \in AfterRead \ {"read"} /\ UNCHANGED <<at, roots>> /\ row'.file = row.file
            /\ row'.id = row.id /\ row'.digest = row.digest
        BY <2>2, <3>2 DEF CopyContent
      <4>2. row.id.ino \in Inodes
        BY <4>1, Volume
      <4>3. ProvenKept
        BY <2>2, <3>2, <4>2, Volume DEF ProvenKept, CopyContent
      <4> QED
        BY <4>1, <4>3, StampKept
    <3> QED
      BY <3>1, <3>2
  <2>3. ASSUME Restat PROVE Stamped'
    <3>1. CASE pc' = "rows"
      BY <3>1
    <3>2. CASE pc' # "rows"
      <4>1. pc \in AfterRead \ {"read"} /\ UNCHANGED <<at, roots>> /\ row'.file = row.file
            /\ row'.id = row.id /\ row'.digest = row.digest
        BY <2>3, <3>2 DEF Restat
      <4>2. row.id.ino \in Inodes
        BY <4>1, Volume
      <4>3. ProvenKept
        BY <2>3, <3>2, <4>2, Volume DEF ProvenKept, Restat
      <4> QED
        BY <4>1, <4>3, StampKept
    <3> QED
      BY <3>1, <3>2
  <2>4. ASSUME NameTaken PROVE Stamped'
    <3>1. CASE pc' = "rows"
      BY <3>1
    <3>2. CASE pc' # "rows"
      <4>1. pc \in AfterRead \ {"read"} /\ UNCHANGED <<at, roots>> /\ row'.file = row.file
            /\ row'.id = row.id /\ row'.digest = row.digest
        BY <2>4, <3>2 DEF NameTaken
      <4>2. row.id.ino \in Inodes
        BY <4>1, Volume
      <4>3. ProvenKept
        BY <2>4, <3>2, <4>2, Volume DEF ProvenKept, NameTaken
      <4> QED
        BY <4>1, <4>3, StampKept
    <3> QED
      BY <3>1, <3>2
  <2>5. ASSUME NextSuffix PROVE Stamped'
    <3>1. CASE pc' = "rows"
      BY <3>1
    <3>2. CASE pc' # "rows"
      <4>1. pc \in AfterRead \ {"read"} /\ UNCHANGED <<at, roots>> /\ row'.file = row.file
            /\ row'.id = row.id /\ row'.digest = row.digest
        BY <2>5, <3>2, Volume DEF NextSuffix, Row
      <4>2. row.id.ino \in Inodes
        BY <4>1, Volume
      <4>3. ProvenKept
        BY <2>5, <3>2, <4>2, Volume DEF ProvenKept, NextSuffix
      <4> QED
        BY <4>1, <4>3, StampKept
    <3> QED
      BY <3>1, <3>2
  <2> QED
    BY <1>3, <2>1, <2>2, <2>3, <2>4, <2>5, <2>6 DEF Copies
<1>4. ASSUME Publishes PROVE Stamped'
  <2>1. ASSUME Link PROVE Stamped'
    <3>1. CASE pc' = "rows"
      BY <3>1
    <3>2. CASE pc' # "rows"
      <4>1. pc \in AfterRead \ {"read"} /\ UNCHANGED <<at, roots>> /\ row'.file = row.file
            /\ row'.id = row.id /\ row'.digest = row.digest
        BY <2>1, <3>2, LinkEffect
      <4>2. row.id.ino \in Inodes
        BY <4>1, Volume
      <4>3. ProvenKept
        BY <2>1, <3>2, <4>2, Volume, LinkEffect, RowPlaces DEF ProvenKept
      <4> QED
        BY <4>1, <4>3, StampKept
    <3> QED
      BY <3>1, <3>2
  <2>2. ASSUME Reserve PROVE Stamped'
    <3>1. CASE pc' = "rows"
      BY <3>1
    <3>2. CASE pc' # "rows"
      <4>1. pc \in AfterRead \ {"read"} /\ UNCHANGED <<at, roots>> /\ row'.file = row.file
            /\ row'.id = row.id /\ row'.digest = row.digest
        BY <2>2, <3>2, ReserveEffect
      <4>2. row.id.ino \in Inodes
        BY <4>1, Volume
      <4>3. PICK i \in Inodes : /\ \A e \in Entries : disk[e] # i
                                /\ disk' = [disk EXCEPT ![Target] = i]
                                /\ stamp' = [stamp EXCEPT ![i] = stamp[i] + 1]
                                /\ content' = [content EXCEPT ![i] = Blank]
        BY <2>2, ReserveEffect
      <4>4. ProvenKept
        BY <4>2, <4>3, Volume, RowPlaces DEF ProvenKept
      <4> QED
        BY <4>1, <4>4, StampKept
    <3> QED
      BY <3>1, <3>2
  <2>3. ASSUME UnlinkSource PROVE Stamped'
    BY <2>3 DEF UnlinkSource
  <2>4. ASSUME RenameOver PROVE Stamped'
    BY <2>4 DEF RenameOver
  <2> QED
    BY <1>4, <2>1, <2>2, <2>3, <2>4 DEF Publishes
<1>5. ASSUME Stops PROVE Stamped'
  <2>1. ASSUME RowFails PROVE Stamped'
    BY <2>1 DEF RowFails
  <2>2. ASSUME StopRow PROVE Stamped'
    BY <2>2 DEF StopRow
  <2>3. ASSUME RowsDone PROVE Stamped'
    BY <2>3 DEF RowsDone
  <2> QED
    BY <1>5, <2>1, <2>2, <2>3 DEF Stops
<1>6. ASSUME Trashes PROVE Stamped'
  <2>1. ASSUME AgreeToTrash PROVE Stamped'
    BY <2>1 DEF AgreeToTrash
  <2>2. ASSUME SnapshotBefore PROVE Stamped'
    BY <2>2 DEF SnapshotBefore
  <2>3. ASSUME NEW nm \in Names, ProveFile(nm) PROVE Stamped'
    BY <2>3 DEF ProveFile
  <2>4. ASSUME SnapshotAfter PROVE Stamped'
    BY <2>4 DEF SnapshotAfter
  <2>5. ASSUME Send PROVE Stamped'
    BY <2>5 DEF Send
  <2> QED
    BY <1>6, <2>1, <2>2, <2>3, <2>4, <2>5 DEF Trashes
<1>7. ASSUME Machine PROVE Stamped'
  <2>1. ASSUME NEW s \in Sides, NEW nm \in Names, NEW c \in Contents, EditInPlace(s, nm, c) PROVE Stamped'
    <3>1. MachineKeeps /\ UNCHANGED at
      BY <2>1, EditEffect
    <3>2. SUFFICES ASSUME pc \in AfterRead \ {"read"} PROVE Stamped'
      BY <3>1 DEF MachineKeeps
    <3>3. row.id.ino \in Inodes
      BY <3>2, Volume
    <3>4. ProvenKept
      <4>1. PICK i \in Inodes : /\ content' = [content EXCEPT ![i] = c]
                                  /\ stamp' = [stamp EXCEPT ![i] = stamp[i] + 1]
        BY <2>1, EditEffect
      <4>2. UNCHANGED disk
        BY <2>1, EditEffect
      <4>3. CASE row.id.ino = i
        BY <3>3, <4>1, <4>3, Volume DEF ProvenKept
      <4>4. CASE row.id.ino # i
        BY <3>3, <4>1, <4>2, <4>4, Volume DEF ProvenKept
      <4> QED
        BY <4>3, <4>4
    <3> QED
      BY <3>1, <3>2, <3>4, StampKept DEF MachineKeeps
  <2>2. ASSUME NEW s \in Sides, NEW nm \in Names, NEW c \in Contents, SaveOver(s, nm, c) PROVE Stamped'
    <3>1. MachineKeeps /\ UNCHANGED at
      BY <2>2, SaveEffect
    <3>2. SUFFICES ASSUME pc \in AfterRead \ {"read"} PROVE Stamped'
      BY <3>1 DEF MachineKeeps
    <3>3. row.id.ino \in Inodes
      BY <3>2, Volume
    <3>4. ProvenKept
      <4>1. PICK i \in Inodes, e \in Entries :
              /\ disk' = [disk EXCEPT ![e] = i]
              /\ content' = [content EXCEPT ![i] = c]
              /\ stamp' = [stamp EXCEPT ![i] = stamp[i] + 1]
        BY <2>2, SaveEffect
      <4>2. Pinned(row.file) \in Entries
        BY RowPlaces
      <4>3. CASE row.id.ino = i
        BY <3>3, <4>1, <4>3, Volume DEF ProvenKept
      <4>4. CASE row.id.ino # i
        BY <3>3, <4>1, <4>2, <4>4, Volume DEF ProvenKept
      <4> QED
        BY <4>3, <4>4
    <3> QED
      BY <3>1, <3>2, <3>4, StampKept DEF MachineKeeps
  <2>3. ASSUME NEW s \in Sides, NEW nm \in Names, Delete(s, nm) PROVE Stamped'
    <3>1. MachineKeeps /\ UNCHANGED at
      BY <2>3, DeleteEffect
    <3>2. SUFFICES ASSUME pc \in AfterRead \ {"read"} PROVE Stamped'
      BY <3>1 DEF MachineKeeps
    <3>3. row.id.ino \in Inodes
      BY <3>2, Volume
    <3>4. ProvenKept
      BY <2>3, <3>3, Volume, DeleteEffect, RowPlaces DEF ProvenKept
    <3> QED
      BY <3>1, <3>2, <3>4, StampKept DEF MachineKeeps
  <2>4. ASSUME NEW s \in Sides, NEW nm \in Names, NEW o \in Entries, HardLink(s, nm, o) PROVE Stamped'
    <3>1. MachineKeeps /\ UNCHANGED at
      BY <2>4, HardLinkEffect
    <3>2. SUFFICES ASSUME pc \in AfterRead \ {"read"} PROVE Stamped'
      BY <3>1 DEF MachineKeeps
    <3>3. row.id.ino \in Inodes
      BY <3>2, Volume
    <3>4. ProvenKept
      <4>1. PICK i \in Inodes, e \in Entries :
              /\ disk' = [disk EXCEPT ![e] = i]
              /\ stamp' = [stamp EXCEPT ![i] = stamp[i] + 1]
        BY <2>4, HardLinkEffect
      <4>2. UNCHANGED content /\ Pinned(row.file) \in Entries
        BY <2>4, HardLinkEffect, RowPlaces
      <4>3. CASE row.id.ino = i
        BY <3>3, <4>1, <4>3, Volume DEF ProvenKept
      <4>4. CASE row.id.ino # i
        BY <3>3, <4>1, <4>2, <4>4, Volume DEF ProvenKept
      <4> QED
        BY <4>3, <4>4
    <3> QED
      BY <3>1, <3>2, <3>4, StampKept DEF MachineKeeps
  <2>5. ASSUME NEW s \in Sides, SwapFolder(s) PROVE Stamped'
    <3>1. MachineKeeps /\ UNCHANGED <<disk, content, stamp>> /\ at["source"] = "A"
      BY <2>5, SwapEffect
    <3>2. Pinned(row.file)' = Pinned(row.file) /\ at["source"] = roots["source"]
      BY <3>1, SameNames, Volume DEF MachineKeeps, Seated
    <3> QED
      BY <3>1, <3>2 DEF MachineKeeps
  <2> QED
    BY <1>7, <2>1, <2>2, <2>3, <2>4, <2>5 DEF Machine
<1>8. CASE UNCHANGED vars
  BY <1>8, SameNames, Volume DEF vars
<1> QED
  BY <1>1, <1>2, <1>3, <1>4, <1>5, <1>6, <1>7, <1>8, Steps

\* Nobody acts in the source between the last look at it and its second name.
LEMMA StepProven ==
  ASSUME WindowsClosed, TypeOK, Seated, Planned, Blanks, Stamped, Proven,
         [Next]_vars
  PROVE  Proven'
<1> USE DEF Proven, Has, Exists, RowPoints, Published
<1>1. ASSUME Prepares PROVE Proven'
  <2>1. ASSUME Plan PROVE Proven'
    BY <2>1 DEF Plan
  <2>2. ASSUME NEW f \in Files, ProveRow(f) PROVE Proven'
    BY <2>2 DEF ProveRow
  <2>3. ASSUME RecheckRoots PROVE Proven'
    BY <2>3 DEF RecheckRoots
  <2>4. ASSUME NEW m \in {"move", "copy"}, Confirm(m) PROVE Proven'
    BY <2>4 DEF Confirm
  <2>5. ASSUME Decline PROVE Proven'
    BY <2>5 DEF Decline
  <2>6. ASSUME Cancel PROVE Proven'
    BY <2>6, SameNames, Volume DEF Cancel
  <2> QED
    BY <1>1, <2>1, <2>2, <2>3, <2>4, <2>5, <2>6 DEF Prepares
<1>2. ASSUME Reads PROVE Proven'
  <2>1. ASSUME NEW f \in Files, TakeRow(f) PROVE Proven'
    BY <2>1 DEF TakeRow
  <2>2. ASSUME ReadSource PROVE Proven'
    BY <2>2 DEF ReadSource
  <2>3. ASSUME StatSource PROVE Proven'
    BY <2>3 DEF StatSource
  <2>4. ASSUME CheckDigest PROVE Proven'
    BY <2>4 DEF CheckDigest
  <2>5. ASSUME SameThere PROVE Proven'
    BY <2>5 DEF SameThere
  <2>6. ASSUME NotThere PROVE Proven'
    BY <2>6 DEF NotThere
  <2> QED
    BY <1>2, <2>1, <2>2, <2>3, <2>4, <2>5, <2>6 DEF Reads
<1>3. ASSUME Copies PROVE Proven'
  <2>1. ASSUME MakeTemp PROVE Proven'
    BY <2>1 DEF MakeTemp
  <2>6. ASSUME NotProven PROVE Proven'
    BY <2>6, NotProvenEffect, Volume, RowPlaces
  <2>2. ASSUME CopyContent PROVE Proven'
    BY <2>2 DEF CopyContent
  <2>3. ASSUME Restat PROVE Proven'
    <3> DEFINE e == Pinned(row.file)
    <3>1. e \in Entries
      BY RowPlaces
    <3>2. UNCHANGED <<disk, content, roots, mode>>
      BY <2>3 DEF Restat
    <3>3. CASE pc' = "rows"
      BY <3>3
    <3>4. CASE pc' # "rows" /\ mode = "move"
      <4>1. Exists(e) /\ Id(e) = row.id /\ UNCHANGED row /\ pc = "publish" /\ pc' = "checked"
        BY <2>3, <3>4 DEF Restat
      <4>2. disk[e] = row.id.ino /\ stamp[disk[e]] = row.id.stamp
        BY <3>1, <4>1, IdType
      <4>3. content[row.id.ino] = row.digest
        BY <4>1, <4>2, Volume DEF Stamped, AfterRead, RowPoints
      <4> QED
        BY <3>1, <3>2, <4>1, <4>2, <4>3, SameNames, Volume
    <3>5. CASE pc' # "rows" /\ mode # "move"
      BY <2>3, <3>2, <3>5 DEF Restat
    <3> QED
      BY <3>3, <3>4, <3>5
  <2>4. ASSUME NameTaken PROVE Proven'
    BY <2>4 DEF NameTaken
  <2>5. ASSUME NextSuffix PROVE Proven'
    BY <2>5 DEF NextSuffix
  <2> QED
    BY <1>3, <2>1, <2>2, <2>3, <2>4, <2>5, <2>6 DEF Copies
<1>4. ASSUME Publishes PROVE Proven'
  <2>1. ASSUME Link PROVE Proven'
    BY <2>1, LinkEffect, Volume, SameNames, RowPlaces DEF Published
  <2>2. ASSUME Reserve PROVE Proven'
    BY <2>2, ReserveEffect, Volume, SameNames, RowPlaces
  <2>3. ASSUME UnlinkSource PROVE Proven'
    BY <2>3 DEF UnlinkSource
  <2>4. ASSUME RenameOver PROVE Proven'
    BY <2>4 DEF RenameOver
  <2> QED
    BY <1>4, <2>1, <2>2, <2>3, <2>4 DEF Publishes
<1>5. ASSUME Stops PROVE Proven'
  <2>1. ASSUME RowFails PROVE Proven'
    BY <2>1 DEF RowFails
  <2>2. ASSUME StopRow PROVE Proven'
    BY <2>2 DEF StopRow
  <2>3. ASSUME RowsDone PROVE Proven'
    BY <2>3 DEF RowsDone
  <2> QED
    BY <1>5, <2>1, <2>2, <2>3 DEF Stops
<1>6. ASSUME Trashes PROVE Proven'
  <2>1. ASSUME AgreeToTrash PROVE Proven'
    BY <2>1 DEF AgreeToTrash
  <2>2. ASSUME SnapshotBefore PROVE Proven'
    BY <2>2 DEF SnapshotBefore
  <2>3. ASSUME NEW nm \in Names, ProveFile(nm) PROVE Proven'
    BY <2>3 DEF ProveFile
  <2>4. ASSUME SnapshotAfter PROVE Proven'
    BY <2>4 DEF SnapshotAfter
  <2>5. ASSUME Send PROVE Proven'
    BY <2>5 DEF Send
  <2> QED
    BY <1>6, <2>1, <2>2, <2>3, <2>4, <2>5 DEF Trashes
<1>7. ASSUME Machine PROVE Proven'
  <2>1. MachineKeeps
    BY <1>7, MachineStep
  <2>2. CASE pc = "checked" /\ mode = "move"
    <3>1. row.file \in Files
      BY Volume
    <3> QED
      BY <1>7, <2>1, <2>2, <3>1, SourceStill DEF MachineKeeps
  <2>3. CASE pc \in {"linked", "stub"}
    <3>1. UNCHANGED <<disk, content, roots, mode, row, temp, pc>>
      BY <1>7, <2>1, <2>3, MachineStep DEF MachineKeeps
    <3> QED
      BY <3>1, SameNames, Volume
  <2>4. CASE ~(pc = "checked" /\ mode = "move") /\ pc \notin {"linked", "stub"}
    BY <2>1, <2>4 DEF MachineKeeps
  <2> QED
    BY <2>2, <2>3, <2>4
<1>8. CASE UNCHANGED vars
  BY <1>8, SameNames, Volume DEF vars
<1> QED
  BY <1>1, <1>2, <1>3, <1>4, <1>5, <1>6, <1>7, <1>8, Steps

\* A row that ends well names its entry.
LEMMA StepNamed ==
  ASSUME TypeOK, Seated, Planned, Blanks, Named, [Next]_vars
  PROVE  Named'
<1> USE DEF TypeOK, Named, Planned, RowPoints
<1>1. ASSUME Prepares PROVE Named'
  <2>1. ASSUME Plan PROVE Named'
    BY <2>1 DEF Plan
  <2>2. ASSUME NEW f \in Files, ProveRow(f) PROVE Named'
    BY <2>2 DEF ProveRow
  <2>3. ASSUME RecheckRoots PROVE Named'
    BY <2>3 DEF RecheckRoots
  <2>4. ASSUME NEW m \in {"move", "copy"}, Confirm(m) PROVE Named'
    BY <2>4 DEF Confirm
  <2>5. ASSUME Decline PROVE Named'
    BY <2>5 DEF Decline
  <2>6. ASSUME Cancel PROVE Named'
    BY <2>6 DEF Cancel
  <2> QED
    BY <1>1, <2>1, <2>2, <2>3, <2>4, <2>5, <2>6 DEF Prepares
<1>2. ASSUME Reads PROVE Named'
  <2>1. ASSUME NEW f \in Files, TakeRow(f) PROVE Named'
    BY <2>1, RowPlaces, Volume DEF TakeRow
  <2>2. ASSUME ReadSource PROVE Named'
    BY <2>2, ReadEffect, Volume
  <2>3. ASSUME StatSource PROVE Named'
    <3>1. \/ UNCHANGED <<outcome, dest>>
          \/ /\ outcome' = [outcome EXCEPT ![row.file] = "failed"]
             /\ dest' = [dest EXCEPT ![row.file] = NoEntry]
      BY <2>3 DEF StatSource
    <3> QED
      BY <3>1, Volume
  <2>4. ASSUME CheckDigest PROVE Named'
    BY <2>4, RowPlaces, Volume DEF CheckDigest
  <2>5. ASSUME SameThere PROVE Named'
    BY <2>5, RowPlaces, Volume DEF SameThere
  <2>6. ASSUME NotThere PROVE Named'
    BY <2>6 DEF NotThere
  <2> QED
    BY <1>2, <2>1, <2>2, <2>3, <2>4, <2>5, <2>6 DEF Reads
<1>3. ASSUME Copies PROVE Named'
  <2>1. ASSUME MakeTemp PROVE Named'
    <3>1. \/ UNCHANGED <<outcome, dest>>
          \/ /\ outcome' = [outcome EXCEPT ![row.file] = "failed"]
             /\ dest' = [dest EXCEPT ![row.file] = NoEntry]
      BY <2>1 DEF MakeTemp
    <3> QED
      BY <3>1, Volume
  <2>6. ASSUME NotProven PROVE Named'
    BY <2>6, RowPlaces, Volume DEF NotProven
  <2>2. ASSUME CopyContent PROVE Named'
    <3>1. \/ UNCHANGED <<outcome, dest>>
          \/ /\ outcome' = [outcome EXCEPT ![row.file] = "failed"]
             /\ dest' = [dest EXCEPT ![row.file] = NoEntry]
      BY <2>2 DEF CopyContent
    <3> QED
      BY <3>1, Volume
  <2>3. ASSUME Restat PROVE Named'
    <3>1. \/ UNCHANGED <<outcome, dest>>
          \/ /\ outcome' = [outcome EXCEPT ![row.file] = "failed"]
             /\ dest' = [dest EXCEPT ![row.file] = NoEntry]
      BY <2>3 DEF Restat
    <3> QED
      BY <3>1, Volume
  <2>4. ASSUME NameTaken PROVE Named'
    BY <2>4 DEF NameTaken
  <2>5. ASSUME NextSuffix PROVE Named'
    BY <2>5 DEF NextSuffix
  <2> QED
    BY <1>3, <2>1, <2>2, <2>3, <2>4, <2>5, <2>6 DEF Copies
<1>4. ASSUME Publishes PROVE Named'
  <2>1. ASSUME Link PROVE Named'
    BY <2>1 DEF Link
  <2>2. ASSUME Reserve PROVE Named'
    BY <2>2 DEF Reserve
  <2>3. ASSUME UnlinkSource PROVE Named'
    BY <2>3, RowPlaces, Volume DEF UnlinkSource
  <2>4. ASSUME RenameOver PROVE Named'
    <3>1. /\ outcome' = [outcome EXCEPT ![row.file] = "moved"]
          /\ dest' = [dest EXCEPT ![row.file] = Target]
      BY <2>4, RenameEffect
    <3> QED
      BY <3>1, Volume, RowPlaces
  <2> QED
    BY <1>4, <2>1, <2>2, <2>3, <2>4 DEF Publishes
<1>5. ASSUME Stops PROVE Named'
  <2>1. ASSUME RowFails PROVE Named'
    BY <2>1, RowPlaces, Volume DEF RowFails
  <2>2. ASSUME StopRow PROVE Named'
    BY <2>2, RowPlaces, Volume DEF StopRow
  <2>3. ASSUME RowsDone PROVE Named'
    BY <2>3 DEF RowsDone
  <2> QED
    BY <1>5, <2>1, <2>2, <2>3 DEF Stops
<1>6. ASSUME Trashes PROVE Named'
  <2>1. ASSUME AgreeToTrash PROVE Named'
    BY <2>1 DEF AgreeToTrash
  <2>2. ASSUME SnapshotBefore PROVE Named'
    BY <2>2 DEF SnapshotBefore
  <2>3. ASSUME NEW nm \in Names, ProveFile(nm) PROVE Named'
    BY <2>3 DEF ProveFile
  <2>4. ASSUME SnapshotAfter PROVE Named'
    BY <2>4 DEF SnapshotAfter
  <2>5. ASSUME Send PROVE Named'
    BY <2>5 DEF Send
  <2> QED
    BY <1>6, <2>1, <2>2, <2>3, <2>4, <2>5 DEF Trashes
<1>7. ASSUME Machine PROVE Named'
  <2>1. ASSUME NEW s \in Sides, NEW nm \in Names, NEW c \in Contents, EditInPlace(s, nm, c) PROVE Named'
    BY <2>1 DEF EditInPlace
  <2>2. ASSUME NEW s \in Sides, NEW nm \in Names, NEW c \in Contents, SaveOver(s, nm, c) PROVE Named'
    BY <2>2 DEF SaveOver
  <2>3. ASSUME NEW s \in Sides, NEW nm \in Names, Delete(s, nm) PROVE Named'
    BY <2>3 DEF Delete
  <2>4. ASSUME NEW s \in Sides, NEW nm \in Names, NEW o \in Entries, HardLink(s, nm, o) PROVE Named'
    BY <2>4 DEF HardLink
  <2>5. ASSUME NEW s \in Sides, SwapFolder(s) PROVE Named'
    BY <2>5 DEF SwapFolder
  <2> QED
    BY <1>7, <2>1, <2>2, <2>3, <2>4, <2>5 DEF Machine
<1>8. CASE UNCHANGED vars
  BY <1>8 DEF vars
<1> QED
  BY <1>1, <1>2, <1>3, <1>4, <1>5, <1>6, <1>7, <1>8, Steps

\* A change in the folder moves its times or a stamp in it.
LEMMA StepBracketed ==
  ASSUME WindowsClosed, TypeOK, Seated, Bracketed, [Next]_vars
  PROVE  Bracketed'
<1> USE DEF Bracketed
<1>1. ASSUME Prepares PROVE Bracketed'
  <2>1. ASSUME Plan PROVE Bracketed'
    BY <2>1 DEF Plan
  <2>2. ASSUME NEW f \in Files, ProveRow(f) PROVE Bracketed'
    BY <2>2 DEF ProveRow
  <2>3. ASSUME RecheckRoots PROVE Bracketed'
    BY <2>3 DEF RecheckRoots
  <2>4. ASSUME NEW m \in {"move", "copy"}, Confirm(m) PROVE Bracketed'
    BY <2>4 DEF Confirm
  <2>5. ASSUME Decline PROVE Bracketed'
    BY <2>5 DEF Decline
  <2>6. ASSUME Cancel PROVE Bracketed'
    BY <2>6, SameIds DEF Cancel
  <2> QED
    BY <1>1, <2>1, <2>2, <2>3, <2>4, <2>5, <2>6 DEF Prepares
<1>2. ASSUME Reads PROVE Bracketed'
  <2>1. ASSUME NEW f \in Files, TakeRow(f) PROVE Bracketed'
    BY <2>1 DEF TakeRow
  <2>2. ASSUME ReadSource PROVE Bracketed'
    BY <2>2 DEF ReadSource
  <2>3. ASSUME StatSource PROVE Bracketed'
    BY <2>3 DEF StatSource
  <2>4. ASSUME CheckDigest PROVE Bracketed'
    BY <2>4 DEF CheckDigest
  <2>5. ASSUME SameThere PROVE Bracketed'
    BY <2>5 DEF SameThere
  <2>6. ASSUME NotThere PROVE Bracketed'
    BY <2>6 DEF NotThere
  <2> QED
    BY <1>2, <2>1, <2>2, <2>3, <2>4, <2>5, <2>6 DEF Reads
<1>3. ASSUME Copies PROVE Bracketed'
  <2>1. ASSUME MakeTemp PROVE Bracketed'
    BY <2>1 DEF MakeTemp
  <2>6. ASSUME NotProven PROVE Bracketed'
    BY <2>6, NotProvenEffect, Volume, RowPlaces
  <2>2. ASSUME CopyContent PROVE Bracketed'
    BY <2>2 DEF CopyContent
  <2>3. ASSUME Restat PROVE Bracketed'
    BY <2>3 DEF Restat
  <2>4. ASSUME NameTaken PROVE Bracketed'
    BY <2>4 DEF NameTaken
  <2>5. ASSUME NextSuffix PROVE Bracketed'
    BY <2>5 DEF NextSuffix
  <2> QED
    BY <1>3, <2>1, <2>2, <2>3, <2>4, <2>5, <2>6 DEF Copies
<1>4. ASSUME Publishes PROVE Bracketed'
  <2>1. ASSUME Link PROVE Bracketed'
    BY <2>1 DEF Link
  <2>2. ASSUME Reserve PROVE Bracketed'
    BY <2>2 DEF Reserve
  <2>3. ASSUME UnlinkSource PROVE Bracketed'
    BY <2>3 DEF UnlinkSource
  <2>4. ASSUME RenameOver PROVE Bracketed'
    BY <2>4 DEF RenameOver
  <2> QED
    BY <1>4, <2>1, <2>2, <2>3, <2>4 DEF Publishes
<1>5. ASSUME Stops PROVE Bracketed'
  <2>1. ASSUME RowFails PROVE Bracketed'
    BY <2>1 DEF RowFails
  <2>2. ASSUME StopRow PROVE Bracketed'
    BY <2>2 DEF StopRow
  <2>3. ASSUME RowsDone PROVE Bracketed'
    BY <2>3 DEF RowsDone
  <2> QED
    BY <1>5, <2>1, <2>2, <2>3 DEF Stops
<1>6. ASSUME Trashes PROVE Bracketed'
  <2>1. ASSUME AgreeToTrash PROVE Bracketed'
    BY <2>1 DEF AgreeToTrash
  <2>2. ASSUME SnapshotBefore PROVE Bracketed'
    <3>1. /\ sid' = at["source"] /\ before' = Snapshot(at["source"])
          /\ UNCHANGED <<at, disk, stamp>>
      BY <2>2 DEF SnapshotBefore
    <3>2. \A nm \in Names : <<at["source"], nm>> \in Entries
      BY Places, EntryIn DEF Sides
    <3>3. ASSUME NEW nm \in Names
          PROVE  /\ before'[nm] = Id(<<sid, nm>>)' /\ Id(<<sid, nm>>)'.stamp \in Nat
      <4>1. before'[nm] = Id(<<at["source"], nm>>)
        BY <3>1 DEF Snapshot
      <4>2. Id(<<sid, nm>>)' = Id(<<at["source"], nm>>)
        BY <3>1 DEF Id, IdOf
      <4> QED
        BY <3>2, <4>1, <4>2, IdType DEF Identity
    <3> QED
      BY <3>1, <3>3
  <2>3. ASSUME NEW nm \in Names, ProveFile(nm) PROVE Bracketed'
    BY <2>3, SameIds DEF ProveFile
  <2>4. ASSUME SnapshotAfter PROVE Bracketed'
    BY <2>4, SameIds DEF SnapshotAfter
  <2>5. ASSUME Send PROVE Bracketed'
    BY <2>5 DEF Send
  <2> QED
    BY <1>6, <2>1, <2>2, <2>3, <2>4, <2>5 DEF Trashes
<1>7. ASSUME Machine PROVE Bracketed'
  <2>1. MachineKeeps
    BY <1>7, MachineStep
  <2>2. pc' \in {"prove", "send"} => sid' \in {"A", at'["source"]}
    BY <1>7, <2>1, MachineAt DEF MachineKeeps
  <2>3. ASSUME pc \in {"prove", "send"}, at'["source"] = sid, ~touched', NEW nm \in Names
        PROVE  /\ before[nm].ino = Id(<<sid, nm>>)'.ino
               /\ before[nm].stamp <= Id(<<sid, nm>>)'.stamp
    <3>1. at["source"] = sid
      BY <1>7, <2>3, MachineAt
    <3>2. ~touched /\ disk'[<<sid, nm>>] = disk[<<sid, nm>>]
      BY <1>7, <2>3, MachineTouch
    <3>3. before[nm].ino = Id(<<sid, nm>>).ino /\ before[nm].stamp <= Id(<<sid, nm>>).stamp
      BY <2>3, <3>1, <3>2
    <3>4. <<sid, nm>> \in Entries
      BY <3>1, Places, EntryIn DEF Sides
    <3>5. /\ Id(<<sid, nm>>).stamp <= Id(<<sid, nm>>)'.stamp
          /\ Id(<<sid, nm>>)'.ino = Id(<<sid, nm>>).ino
          /\ Id(<<sid, nm>>)'.stamp \in Nat
      BY <1>7, <2>1, <3>2, <3>4, MachineIds DEF MachineKeeps
    <3>6. before \in [Names -> Identity] /\ Id(<<sid, nm>>) \in Identity
      BY <3>4, IdType DEF TypeOK
    <3>7. before[nm].stamp \in Nat /\ Id(<<sid, nm>>).stamp \in Nat
      BY <3>6 DEF Identity
    <3> QED
      BY <3>3, <3>5, <3>7
  <2> QED
    BY <2>1, <2>2, <2>3 DEF MachineKeeps
<1>8. CASE UNCHANGED vars
  BY <1>8, SameIds DEF vars
<1> QED
  BY <1>1, <1>2, <1>3, <1>4, <1>5, <1>6, <1>7, <1>8, Steps

\* A folder as it was in the snapshot has all its proofs.
LEMMA StepSpared ==
  ASSUME WindowsClosed, TypeOK, Seated, Named, Bracketed, Spared, [Next]_vars
  PROVE  Spared'
<1> USE DEF Spared, RowPoints
<1>1. ASSUME Prepares PROVE Spared'
  <2>1. ASSUME Plan PROVE Spared'
    BY <2>1 DEF Plan
  <2>2. ASSUME NEW f \in Files, ProveRow(f) PROVE Spared'
    BY <2>2 DEF ProveRow
  <2>3. ASSUME RecheckRoots PROVE Spared'
    BY <2>3 DEF RecheckRoots
  <2>4. ASSUME NEW m \in {"move", "copy"}, Confirm(m) PROVE Spared'
    BY <2>4 DEF Confirm
  <2>5. ASSUME Decline PROVE Spared'
    BY <2>5 DEF Decline
  <2>6. ASSUME Cancel PROVE Spared'
    BY <2>6, SameIds, SameCopies DEF Cancel
  <2> QED
    BY <1>1, <2>1, <2>2, <2>3, <2>4, <2>5, <2>6 DEF Prepares
<1>2. ASSUME Reads PROVE Spared'
  <2>1. ASSUME NEW f \in Files, TakeRow(f) PROVE Spared'
    BY <2>1 DEF TakeRow
  <2>2. ASSUME ReadSource PROVE Spared'
    BY <2>2 DEF ReadSource
  <2>3. ASSUME StatSource PROVE Spared'
    BY <2>3 DEF StatSource
  <2>4. ASSUME CheckDigest PROVE Spared'
    BY <2>4 DEF CheckDigest
  <2>5. ASSUME SameThere PROVE Spared'
    BY <2>5 DEF SameThere
  <2>6. ASSUME NotThere PROVE Spared'
    BY <2>6 DEF NotThere
  <2> QED
    BY <1>2, <2>1, <2>2, <2>3, <2>4, <2>5, <2>6 DEF Reads
<1>3. ASSUME Copies PROVE Spared'
  <2>1. ASSUME MakeTemp PROVE Spared'
    BY <2>1 DEF MakeTemp
  <2>6. ASSUME NotProven PROVE Spared'
    BY <2>6, NotProvenEffect, Volume, RowPlaces
  <2>2. ASSUME CopyContent PROVE Spared'
    BY <2>2 DEF CopyContent
  <2>3. ASSUME Restat PROVE Spared'
    BY <2>3 DEF Restat
  <2>4. ASSUME NameTaken PROVE Spared'
    BY <2>4 DEF NameTaken
  <2>5. ASSUME NextSuffix PROVE Spared'
    BY <2>5 DEF NextSuffix
  <2> QED
    BY <1>3, <2>1, <2>2, <2>3, <2>4, <2>5, <2>6 DEF Copies
<1>4. ASSUME Publishes PROVE Spared'
  <2>1. ASSUME Link PROVE Spared'
    BY <2>1 DEF Link
  <2>2. ASSUME Reserve PROVE Spared'
    BY <2>2 DEF Reserve
  <2>3. ASSUME UnlinkSource PROVE Spared'
    BY <2>3 DEF UnlinkSource
  <2>4. ASSUME RenameOver PROVE Spared'
    BY <2>4 DEF RenameOver
  <2> QED
    BY <1>4, <2>1, <2>2, <2>3, <2>4 DEF Publishes
<1>5. ASSUME Stops PROVE Spared'
  <2>1. ASSUME RowFails PROVE Spared'
    BY <2>1 DEF RowFails
  <2>2. ASSUME StopRow PROVE Spared'
    BY <2>2 DEF StopRow
  <2>3. ASSUME RowsDone PROVE Spared'
    BY <2>3 DEF RowsDone
  <2> QED
    BY <1>5, <2>1, <2>2, <2>3 DEF Stops
<1>6. ASSUME Trashes PROVE Spared'
  <2>1. ASSUME AgreeToTrash PROVE Spared'
    BY <2>1 DEF AgreeToTrash
  <2>2. ASSUME SnapshotBefore PROVE Spared'
    <3>1. /\ sid' = at["source"] /\ UNCHANGED <<at, disk>> /\ pc' = "prove"
          /\ todo' = {nm \in Names : Exists(<<at["source"], nm>>)}
      BY <2>2 DEF SnapshotBefore
    <3>2. ASSUME NEW nm \in Names \ todo' PROVE ~Regular(<<sid, nm>>)'
      BY <3>1 DEF Regular, Exists
    <3> QED
      BY <3>1, <3>2
  <2>3. ASSUME NEW nm \in Names, ProveFile(nm) PROVE Spared'
    <3>1. /\ UNCHANGED <<disk, content, stamp, at, roots, sid, before, touched, pc>> /\ pc = "prove"
          /\ todo' = todo \ {nm} /\ (bad => bad')
      BY <2>3 DEF ProveFile
    <3>2. ASSUME at["source"] = sid, ~touched, ~bad', Snapshot(sid) = before,
                 NEW nn \in Names \ todo', Regular(<<sid, nn>>)
          PROVE  Copied(<<sid, nn>>)
      <4>1. CASE nn = nm
        BY <2>3, <3>1, <3>2, <4>1, ProvenIsCopied
      <4>2. CASE nn # nm
        BY <3>1, <3>2, <4>2
      <4> QED
        BY <4>1, <4>2
    <3> QED
      BY <3>1, <3>2, SameIds, SameCopies
  <2>4. ASSUME SnapshotAfter PROVE Spared'
    BY <2>4, SameIds, SameCopies DEF SnapshotAfter
  <2>5. ASSUME Send PROVE Spared'
    BY <2>5 DEF Send
  <2> QED
    BY <1>6, <2>1, <2>2, <2>3, <2>4, <2>5 DEF Trashes
<1>7. ASSUME Machine PROVE Spared'
  <2>1. MachineKeeps
    BY <1>7, MachineStep
  <2>2. CASE pc = "send"
    <3>1. UNCHANGED <<disk, content, stamp, roots, sid, todo, bad, before, pc>>
      BY <1>7, <2>1, <2>2, MachineStep DEF MachineKeeps
    <3>2. at'["source"] = sid /\ ~touched' => at["source"] = sid /\ ~touched
      BY <1>7, <2>2, MachineAt, MachineTouch DEF Bracketed
    <3> QED
      BY <2>2, <3>1, <3>2, SameIds, SameCopies
  <2>3. CASE pc = "prove"
    <3>1. UNCHANGED <<roots, sid, todo, bad, before, pc>>
      BY <2>1 DEF MachineKeeps
    <3>2. ASSUME at'["source"] = sid, ~touched', Snapshot(sid)' = before
          PROVE  /\ at["source"] = sid /\ ~touched /\ UNCHANGED <<disk, content, stamp>>
      BY <1>7, <2>3, <3>2, MachineSeen
    <3> QED
      BY <2>3, <3>1, <3>2, SameIds, SameCopies
  <2>4. CASE pc \notin {"send", "prove"}
    BY <2>1, <2>4 DEF MachineKeeps
  <2> QED
    BY <2>2, <2>3, <2>4
<1>8. CASE UNCHANGED vars
  BY <1>8, SameIds, SameCopies DEF vars
<1> QED
  BY <1>1, <1>2, <1>3, <1>4, <1>5, <1>6, <1>7, <1>8, Steps

\* Without a change by the rest of the machine a row that did not end is as read.
LEMMA StepLeftInPlace ==
  ASSUME WindowsClosed, TypeOK, Seated, Planned, Digested, TempAlone, Blanks,
         Untrashed, LeftInPlace, [Next]_vars
  PROVE  LeftInPlace'
<1> USE DEF LeftInPlace, Exists, Untrashed, RowPoints
<1>1. ASSUME Prepares PROVE LeftInPlace'
  <2>1. ASSUME Plan PROVE LeftInPlace'
    BY <2>1, SameNames DEF Plan, Planned
  <2>2. ASSUME NEW f \in Files, ProveRow(f) PROVE LeftInPlace'
    <3>1. /\ UNCHANGED <<disk, content, at, edits, trashed, outcome>>
          /\ UNCHANGED expected
             \/ (Exists(Src(f)) /\ expected' = [expected EXCEPT ![f] = content[disk[Src(f)]]])
      BY <2>2 DEF ProveRow, Readable
    <3>2. ASSUME NEW f2 \in Files, edits = 0, trashed = {}, expected'[f2] # NoDigest,
                 outcome[f2] \in {"none", "failed"}
          PROVE  Exists(Src(f2)) /\ content[disk[Src(f2)]] = expected'[f2]
      <4>1. expected \in [Files -> Contents \cup {NoDigest}]
        BY TypeParts DEF TypeControl
      <4>2. expected'[f2] = expected[f2]
            \/ (f2 = f /\ Exists(Src(f)) /\ expected'[f2] = content[disk[Src(f)]])
        BY <3>1, <4>1
      <4> QED
        BY <3>2, <4>2
    <3> QED
      BY <3>1, <3>2, SameNames
  <2>3. ASSUME RecheckRoots PROVE LeftInPlace'
    BY <2>3, SameNames DEF RecheckRoots
  <2>4. ASSUME NEW m \in {"move", "copy"}, Confirm(m) PROVE LeftInPlace'
    BY <2>4, SameNames DEF Confirm, Planned
  <2>5. ASSUME Decline PROVE LeftInPlace'
    BY <2>5, SameNames DEF Decline
  <2>6. ASSUME Cancel PROVE LeftInPlace'
    BY <2>6, SameNames DEF Cancel
  <2> QED
    BY <1>1, <2>1, <2>2, <2>3, <2>4, <2>5, <2>6 DEF Prepares
<1>2. ASSUME Reads PROVE LeftInPlace'
  <2>1. ASSUME NEW f \in Files, TakeRow(f) PROVE LeftInPlace'
    <3>1. /\ edits' = edits /\ at' = at /\ trashed' = trashed /\ expected' = expected
          /\ \A f2 \in Files : outcome'[f2] \in {"none", "failed"} => outcome[f2] \in {"none", "failed"}
      BY <2>1, Volume DEF TakeRow, Planned, RowPoints
    <3>2. ASSUME NEW f2 \in Files, edits = 0, disk[Src(f2)] # Absent,
                 outcome'[f2] \in {"none", "failed"}, expected[f2] # NoDigest
          PROVE  disk'[Src(f2)] = disk[Src(f2)] /\ content'[disk[Src(f2)]] = content[disk[Src(f2)]]
      BY <2>1 DEF TakeRow
    <3> QED
      BY <3>1, <3>2, SameNames
  <2>2. ASSUME ReadSource PROVE LeftInPlace'
    <3>1. /\ edits' = edits /\ at' = at /\ trashed' = trashed /\ expected' = expected
          /\ \A f2 \in Files : outcome'[f2] \in {"none", "failed"} => outcome[f2] \in {"none", "failed"}
      <4>1. UNCHANGED outcome \/ outcome' = [outcome EXCEPT ![row.file] = "failed"]
        BY <2>2 DEF ReadSource
      <4>2. pc \in RowPoints
        BY <2>2 DEF ReadSource
      <4>3. outcome[row.file] = "none"
        BY <4>2 DEF Planned
      <4>4. /\ edits' = edits /\ at' = at /\ trashed' = trashed /\ expected' = expected
        BY <2>2 DEF ReadSource
      <4> QED
        BY <4>1, <4>3, <4>4, Volume
    <3>2. ASSUME NEW f2 \in Files, edits = 0, disk[Src(f2)] # Absent,
                 outcome'[f2] \in {"none", "failed"}, expected[f2] # NoDigest
          PROVE  disk'[Src(f2)] = disk[Src(f2)] /\ content'[disk[Src(f2)]] = content[disk[Src(f2)]]
      BY <2>2, ReadEffect
    <3> QED
      BY <3>1, <3>2, SameNames
  <2>3. ASSUME StatSource PROVE LeftInPlace'
    <3>1. /\ edits' = edits /\ at' = at /\ trashed' = trashed /\ expected' = expected
          /\ \A f2 \in Files : outcome'[f2] \in {"none", "failed"} => outcome[f2] \in {"none", "failed"}
      <4>1. UNCHANGED outcome \/ outcome' = [outcome EXCEPT ![row.file] = "failed"]
        BY <2>3 DEF StatSource
      <4>2. pc \in RowPoints
        BY <2>3 DEF StatSource
      <4>3. outcome[row.file] = "none"
        BY <4>2 DEF Planned
      <4>4. /\ edits' = edits /\ at' = at /\ trashed' = trashed /\ expected' = expected
        BY <2>3 DEF StatSource
      <4> QED
        BY <4>1, <4>3, <4>4, Volume
    <3>2. ASSUME NEW f2 \in Files, edits = 0, disk[Src(f2)] # Absent,
                 outcome'[f2] \in {"none", "failed"}, expected[f2] # NoDigest
          PROVE  disk'[Src(f2)] = disk[Src(f2)] /\ content'[disk[Src(f2)]] = content[disk[Src(f2)]]
      BY <2>3, StatEffect
    <3> QED
      BY <3>1, <3>2, SameNames
  <2>4. ASSUME CheckDigest PROVE LeftInPlace'
    <3>1. /\ edits' = edits /\ at' = at /\ trashed' = trashed /\ expected' = expected
          /\ \A f2 \in Files : outcome'[f2] \in {"none", "failed"} => outcome[f2] \in {"none", "failed"}
      BY <2>4, Volume DEF CheckDigest, Planned, RowPoints
    <3>2. ASSUME NEW f2 \in Files, edits = 0, disk[Src(f2)] # Absent,
                 outcome'[f2] \in {"none", "failed"}, expected[f2] # NoDigest
          PROVE  disk'[Src(f2)] = disk[Src(f2)] /\ content'[disk[Src(f2)]] = content[disk[Src(f2)]]
      BY <2>4 DEF CheckDigest
    <3> QED
      BY <3>1, <3>2, SameNames
  <2>5. ASSUME SameThere PROVE LeftInPlace'
    <3>1. /\ edits' = edits /\ at' = at /\ trashed' = trashed /\ expected' = expected
          /\ \A f2 \in Files : outcome'[f2] \in {"none", "failed"} => outcome[f2] \in {"none", "failed"}
      BY <2>5, Volume DEF SameThere, Planned, RowPoints
    <3>2. ASSUME NEW f2 \in Files, edits = 0, disk[Src(f2)] # Absent,
                 outcome'[f2] \in {"none", "failed"}, expected[f2] # NoDigest
          PROVE  disk'[Src(f2)] = disk[Src(f2)] /\ content'[disk[Src(f2)]] = content[disk[Src(f2)]]
      BY <2>5 DEF SameThere
    <3> QED
      BY <3>1, <3>2, SameNames
  <2>6. ASSUME NotThere PROVE LeftInPlace'
    <3>1. /\ edits' = edits /\ at' = at /\ trashed' = trashed /\ expected' = expected
          /\ \A f2 \in Files : outcome'[f2] \in {"none", "failed"} => outcome[f2] \in {"none", "failed"}
      BY <2>6, Volume DEF NotThere, Planned, RowPoints
    <3>2. ASSUME NEW f2 \in Files, edits = 0, disk[Src(f2)] # Absent,
                 outcome'[f2] \in {"none", "failed"}, expected[f2] # NoDigest
          PROVE  disk'[Src(f2)] = disk[Src(f2)] /\ content'[disk[Src(f2)]] = content[disk[Src(f2)]]
      BY <2>6 DEF NotThere
    <3> QED
      BY <3>1, <3>2, SameNames
  <2> QED
    BY <1>2, <2>1, <2>2, <2>3, <2>4, <2>5, <2>6 DEF Reads
<1>3. ASSUME Copies PROVE LeftInPlace'
  <2>1. ASSUME MakeTemp PROVE LeftInPlace'
    <3>1. /\ edits' = edits /\ at' = at /\ trashed' = trashed /\ expected' = expected
          /\ \A f2 \in Files : outcome'[f2] \in {"none", "failed"} => outcome[f2] \in {"none", "failed"}
      <4>1. UNCHANGED outcome \/ outcome' = [outcome EXCEPT ![row.file] = "failed"]
        BY <2>1 DEF MakeTemp
      <4>2. pc \in RowPoints
        BY <2>1 DEF MakeTemp
      <4>3. outcome[row.file] = "none"
        BY <4>2 DEF Planned
      <4>4. /\ edits' = edits /\ at' = at /\ trashed' = trashed /\ expected' = expected
        BY <2>1 DEF MakeTemp
      <4> QED
        BY <4>1, <4>3, <4>4, Volume
    <3>2. ASSUME NEW f2 \in Files, edits = 0, disk[Src(f2)] # Absent,
                 outcome'[f2] \in {"none", "failed"}, expected[f2] # NoDigest
          PROVE  disk'[Src(f2)] = disk[Src(f2)] /\ content'[disk[Src(f2)]] = content[disk[Src(f2)]]
      BY <2>1, <3>2, BehindNames, RowPlaces, Volume DEF MakeTemp
    <3> QED
      BY <3>1, <3>2, SameNames
  <2>6. ASSUME NotProven PROVE LeftInPlace'
    <3>1. /\ edits' = edits /\ at' = at /\ trashed' = trashed /\ expected' = expected
          /\ \A f2 \in Files : outcome'[f2] \in {"none", "failed"} => outcome[f2] \in {"none", "failed"}
      <4>1. UNCHANGED outcome \/ outcome' = [outcome EXCEPT ![row.file] = "failed"]
        BY <2>6 DEF NotProven
      <4>2. pc \in RowPoints
        BY <2>6 DEF NotProven
      <4>3. outcome[row.file] = "none"
        BY <4>2 DEF Planned
      <4>4. /\ edits' = edits /\ at' = at /\ trashed' = trashed /\ expected' = expected
        BY <2>6 DEF NotProven
      <4> QED
        BY <4>1, <4>3, <4>4, Volume
    <3>2. ASSUME NEW f2 \in Files, edits = 0, disk[Src(f2)] # Absent,
                 outcome'[f2] \in {"none", "failed"}, expected[f2] # NoDigest
          PROVE  disk'[Src(f2)] = disk[Src(f2)] /\ content'[disk[Src(f2)]] = content[disk[Src(f2)]]
      BY <2>6, <3>2, BehindNames, RowPlaces, Volume DEF NotProven
    <3> QED
      BY <3>1, <3>2, SameNames
  <2>2. ASSUME CopyContent PROVE LeftInPlace'
    <3>1. /\ edits' = edits /\ at' = at /\ trashed' = trashed /\ expected' = expected
          /\ \A f2 \in Files : outcome'[f2] \in {"none", "failed"} => outcome[f2] \in {"none", "failed"}
      <4>1. UNCHANGED outcome \/ outcome' = [outcome EXCEPT ![row.file] = "failed"]
        BY <2>2 DEF CopyContent
      <4>2. pc \in RowPoints
        BY <2>2 DEF CopyContent
      <4>3. outcome[row.file] = "none"
        BY <4>2 DEF Planned
      <4>4. /\ edits' = edits /\ at' = at /\ trashed' = trashed /\ expected' = expected
        BY <2>2 DEF CopyContent
      <4> QED
        BY <4>1, <4>3, <4>4, Volume
    <3>2. ASSUME NEW f2 \in Files, edits = 0, disk[Src(f2)] # Absent,
                 outcome'[f2] \in {"none", "failed"}, expected[f2] # NoDigest
          PROVE  disk'[Src(f2)] = disk[Src(f2)] /\ content'[disk[Src(f2)]] = content[disk[Src(f2)]]
      BY <2>2, <3>2, BehindNames, RowPlaces, Volume DEF CopyContent
    <3> QED
      BY <3>1, <3>2, SameNames
  <2>3. ASSUME Restat PROVE LeftInPlace'
    <3>1. /\ edits' = edits /\ at' = at /\ trashed' = trashed /\ expected' = expected
          /\ \A f2 \in Files : outcome'[f2] \in {"none", "failed"} => outcome[f2] \in {"none", "failed"}
      BY <2>3, Volume DEF Restat, Planned, RowPoints
    <3>2. ASSUME NEW f2 \in Files, edits = 0, disk[Src(f2)] # Absent,
                 outcome'[f2] \in {"none", "failed"}, expected[f2] # NoDigest
          PROVE  disk'[Src(f2)] = disk[Src(f2)] /\ content'[disk[Src(f2)]] = content[disk[Src(f2)]]
      BY <2>3 DEF Restat
    <3> QED
      BY <3>1, <3>2, SameNames
  <2>4. ASSUME NameTaken PROVE LeftInPlace'
    <3>1. /\ edits' = edits /\ at' = at /\ trashed' = trashed /\ expected' = expected
          /\ \A f2 \in Files : outcome'[f2] \in {"none", "failed"} => outcome[f2] \in {"none", "failed"}
      BY <2>4, Volume DEF NameTaken, Planned, RowPoints
    <3>2. ASSUME NEW f2 \in Files, edits = 0, disk[Src(f2)] # Absent,
                 outcome'[f2] \in {"none", "failed"}, expected[f2] # NoDigest
          PROVE  disk'[Src(f2)] = disk[Src(f2)] /\ content'[disk[Src(f2)]] = content[disk[Src(f2)]]
      BY <2>4 DEF NameTaken
    <3> QED
      BY <3>1, <3>2, SameNames
  <2>5. ASSUME NextSuffix PROVE LeftInPlace'
    <3>1. /\ edits' = edits /\ at' = at /\ trashed' = trashed /\ expected' = expected
          /\ \A f2 \in Files : outcome'[f2] \in {"none", "failed"} => outcome[f2] \in {"none", "failed"}
      BY <2>5, Volume DEF NextSuffix, Planned, RowPoints
    <3>2. ASSUME NEW f2 \in Files, edits = 0, disk[Src(f2)] # Absent,
                 outcome'[f2] \in {"none", "failed"}, expected[f2] # NoDigest
          PROVE  disk'[Src(f2)] = disk[Src(f2)] /\ content'[disk[Src(f2)]] = content[disk[Src(f2)]]
      BY <2>5 DEF NextSuffix
    <3> QED
      BY <3>1, <3>2, SameNames
  <2> QED
    BY <1>3, <2>1, <2>2, <2>3, <2>4, <2>5, <2>6 DEF Copies
<1>4. ASSUME Publishes PROVE LeftInPlace'
  <2>1. ASSUME Link PROVE LeftInPlace'
    <3>1. /\ edits' = edits /\ at' = at /\ trashed' = trashed /\ expected' = expected
          /\ \A f2 \in Files : outcome'[f2] \in {"none", "failed"} => outcome[f2] \in {"none", "failed"}
      BY <2>1 DEF Link
    <3>2. ASSUME NEW f2 \in Files, edits = 0, disk[Src(f2)] # Absent,
                 outcome'[f2] \in {"none", "failed"}, expected[f2] # NoDigest
          PROVE  disk'[Src(f2)] = disk[Src(f2)] /\ content'[disk[Src(f2)]] = content[disk[Src(f2)]]
      BY <2>1, <3>2, LinkEffect, RowPlaces, Volume
    <3> QED
      BY <3>1, <3>2, SameNames
  <2>2. ASSUME Reserve PROVE LeftInPlace'
    <3>1. /\ edits' = edits /\ at' = at /\ trashed' = trashed /\ expected' = expected
          /\ \A f2 \in Files : outcome'[f2] \in {"none", "failed"} => outcome[f2] \in {"none", "failed"}
      BY <2>2, Volume DEF Reserve
    <3>2. ASSUME NEW f2 \in Files, edits = 0, disk[Src(f2)] # Absent,
                 outcome'[f2] \in {"none", "failed"}, expected[f2] # NoDigest
          PROVE  disk'[Src(f2)] = disk[Src(f2)] /\ content'[disk[Src(f2)]] = content[disk[Src(f2)]]
      BY <2>2, <3>2, BehindNames, RowPlaces, Volume DEF Reserve
    <3> QED
      BY <3>1, <3>2, SameNames
  <2>3. ASSUME UnlinkSource PROVE LeftInPlace'
    <3>1. /\ edits' = edits /\ at' = at /\ trashed' = trashed /\ expected' = expected
          /\ \A f2 \in Files : outcome'[f2] \in {"none", "failed"} => outcome[f2] \in {"none", "failed"}
      BY <2>3, Volume DEF UnlinkSource
    <3>2. ASSUME NEW f2 \in Files, edits = 0, disk[Src(f2)] # Absent,
                 outcome'[f2] \in {"none", "failed"}, expected[f2] # NoDigest
          PROVE  disk'[Src(f2)] = disk[Src(f2)] /\ content'[disk[Src(f2)]] = content[disk[Src(f2)]]
      <4>1. f2 # row.file
        BY <2>3, <3>2, Volume DEF UnlinkSource
      <4>2. Src(f2) # Pinned(row.file)
        BY <3>2, <4>1, Undisturbed, RowPlaces
      <4> QED
        BY <2>3, <4>2, RowPlaces, Volume DEF UnlinkSource
    <3> QED
      BY <3>1, <3>2, SameNames
  <2>4. ASSUME RenameOver PROVE LeftInPlace'
    <3>1. /\ edits' = edits /\ at' = at /\ trashed' = trashed /\ expected' = expected
          /\ \A f2 \in Files : outcome'[f2] \in {"none", "failed"} => outcome[f2] \in {"none", "failed"}
      BY <2>4, Volume DEF RenameOver
    <3>2. ASSUME NEW f2 \in Files, edits = 0, disk[Src(f2)] # Absent,
                 outcome'[f2] \in {"none", "failed"}, expected[f2] # NoDigest
          PROVE  disk'[Src(f2)] = disk[Src(f2)] /\ content'[disk[Src(f2)]] = content[disk[Src(f2)]]
      <4>1. f2 # row.file
        BY <2>4, <3>2, RenameEffect, Volume
      <4>2. Src(f2) # Pinned(row.file) /\ Src(f2) # Target /\ Src(f2) \in Entries
        BY <3>2, <4>1, Undisturbed, RowPlaces
      <4> QED
        BY <2>4, <4>2, RenameEffect
    <3> QED
      BY <3>1, <3>2, SameNames
  <2> QED
    BY <1>4, <2>1, <2>2, <2>3, <2>4 DEF Publishes
<1>5. ASSUME Stops PROVE LeftInPlace'
  <2>1. ASSUME RowFails PROVE LeftInPlace'
    <3>1. /\ edits' = edits /\ at' = at /\ trashed' = trashed /\ expected' = expected
          /\ \A f2 \in Files : outcome'[f2] \in {"none", "failed"} => outcome[f2] \in {"none", "failed"}
      BY <2>1, Volume DEF RowFails, Planned, RowPoints
    <3>2. ASSUME NEW f2 \in Files, edits = 0, disk[Src(f2)] # Absent,
                 outcome'[f2] \in {"none", "failed"}, expected[f2] # NoDigest
          PROVE  disk'[Src(f2)] = disk[Src(f2)] /\ content'[disk[Src(f2)]] = content[disk[Src(f2)]]
      BY <2>1, <3>2, RowPlaces, Volume DEF RowFails
    <3> QED
      BY <3>1, <3>2, SameNames
  <2>2. ASSUME StopRow PROVE LeftInPlace'
    <3>1. /\ edits' = edits /\ at' = at /\ trashed' = trashed /\ expected' = expected
          /\ \A f2 \in Files : outcome'[f2] \in {"none", "failed"} => outcome[f2] \in {"none", "failed"}
      BY <2>2, Volume DEF StopRow, Planned, RowPoints
    <3>2. ASSUME NEW f2 \in Files, edits = 0, disk[Src(f2)] # Absent,
                 outcome'[f2] \in {"none", "failed"}, expected[f2] # NoDigest
          PROVE  disk'[Src(f2)] = disk[Src(f2)] /\ content'[disk[Src(f2)]] = content[disk[Src(f2)]]
      BY <2>2 DEF StopRow
    <3> QED
      BY <3>1, <3>2, SameNames
  <2>3. ASSUME RowsDone PROVE LeftInPlace'
    BY <2>3, SameNames DEF RowsDone
  <2> QED
    BY <1>5, <2>1, <2>2, <2>3 DEF Stops
<1>6. ASSUME Trashes PROVE LeftInPlace'
  <2>1. ASSUME AgreeToTrash PROVE LeftInPlace'
    BY <2>1, SameNames DEF AgreeToTrash
  <2>2. ASSUME SnapshotBefore PROVE LeftInPlace'
    BY <2>2, SameNames DEF SnapshotBefore
  <2>3. ASSUME NEW nm \in Names, ProveFile(nm) PROVE LeftInPlace'
    BY <2>3, SameNames DEF ProveFile
  <2>4. ASSUME SnapshotAfter PROVE LeftInPlace'
    BY <2>4, SameNames DEF SnapshotAfter
  <2>5. ASSUME Send PROVE LeftInPlace'
    <3>1. pc = "send" /\ UNCHANGED <<at, edits, expected, outcome, content>> /\ trashed = {}
      BY <2>5 DEF Send
    <3>2. CASE UNCHANGED <<disk, trashed>>
      BY <3>1, <3>2, SameNames
    <3>3. CASE ~UNCHANGED <<disk, trashed>>
      <4>1. /\ at["source"] = sid
            /\ trashed' = {disk[e] : e \in {o \in Entries : o[1] = sid /\ Exists(o)}}
        BY <2>5, <3>3 DEF Send
      <4>2. ASSUME NEW f2 \in Files, Exists(Src(f2)) PROVE trashed' # {}
        <5>1. Src(f2) \in {o \in Entries : o[1] = sid /\ Exists(o)}
          BY <4>1, <4>2, RowPlaces
        <5> DEFINE P == {o \in Entries : o[1] = sid /\ Exists(o)}
        <5>2. trashed' = {disk[e] : e \in P} /\ Src(f2) \in P
          BY <4>1, <5>1
        <5> HIDE DEF P
        <5>3. disk[Src(f2)] \in {disk[e] : e \in P}
          BY <5>2
        <5> QED
          BY <5>2, <5>3
      <4> QED
        BY <3>1, <4>2, SameNames
    <3> QED
      BY <3>2, <3>3
  <2> QED
    BY <1>6, <2>1, <2>2, <2>3, <2>4, <2>5 DEF Trashes
<1>7. ASSUME Machine PROVE LeftInPlace'
  <2>1. edits' = edits + 1
    BY <1>7, MachineCounts DEF machineFrame
  <2>2. edits \in Nat
    BY DirTypes
  <2> QED
    BY <2>1, <2>2
<1>8. CASE UNCHANGED vars
  BY <1>8, Volume, SameNames DEF vars
<1> QED
  BY <1>1, <1>2, <1>3, <1>4, <1>5, <1>6, <1>7, <1>8, Steps

\* The volume keeps its types.
LEMMA StepTypeVolume ==
  ASSUME WindowsClosed, TypeOK, Seated, Planned, Digested, [Next]_vars
  PROVE  TypeVolume'
<1> USE DEF TypeVolume
<1>1. ASSUME Prepares PROVE TypeVolume'
  BY <1>1, Volume DEF Prepares, Plan, ProveRow, RecheckRoots, Confirm, Decline, Cancel
<1>2. ASSUME Reads PROVE TypeVolume'
  BY <1>2, Volume DEF Reads, TakeRow, ReadSource, StatSource, CheckDigest, SameThere,
         NotThere
<1>3. ASSUME Copies PROVE TypeVolume'
  <2>1. ASSUME MakeTemp PROVE TypeVolume'
    <3>1. row.digest \in Contents
      BY <2>1, TempEffect DEF Digested, AfterCheck, AfterRead, RowPoints
    <3>2. CASE UNCHANGED <<content, stamp>>
      BY <2>1, <3>2, TempEffect, Volume
    <3>3. CASE ~UNCHANGED <<content, stamp>>
      <4> DEFINE c == IF row.link THEN row.digest ELSE Blank
      <4>1. PICK i \in Inodes : /\ content' = [content EXCEPT ![i] = c]
                                /\ stamp' = [stamp EXCEPT ![i] = stamp[i] + 1]
        BY <2>1, <3>3, TempEffect
      <4>2. c \in Contents \cup {Blank} /\ UNCHANGED disk
        BY <2>1, <3>1, TempEffect
      <4> HIDE DEF c
      <4> QED
        BY <4>1, <4>2, Volume
    <3> QED
      BY <3>2, <3>3
  <2>6. ASSUME NotProven PROVE TypeVolume'
    <3>1. CASE UNCHANGED <<content, stamp>>
      BY <2>6, <3>1, NotProvenEffect, Volume
    <3>2. CASE ~UNCHANGED <<content, stamp>>
      <4>1. PICK i \in Inodes : /\ content' = [content EXCEPT ![i] = Blank]
                                /\ stamp' = [stamp EXCEPT ![i] = stamp[i] + 1]
        BY <2>6, <3>2, NotProvenEffect
      <4>2. UNCHANGED disk
        BY <2>6, NotProvenEffect
      <4> QED
        BY <4>1, <4>2, Volume
    <3> QED
      BY <3>1, <3>2
  <2>2. ASSUME CopyContent PROVE TypeVolume'
    <3>1. row.digest \in Contents
      BY <2>2 DEF CopyContent, Digested, AfterCheck, AfterRead, RowPoints
    <3> QED
      BY <2>2, <3>1, Volume DEF CopyContent
  <2>3. ASSUME Restat PROVE TypeVolume'
    BY <2>3, Volume DEF Restat
  <2>4. ASSUME NameTaken PROVE TypeVolume'
    BY <2>4, Volume DEF NameTaken
  <2>5. ASSUME NextSuffix PROVE TypeVolume'
    BY <2>5, Volume DEF NextSuffix
  <2> QED
    BY <1>3, <2>1, <2>2, <2>3, <2>4, <2>5, <2>6 DEF Copies
<1>4. ASSUME Publishes PROVE TypeVolume'
  <2>1. ASSUME Link PROVE TypeVolume'
    <3> DEFINE i == Published
               T == Target
    <3>1. /\ disk' = [disk EXCEPT ![T] = i] /\ stamp' = [stamp EXCEPT ![i] = stamp[i] + 1]
          /\ UNCHANGED content /\ i \in Inodes
      BY <2>1, LinkEffect
    <3> HIDE DEF i, T
    <3>2. disk' \in [Entries -> Inodes \cup {Absent}]
      BY <3>1, Volume
    <3>3. stamp' \in [Inodes -> Nat]
      BY <3>1, Volume
    <3>4. content' \in [Inodes -> Contents \cup {Blank}]
      BY <3>1, Volume
    <3> QED
      BY <3>2, <3>3, <3>4
  <2>2. ASSUME Reserve PROVE TypeVolume'
    <3> DEFINE T == Target
    <3>1. PICK i \in Inodes : /\ disk' = [disk EXCEPT ![T] = i]
                              /\ stamp' = [stamp EXCEPT ![i] = stamp[i] + 1]
                              /\ content' = [content EXCEPT ![i] = Blank]
      BY <2>2, ReserveEffect
    <3> HIDE DEF T
    <3>2. disk' \in [Entries -> Inodes \cup {Absent}]
      BY <3>1, Volume
    <3>3. stamp' \in [Inodes -> Nat]
      BY <3>1, Volume
    <3>4. content' \in [Inodes -> Contents \cup {Blank}]
      BY <3>1, Volume
    <3> QED
      BY <3>2, <3>3, <3>4
  <2>3. ASSUME UnlinkSource PROVE TypeVolume'
    <3> DEFINE i == disk[Target]
               P == Pinned(row.file)
    <3>1. /\ UNCHANGED disk \/ disk' = [disk EXCEPT ![P] = Absent]
          /\ stamp' = [stamp EXCEPT ![i] = stamp[i] + 1] /\ UNCHANGED content
          /\ i \in Inodes \cup {Absent}
      BY <2>3, Volume, RowPlaces DEF UnlinkSource
    <3> HIDE DEF i, P
    <3>2. disk' \in [Entries -> Inodes \cup {Absent}]
      BY <3>1, Volume
    <3>3. stamp' \in [Inodes -> Nat]
      <4>1. \A j \in Inodes : stamp'[j] = IF j = i THEN stamp[j] + 1 ELSE stamp[j]
        BY <3>1, Volume
      <4>2. \A j \in Inodes : stamp[j] \in Nat /\ stamp[j] + 1 \in Nat
        BY Volume
      <4>3. stamp' = [j \in Inodes |-> stamp'[j]]
        BY <3>1, Volume
      <4> QED
        BY <4>1, <4>2, <4>3
    <3>4. content' \in [Inodes -> Contents \cup {Blank}]
      BY <3>1, Volume
    <3> QED
      BY <3>2, <3>3, <3>4
  <2>4. ASSUME RenameOver PROVE TypeVolume'
    <3> DEFINE i == Published
    <3>1. /\ i \in Inodes /\ UNCHANGED content
          /\ stamp' = [stamp EXCEPT ![i] = stamp[i] + 1]
          /\ disk' = [e \in Entries |->
                        IF e = Target THEN i
                        ELSE IF mode = "move" /\ e = Pinned(row.file) THEN Absent
                        ELSE disk[e]]
      BY <2>4, RenameEffect
    <3> HIDE DEF i
    <3> QED
      BY <3>1, Volume
  <2> QED
    BY <1>4, <2>1, <2>2, <2>3, <2>4 DEF Publishes
<1>5. ASSUME Stops PROVE TypeVolume'
  <2>1. ASSUME RowFails PROVE TypeVolume'
    BY <2>1, Volume, RowPlaces DEF RowFails
  <2>2. ASSUME StopRow PROVE TypeVolume'
    BY <2>2, Volume DEF StopRow
  <2>3. ASSUME RowsDone PROVE TypeVolume'
    BY <2>3, Volume DEF RowsDone
  <2> QED
    BY <1>5, <2>1, <2>2, <2>3 DEF Stops
<1>6. ASSUME Trashes PROVE TypeVolume'
  <2>1. ASSUME AgreeToTrash PROVE TypeVolume'
    BY <2>1, Volume DEF AgreeToTrash
  <2>2. ASSUME SnapshotBefore PROVE TypeVolume'
    BY <2>2, Volume DEF SnapshotBefore
  <2>3. ASSUME NEW nm \in Names, ProveFile(nm) PROVE TypeVolume'
    BY <2>3, Volume DEF ProveFile
  <2>4. ASSUME SnapshotAfter PROVE TypeVolume'
    BY <2>4, Volume DEF SnapshotAfter
  <2>5. ASSUME Send PROVE TypeVolume'
    BY <2>5, Volume, RowPlaces DEF Send
  <2> QED
    BY <1>6, <2>1, <2>2, <2>3, <2>4, <2>5 DEF Trashes
<1>7. ASSUME Machine PROVE TypeVolume'
  <2>1. ASSUME NEW s \in Sides, NEW nm \in Names, NEW c \in Contents, EditInPlace(s, nm, c) PROVE TypeVolume'
    <3>1. PICK i \in Inodes, e \in Entries :
            /\ UNCHANGED disk /\ content' = [content EXCEPT ![i] = c]
            /\ stamp' = [stamp EXCEPT ![i] = stamp[i] + 1]
      BY <2>1, EditEffect
    <3> QED
      BY <3>1, Volume
  <2>2. ASSUME NEW s \in Sides, NEW nm \in Names, NEW c \in Contents, SaveOver(s, nm, c) PROVE TypeVolume'
    <3>1. PICK i \in Inodes, e \in Entries :
            /\ disk' = [disk EXCEPT ![e] = i] /\ content' = [content EXCEPT ![i] = c]
            /\ stamp' = [stamp EXCEPT ![i] = stamp[i] + 1]
      BY <2>2, SaveEffect
    <3> QED
      BY <3>1, Volume
  <2>3. ASSUME NEW s \in Sides, NEW nm \in Names, Delete(s, nm) PROVE TypeVolume'
    BY <2>3, DeleteEffect, Volume
  <2>4. ASSUME NEW s \in Sides, NEW nm \in Names, NEW o \in Entries, HardLink(s, nm, o) PROVE TypeVolume'
    <3>1. PICK i \in Inodes, e \in Entries :
            /\ disk' = [disk EXCEPT ![e] = i] /\ UNCHANGED content
            /\ stamp' = [stamp EXCEPT ![i] = stamp[i] + 1]
      BY <2>4, HardLinkEffect
    <3> QED
      BY <3>1, Volume
  <2>5. ASSUME NEW s \in Sides, SwapFolder(s) PROVE TypeVolume'
    BY <2>5, SwapEffect, Volume
  <2> QED
    BY <1>7, <2>1, <2>2, <2>3, <2>4, <2>5 DEF Machine
<1>8. CASE UNCHANGED vars
  BY <1>8, Volume DEF vars
<1> QED
  BY <1>1, <1>2, <1>3, <1>4, <1>5, <1>6, <1>7, <1>8, Steps

\* The plan and the control keep their types.
LEMMA StepTypeControl ==
  ASSUME TypeOK, Seated, Blanks, [Next]_vars
  PROVE  TypeControl'
<1> USE DEF TypeControl
<1>1. ASSUME Prepares PROVE TypeControl'
  <2>1. ASSUME Plan PROVE TypeControl'
    BY <2>1, TypeParts DEF Plan, Points, PlanPoints, RowPoints, TrashPoints
  <2>2. ASSUME NEW f \in Files, ProveRow(f) PROVE TypeControl'
    <3>1. UNCHANGED <<at, hardLinks, known, mode, cancel, roots>> /\ pc' \in {"digest", "done"}
          /\ (UNCHANGED expected \/ (/\ disk[Src(f)] # Absent
                                   /\ expected' = [expected EXCEPT ![f] = content[disk[Src(f)]]]))
      BY <2>2 DEF ProveRow, Readable, Exists
    <3>2. Src(f) \in Entries /\ pc = "digest"
      BY <2>2, RowPlaces DEF ProveRow
    <3>3. disk[Src(f)] # Absent => content[disk[Src(f)]] \in Contents
      BY <3>2, Volume DEF Blanks, Has, Exists, PlanPoints
    <3> DEFINE c == content[disk[Src(f)]]
    <3>4. UNCHANGED expected \/ (c \in Contents /\ expected' = [expected EXCEPT ![f] = c])
      BY <3>1, <3>3
    <3> HIDE DEF c
    <3>5. /\ expected \in [Files -> Contents \cup {NoDigest}] /\ at \in [Sides -> Folders]
          /\ roots \in [Sides -> Folders] /\ hardLinks \in BOOLEAN /\ cancel \in BOOLEAN
          /\ known \in [Entries -> [id : Identity, class : Contents \cup {Unique}]]
          /\ mode \in {"none", "move", "copy"}
      BY TypeParts
    <3>6. expected' \in [Files -> Contents \cup {NoDigest}]
      BY <3>4, <3>5
    <3> QED
      BY <3>1, <3>5, <3>6 DEF Points, PlanPoints
  <2>3. ASSUME RecheckRoots PROVE TypeControl'
    BY <2>3, TypeParts DEF RecheckRoots, Points, PlanPoints, RowPoints, TrashPoints
  <2>4. ASSUME NEW m \in {"move", "copy"}, Confirm(m) PROVE TypeControl'
    BY <2>4, TypeParts DEF Confirm, Points, PlanPoints, RowPoints, TrashPoints
  <2>5. ASSUME Decline PROVE TypeControl'
    BY <2>5, TypeParts DEF Decline, Points, PlanPoints, RowPoints, TrashPoints
  <2>6. ASSUME Cancel PROVE TypeControl'
    BY <2>6, TypeParts DEF Cancel, Points, PlanPoints, RowPoints, TrashPoints
  <2> QED
    BY <1>1, <2>1, <2>2, <2>3, <2>4, <2>5, <2>6 DEF Prepares
<1>2. ASSUME Reads PROVE TypeControl'
  <2>1. ASSUME NEW f \in Files, TakeRow(f) PROVE TypeControl'
    BY <2>1, TypeParts DEF TakeRow, Points, PlanPoints, RowPoints, TrashPoints
  <2>2. ASSUME ReadSource PROVE TypeControl'
    BY <2>2, TypeParts DEF ReadSource, Points, PlanPoints, RowPoints, TrashPoints
  <2>3. ASSUME StatSource PROVE TypeControl'
    BY <2>3, TypeParts DEF StatSource, Points, PlanPoints, RowPoints, TrashPoints
  <2>4. ASSUME CheckDigest PROVE TypeControl'
    BY <2>4, TypeParts DEF CheckDigest, Points, PlanPoints, RowPoints, TrashPoints
  <2>5. ASSUME SameThere PROVE TypeControl'
    BY <2>5, TypeParts DEF SameThere, Points, PlanPoints, RowPoints, TrashPoints
  <2>6. ASSUME NotThere PROVE TypeControl'
    BY <2>6, TypeParts DEF NotThere, Points, PlanPoints, RowPoints, TrashPoints
  <2> QED
    BY <1>2, <2>1, <2>2, <2>3, <2>4, <2>5, <2>6 DEF Reads
<1>3. ASSUME Copies PROVE TypeControl'
  <2>1. ASSUME MakeTemp PROVE TypeControl'
    BY <2>1, TypeParts DEF MakeTemp, Points, PlanPoints, RowPoints, TrashPoints
  <2>6. ASSUME NotProven PROVE TypeControl'
    BY <2>6, TypeParts DEF NotProven, Points, PlanPoints, RowPoints, TrashPoints
  <2>2. ASSUME CopyContent PROVE TypeControl'
    BY <2>2, TypeParts DEF CopyContent, Points, PlanPoints, RowPoints, TrashPoints
  <2>3. ASSUME Restat PROVE TypeControl'
    BY <2>3, TypeParts DEF Restat, Points, PlanPoints, RowPoints, TrashPoints
  <2>4. ASSUME NameTaken PROVE TypeControl'
    BY <2>4, TypeParts DEF NameTaken, Points, PlanPoints, RowPoints, TrashPoints
  <2>5. ASSUME NextSuffix PROVE TypeControl'
    BY <2>5, TypeParts DEF NextSuffix, Points, PlanPoints, RowPoints, TrashPoints
  <2> QED
    BY <1>3, <2>1, <2>2, <2>3, <2>4, <2>5, <2>6 DEF Copies
<1>4. ASSUME Publishes PROVE TypeControl'
  <2>1. ASSUME Link PROVE TypeControl'
    BY <2>1, TypeParts DEF Link, Points, PlanPoints, RowPoints, TrashPoints
  <2>2. ASSUME Reserve PROVE TypeControl'
    BY <2>2, TypeParts DEF Reserve, Points, PlanPoints, RowPoints, TrashPoints
  <2>3. ASSUME UnlinkSource PROVE TypeControl'
    BY <2>3, TypeParts DEF UnlinkSource, Points, PlanPoints, RowPoints, TrashPoints
  <2>4. ASSUME RenameOver PROVE TypeControl'
    BY <2>4, TypeParts DEF RenameOver, Points, PlanPoints, RowPoints, TrashPoints
  <2> QED
    BY <1>4, <2>1, <2>2, <2>3, <2>4 DEF Publishes
<1>5. ASSUME Stops PROVE TypeControl'
  <2>1. ASSUME RowFails PROVE TypeControl'
    BY <2>1, TypeParts DEF RowFails, Points, PlanPoints, RowPoints, TrashPoints
  <2>2. ASSUME StopRow PROVE TypeControl'
    BY <2>2, TypeParts DEF StopRow, Points, PlanPoints, RowPoints, TrashPoints
  <2>3. ASSUME RowsDone PROVE TypeControl'
    BY <2>3, TypeParts DEF RowsDone, Points, PlanPoints, RowPoints, TrashPoints
  <2> QED
    BY <1>5, <2>1, <2>2, <2>3 DEF Stops
<1>6. ASSUME Trashes PROVE TypeControl'
  <2>1. ASSUME AgreeToTrash PROVE TypeControl'
    BY <2>1, TypeParts DEF AgreeToTrash, Points, PlanPoints, RowPoints, TrashPoints
  <2>2. ASSUME SnapshotBefore PROVE TypeControl'
    BY <2>2, TypeParts DEF SnapshotBefore, Points, PlanPoints, RowPoints, TrashPoints
  <2>3. ASSUME NEW nm \in Names, ProveFile(nm) PROVE TypeControl'
    BY <2>3, TypeParts DEF ProveFile, Points, PlanPoints, RowPoints, TrashPoints
  <2>4. ASSUME SnapshotAfter PROVE TypeControl'
    BY <2>4, TypeParts DEF SnapshotAfter, Points, PlanPoints, RowPoints, TrashPoints
  <2>5. ASSUME Send PROVE TypeControl'
    BY <2>5, TypeParts DEF Send, Points, PlanPoints, RowPoints, TrashPoints
  <2> QED
    BY <1>6, <2>1, <2>2, <2>3, <2>4, <2>5 DEF Trashes
<1>7. ASSUME Machine PROVE TypeControl'
  <2>1. ASSUME NEW s \in Sides, NEW nm \in Names, NEW c \in Contents, EditInPlace(s, nm, c) PROVE TypeControl'
    BY <2>1, TypeParts DEF EditInPlace
  <2>2. ASSUME NEW s \in Sides, NEW nm \in Names, NEW c \in Contents, SaveOver(s, nm, c) PROVE TypeControl'
    BY <2>2, TypeParts DEF SaveOver
  <2>3. ASSUME NEW s \in Sides, NEW nm \in Names, Delete(s, nm) PROVE TypeControl'
    BY <2>3, TypeParts DEF Delete
  <2>4. ASSUME NEW s \in Sides, NEW nm \in Names, NEW o \in Entries, HardLink(s, nm, o) PROVE TypeControl'
    BY <2>4, TypeParts DEF HardLink
  <2>5. ASSUME NEW s \in Sides, SwapFolder(s) PROVE TypeControl'
    <3>1. MachineKeeps /\ at' = [at EXCEPT ![s] = "C"]
      BY <2>5, SwapEffect
    <3> QED
      BY <3>1, TypeParts DEF MachineKeeps, Folders
  <2> QED
    BY <1>7, <2>1, <2>2, <2>3, <2>4, <2>5 DEF Machine
<1>8. CASE UNCHANGED vars
  BY <1>8, TypeParts DEF vars
<1> QED
  BY <1>1, <1>2, <1>3, <1>4, <1>5, <1>6, <1>7, <1>8, Steps

\* What clean-ups left has its types.
LEMMA StepTypeLeft ==
  ASSUME TypeOK, Seated, [Next]_vars
  PROVE  TypeLeft'
<1> USE Volume DEF TypeLeft
<1>1. CASE Prepares \/ Trashes
  BY <1>1 DEF Prepares, Plan, ProveRow, RecheckRoots, Confirm, Decline, Cancel,
              Trashes, AgreeToTrash, SnapshotBefore, ProveFile, SnapshotAfter, Send
<1>2. CASE Reads
  BY <1>2 DEF Reads, TakeRow, ReadSource, StatSource, CheckDigest, SameThere, NotThere,
              Cleaned
<1>3. CASE MakeTemp \/ NotProven
  BY <1>3, TempEffect, NotProvenEffect
<1>4. CASE CopyContent \/ Restat \/ NameTaken \/ NextSuffix
  BY <1>4 DEF CopyContent, Restat, NameTaken, NextSuffix, Cleaned
<1>5. CASE Reserve
  BY <1>5, ReserveEffect
<1>6. CASE Link \/ UnlinkSource \/ RenameOver
  BY <1>6 DEF Link, UnlinkSource, RenameOver, Cleaned
<1>7. CASE RowFails
  <2>1. ToTakeBack \subseteq Inodes
    BY RowPlaces DEF ToTakeBack
  <2> QED
    BY <1>7, <2>1 DEF RowFails, Cleaned
<1>8. CASE StopRow \/ RowsDone
  BY <1>8 DEF StopRow, RowsDone, Cleaned
<1>9. CASE Machine
  BY <1>9 DEF Machine, EditInPlace, SaveOver, Delete, HardLink, SwapFolder
<1>10. CASE UNCHANGED vars
  BY <1>10 DEF vars
<1> QED
  BY <1>1, <1>2, <1>3, <1>4, <1>5, <1>6, <1>7, <1>8, <1>9, <1>10, Steps
     DEF Copies, Publishes, Stops

\* A row keeps its types.
LEMMA StepTypeRow ==
  ASSUME TypeOK, Seated, Blanks, [Next]_vars
  PROVE  TypeRow'
<1> USE DEF TypeRow
<1>1. ASSUME Prepares PROVE TypeRow'
  <2>1. ASSUME Plan PROVE TypeRow'
    BY <2>1, RowTypes, RowPlaces, NoRowType, EntryIn DEF Plan
  <2>2. ASSUME NEW f \in Files, ProveRow(f) PROVE TypeRow'
    BY <2>2, RowTypes, RowPlaces, NoRowType, EntryIn DEF ProveRow
  <2>3. ASSUME RecheckRoots PROVE TypeRow'
    BY <2>3, RowTypes, RowPlaces, NoRowType, EntryIn DEF RecheckRoots
  <2>4. ASSUME NEW m \in {"move", "copy"}, Confirm(m) PROVE TypeRow'
    BY <2>4, RowTypes, RowPlaces, NoRowType, EntryIn DEF Confirm
  <2>5. ASSUME Decline PROVE TypeRow'
    BY <2>5, RowTypes, RowPlaces, NoRowType, EntryIn DEF Decline
  <2>6. ASSUME Cancel PROVE TypeRow'
    BY <2>6, RowTypes, RowPlaces, NoRowType, EntryIn DEF Cancel
  <2> QED
    BY <1>1, <2>1, <2>2, <2>3, <2>4, <2>5, <2>6 DEF Prepares
<1>2. ASSUME Reads PROVE TypeRow'
  <2>1. ASSUME NEW f \in Files, TakeRow(f) PROVE TypeRow'
    BY <2>1, RowTypes, RowPlaces, NoRowType, EntryIn DEF TakeRow
  <2>2. ASSUME ReadSource PROVE TypeRow'
    BY <2>2, ReadEffect, RowTypes, RowPlaces, NoRowType
  <2>3. ASSUME StatSource PROVE TypeRow'
    BY <2>3, StatEffect, RowTypes, RowPlaces, NoRowType
  <2>4. ASSUME CheckDigest PROVE TypeRow'
    BY <2>4, RowTypes, RowPlaces, NoRowType, EntryIn DEF CheckDigest
  <2>5. ASSUME SameThere PROVE TypeRow'
    BY <2>5, RowTypes, RowPlaces, NoRowType, EntryIn DEF SameThere
  <2>6. ASSUME NotThere PROVE TypeRow'
    BY <2>6, RowTypes, RowPlaces, NoRowType, EntryIn DEF NotThere
  <2> QED
    BY <1>2, <2>1, <2>2, <2>3, <2>4, <2>5, <2>6 DEF Reads
<1>3. ASSUME Copies PROVE TypeRow'
  <2>1. ASSUME MakeTemp PROVE TypeRow'
    BY <2>1, TempEffect, RowTypes, RowPlaces, NoRowType
  <2>6. ASSUME NotProven PROVE TypeRow'
    BY <2>6, RowTypes, RowPlaces, NoRowType, EntryIn DEF NotProven
  <2>2. ASSUME CopyContent PROVE TypeRow'
    BY <2>2, RowTypes, RowPlaces, NoRowType, EntryIn DEF CopyContent
  <2>3. ASSUME Restat PROVE TypeRow'
    BY <2>3, RowTypes, RowPlaces, NoRowType, EntryIn DEF Restat
  <2>4. ASSUME NameTaken PROVE TypeRow'
    BY <2>4, RowTypes, RowPlaces, NoRowType, EntryIn DEF NameTaken
  <2>5. ASSUME NextSuffix PROVE TypeRow'
    <3>1. row' = [row EXCEPT !.n = row.n + 1] /\ row.n < MaxSuffix
          /\ UNCHANGED <<temp, outcome, dest, todo>>
      BY <2>5 DEF NextSuffix
    <3> DEFINE n == row.n + 1
    <3>2. n \in 1..MaxSuffix /\ row' = [row EXCEPT !.n = n]
      BY <3>1, Volume
    <3> HIDE DEF n
    <3>3. row' \in Row
      BY <3>2, Volume DEF Row
    <3> QED
      BY <3>1, <3>3, RowTypes
  <2> QED
    BY <1>3, <2>1, <2>2, <2>3, <2>4, <2>5, <2>6 DEF Copies
<1>4. ASSUME Publishes PROVE TypeRow'
  <2>1. ASSUME Link PROVE TypeRow'
    BY <2>1, LinkEffect, RowTypes, RowPlaces, NoRowType
  <2>2. ASSUME Reserve PROVE TypeRow'
    BY <2>2, ReserveEffect, RowTypes, RowPlaces, NoRowType
  <2>3. ASSUME UnlinkSource PROVE TypeRow'
    BY <2>3, RowTypes, RowPlaces, NoRowType, EntryIn DEF UnlinkSource
  <2>4. ASSUME RenameOver PROVE TypeRow'
    BY <2>4, RenameEffect, RowTypes, RowPlaces, NoRowType
  <2> QED
    BY <1>4, <2>1, <2>2, <2>3, <2>4 DEF Publishes
<1>5. ASSUME Stops PROVE TypeRow'
  <2>1. ASSUME RowFails PROVE TypeRow'
    BY <2>1, RowTypes, RowPlaces, NoRowType, EntryIn DEF RowFails
  <2>2. ASSUME StopRow PROVE TypeRow'
    BY <2>2, RowTypes, RowPlaces, NoRowType, EntryIn DEF StopRow
  <2>3. ASSUME RowsDone PROVE TypeRow'
    BY <2>3, RowTypes, RowPlaces, NoRowType, EntryIn DEF RowsDone
  <2> QED
    BY <1>5, <2>1, <2>2, <2>3 DEF Stops
<1>6. ASSUME Trashes PROVE TypeRow'
  <2>1. ASSUME AgreeToTrash PROVE TypeRow'
    BY <2>1, RowTypes, RowPlaces, NoRowType, EntryIn DEF AgreeToTrash
  <2>2. ASSUME SnapshotBefore PROVE TypeRow'
    BY <2>2, RowTypes, RowPlaces, NoRowType, EntryIn DEF SnapshotBefore
  <2>3. ASSUME NEW nm \in Names, ProveFile(nm) PROVE TypeRow'
    BY <2>3, RowTypes, RowPlaces, NoRowType, EntryIn DEF ProveFile
  <2>4. ASSUME SnapshotAfter PROVE TypeRow'
    BY <2>4, RowTypes, RowPlaces, NoRowType, EntryIn DEF SnapshotAfter
  <2>5. ASSUME Send PROVE TypeRow'
    BY <2>5, RowTypes, RowPlaces, NoRowType, EntryIn DEF Send
  <2> QED
    BY <1>6, <2>1, <2>2, <2>3, <2>4, <2>5 DEF Trashes
<1>7. ASSUME Machine PROVE TypeRow'
  <2>1. ASSUME NEW s \in Sides, NEW nm \in Names, NEW c \in Contents, EditInPlace(s, nm, c) PROVE TypeRow'
    BY <2>1, RowTypes, RowPlaces, NoRowType, EntryIn DEF EditInPlace
  <2>2. ASSUME NEW s \in Sides, NEW nm \in Names, NEW c \in Contents, SaveOver(s, nm, c) PROVE TypeRow'
    BY <2>2, RowTypes, RowPlaces, NoRowType, EntryIn DEF SaveOver
  <2>3. ASSUME NEW s \in Sides, NEW nm \in Names, Delete(s, nm) PROVE TypeRow'
    BY <2>3, RowTypes, RowPlaces, NoRowType, EntryIn DEF Delete
  <2>4. ASSUME NEW s \in Sides, NEW nm \in Names, NEW o \in Entries, HardLink(s, nm, o) PROVE TypeRow'
    BY <2>4, RowTypes, RowPlaces, NoRowType, EntryIn DEF HardLink
  <2>5. ASSUME NEW s \in Sides, SwapFolder(s) PROVE TypeRow'
    BY <2>5, RowTypes, RowPlaces, NoRowType, EntryIn DEF SwapFolder
  <2> QED
    BY <1>7, <2>1, <2>2, <2>3, <2>4, <2>5 DEF Machine
<1>8. CASE UNCHANGED vars
  BY <1>8, RowTypes DEF vars
<1> QED
  BY <1>1, <1>2, <1>3, <1>4, <1>5, <1>6, <1>7, <1>8, Steps

\* The proof of the folder keeps its types.
LEMMA StepTypeDir ==
  ASSUME TypeOK, Seated, [Next]_vars
  PROVE  TypeDir'
<1> USE DEF TypeDir
<1>1. ASSUME Prepares PROVE TypeDir'
  <2>1. ASSUME Plan PROVE TypeDir'
    BY <2>1, DirTypes DEF Plan
  <2>2. ASSUME NEW f \in Files, ProveRow(f) PROVE TypeDir'
    BY <2>2, DirTypes DEF ProveRow
  <2>3. ASSUME RecheckRoots PROVE TypeDir'
    BY <2>3, DirTypes DEF RecheckRoots
  <2>4. ASSUME NEW m \in {"move", "copy"}, Confirm(m) PROVE TypeDir'
    BY <2>4, DirTypes DEF Confirm
  <2>5. ASSUME Decline PROVE TypeDir'
    BY <2>5, DirTypes DEF Decline
  <2>6. ASSUME Cancel PROVE TypeDir'
    BY <2>6, DirTypes DEF Cancel
  <2> QED
    BY <1>1, <2>1, <2>2, <2>3, <2>4, <2>5, <2>6 DEF Prepares
<1>2. ASSUME Reads PROVE TypeDir'
  <2>1. ASSUME NEW f \in Files, TakeRow(f) PROVE TypeDir'
    BY <2>1, DirTypes DEF TakeRow
  <2>2. ASSUME ReadSource PROVE TypeDir'
    BY <2>2, DirTypes DEF ReadSource
  <2>3. ASSUME StatSource PROVE TypeDir'
    BY <2>3, DirTypes DEF StatSource
  <2>4. ASSUME CheckDigest PROVE TypeDir'
    BY <2>4, DirTypes DEF CheckDigest
  <2>5. ASSUME SameThere PROVE TypeDir'
    BY <2>5, DirTypes DEF SameThere
  <2>6. ASSUME NotThere PROVE TypeDir'
    BY <2>6, DirTypes DEF NotThere
  <2> QED
    BY <1>2, <2>1, <2>2, <2>3, <2>4, <2>5, <2>6 DEF Reads
<1>3. ASSUME Copies PROVE TypeDir'
  <2>1. ASSUME MakeTemp PROVE TypeDir'
    BY <2>1, DirTypes DEF MakeTemp
  <2>6. ASSUME NotProven PROVE TypeDir'
    BY <2>6, DirTypes DEF NotProven
  <2>2. ASSUME CopyContent PROVE TypeDir'
    BY <2>2, DirTypes DEF CopyContent
  <2>3. ASSUME Restat PROVE TypeDir'
    BY <2>3, DirTypes DEF Restat
  <2>4. ASSUME NameTaken PROVE TypeDir'
    BY <2>4, DirTypes DEF NameTaken
  <2>5. ASSUME NextSuffix PROVE TypeDir'
    BY <2>5, DirTypes DEF NextSuffix
  <2> QED
    BY <1>3, <2>1, <2>2, <2>3, <2>4, <2>5, <2>6 DEF Copies
<1>4. ASSUME Publishes PROVE TypeDir'
  <2>1. ASSUME Link PROVE TypeDir'
    BY <2>1, DirTypes DEF Link
  <2>2. ASSUME Reserve PROVE TypeDir'
    BY <2>2, DirTypes DEF Reserve
  <2>3. ASSUME UnlinkSource PROVE TypeDir'
    BY <2>3, DirTypes DEF UnlinkSource
  <2>4. ASSUME RenameOver PROVE TypeDir'
    BY <2>4, DirTypes DEF RenameOver
  <2> QED
    BY <1>4, <2>1, <2>2, <2>3, <2>4 DEF Publishes
<1>5. ASSUME Stops PROVE TypeDir'
  <2>1. ASSUME RowFails PROVE TypeDir'
    BY <2>1, DirTypes DEF RowFails
  <2>2. ASSUME StopRow PROVE TypeDir'
    BY <2>2, DirTypes DEF StopRow
  <2>3. ASSUME RowsDone PROVE TypeDir'
    BY <2>3, DirTypes DEF RowsDone
  <2> QED
    BY <1>5, <2>1, <2>2, <2>3 DEF Stops
<1>6. ASSUME Trashes PROVE TypeDir'
  <2>1. ASSUME AgreeToTrash PROVE TypeDir'
    BY <2>1, DirTypes DEF AgreeToTrash
  <2>2. ASSUME SnapshotBefore PROVE TypeDir'
    <3> DEFINE d == at["source"]
    <3>1. \A nm \in Names : Id(<<d, nm>>) \in Identity
      BY Places, EntryIn, IdType DEF Sides
    <3>2. d \in Folders
      BY Places DEF Sides
    <3>3. /\ sid' = d /\ before' = Snapshot(d) /\ bad' = FALSE /\ touched' = FALSE
          /\ UNCHANGED <<trashed, edits>>
      BY <2>2 DEF SnapshotBefore
    <3>5. trashed \subseteq Inodes /\ edits \in 0..MaxEdits
      BY TypeParts DEF TypeDir
    <3> HIDE DEF d
    <3>4. Snapshot(d) \in [Names -> Identity]
      BY <3>1 DEF Snapshot
    <3> QED
      BY <3>2, <3>3, <3>4, <3>5
  <2>3. ASSUME NEW nm \in Names, ProveFile(nm) PROVE TypeDir'
    BY <2>3, DirTypes DEF ProveFile
  <2>4. ASSUME SnapshotAfter PROVE TypeDir'
    BY <2>4, DirTypes DEF SnapshotAfter
  <2>5. ASSUME Send PROVE TypeDir'
    BY <2>5, DirTypes, Volume DEF Send, Exists
  <2> QED
    BY <1>6, <2>1, <2>2, <2>3, <2>4, <2>5 DEF Trashes
<1>7. ASSUME Machine PROVE TypeDir'
  <2>1. ASSUME NEW s \in Sides, NEW nm \in Names, NEW c \in Contents, EditInPlace(s, nm, c) PROVE TypeDir'
    BY <2>1, DirTypes DEF EditInPlace, MayEdit
  <2>2. ASSUME NEW s \in Sides, NEW nm \in Names, NEW c \in Contents, SaveOver(s, nm, c) PROVE TypeDir'
    BY <2>2, DirTypes DEF SaveOver, MayEdit
  <2>3. ASSUME NEW s \in Sides, NEW nm \in Names, Delete(s, nm) PROVE TypeDir'
    BY <2>3, DirTypes DEF Delete, MayEdit
  <2>4. ASSUME NEW s \in Sides, NEW nm \in Names, NEW o \in Entries, HardLink(s, nm, o) PROVE TypeDir'
    BY <2>4, DirTypes DEF HardLink, MayEdit
  <2>5. ASSUME NEW s \in Sides, SwapFolder(s) PROVE TypeDir'
    BY <2>5, DirTypes DEF SwapFolder, MayEdit
  <2> QED
    BY <1>7, <2>1, <2>2, <2>3, <2>4, <2>5 DEF Machine
<1>8. CASE UNCHANGED vars
  BY <1>8, DirTypes DEF vars
<1> QED
  BY <1>1, <1>2, <1>3, <1>4, <1>5, <1>6, <1>7, <1>8, Steps

-----------------------------------------------------------------------------
(* The invariant holds *)

\* What the scan knows of an entry is its identity and its class.
LEMMA ScanType ==
  ASSUME Init
  PROVE  known \in [Entries -> [id : Identity, class : Contents \cup {Unique}]]
<1>1. PICK l \in Layouts : content = l.content /\ known = ScanOf(l.disk, l.scanned)
  BY DEF Init
<1>2. /\ l.disk \in [Entries -> Inodes \cup {Absent}]
      /\ content \in [Inodes -> Contents]
      /\ l.scanned \subseteq {e \in Entries : l.disk[e] # Absent}
  BY <1>1, LayoutsAssumption
<1> DEFINE id(e) == IF e \in l.scanned THEN [ino |-> l.disk[e], stamp |-> 0] ELSE NoId
           class(e) == IF /\ e \in l.scanned
                          /\ \E o \in l.scanned \ {e} : content[l.disk[o]] = content[l.disk[e]]
                       THEN content[l.disk[e]] ELSE Unique
<1>3. ASSUME NEW e \in Entries
      PROVE  id(e) \in Identity /\ class(e) \in Contents \cup {Unique}
  <2>1. CASE e \in l.scanned
    <3>1. l.disk[e] \in Inodes
      BY <1>2, <2>1
    <3> QED
      BY <1>2, <2>1, <3>1 DEF Identity
  <2>2. CASE e \notin l.scanned
    BY <2>2 DEF Identity, NoId
  <2> QED
    BY <2>1, <2>2
<1>4. known = [e \in Entries |-> [id |-> id(e), class |-> class(e)]]
  BY <1>1 DEF ScanOf
<1> HIDE DEF id, class
<1> QED
  BY <1>3, <1>4

\* The types hold at the start.
LEMMA InitTypeOK == Init => TypeOK
<1> SUFFICES ASSUME Init PROVE TypeOK
  OBVIOUS
<1>1. TypeVolume
  <2>1. PICK l \in Layouts : disk = l.disk /\ content = l.content
    BY DEF Init
  <2> QED
    BY <2>1, LayoutsAssumption DEF TypeVolume, Init
<1>2. TypeControl
  <2>1. at = [s \in Sides |-> IF s = "source" THEN "A" ELSE "B"] /\ roots = at
    BY DEF Init
  <2>2. at \in [Sides -> Folders]
    BY <2>1 DEF Folders
  <2>3. /\ pc = "idle" /\ mode = "none" /\ cancel = FALSE /\ hardLinks \in BOOLEAN
        /\ expected = [f \in Files |-> NoDigest]
    BY DEF Init
  <2>4. expected \in [Files -> Contents \cup {NoDigest}]
    BY <2>3 DEF Digests
  <2>5. pc \in Points
    BY <2>3 DEF Points
  <2> QED
    BY <2>1, <2>2, <2>3, <2>4, <2>5, ScanType DEF TypeControl
<1>3. TypeRow
  <2>1. NoEntry \in {NoEntry}
    OBVIOUS
  <2> HIDE DEF NoEntry
  <2> QED
    BY NoRowType DEF TypeRow, Init
<1>4. TypeDir
  <2>1. NoId \in Identity
    BY DEF NoId, Identity
  <2>2. /\ sid = "A" /\ before = [nm \in Names |-> NoId] /\ bad = FALSE /\ touched = FALSE
        /\ trashed = {} /\ edits = 0
    BY DEF Init
  <2>3. 0 \in 0..MaxEdits
    OBVIOUS
  <2> HIDE DEF NoId
  <2> QED
    BY <2>1, <2>2, <2>3 DEF TypeDir, Folders
<1>5. TypeLeft
  BY DEF TypeLeft, Init
<1> QED
  BY <1>1, <1>2, <1>3, <1>4, <1>5, TypeParts

\* So does the invariant.
LEMMA InitInv == Init => Inv
<1> SUFFICES ASSUME Init PROVE Inv
  OBVIOUS
<1>1. TypeOK
  BY InitTypeOK
<1>2. /\ pc = "idle" /\ temp = Absent /\ trashed = {} /\ roots = at
      /\ temps = {} /\ refused = {}
      /\ at = [s \in Sides |-> IF s = "source" THEN "A" ELSE "B"]
      /\ expected = [f \in Files |-> NoDigest]
      /\ outcome = [f \in Files |-> "none"]
  BY DEF Init
<1>3. Seated
  BY <1>2 DEF Seated, Sides
<1>4. Planned /\ Digested /\ TempAlone /\ Cleared /\ Untrashed /\ Named
  BY <1>2 DEF Planned, Cleared, Digested, TempAlone, Untrashed, Named, RowPoints, AfterRead,
     AfterCheck, Writing
<1>5. Blanks
  <2>1. PICK l \in Layouts : disk = l.disk /\ content = l.content
    BY DEF Init
  <2>2. /\ disk \in [Entries -> Inodes \cup {Absent}] /\ content \in [Inodes -> Contents]
    BY <2>1, LayoutsAssumption
  <2> QED
    BY <1>2, <2>2, Volume, <1>1 DEF Blanks, Has, Exists
<1>6. ReadHeld /\ Stamped /\ Proven /\ Bracketed /\ Spared
  BY <1>2 DEF ReadHeld, Stamped, Proven, Bracketed, Spared, AfterRead, RowPoints
<1>7. LeftInPlace
  BY <1>2 DEF LeftInPlace
<1> QED
  BY <1>1, <1>3, <1>4, <1>5, <1>6, <1>7 DEF Inv

\* Every step keeps the invariant.
LEMMA StepInv ==
  ASSUME WindowsClosed, Inv, [Next]_vars
  PROVE  Inv'
<1>1. TypeOK'
  <2>1. TypeVolume' /\ TypeControl' /\ TypeLeft' /\ TypeRow' /\ TypeDir'
    BY StepTypeVolume, StepTypeControl, StepTypeLeft, StepTypeRow, StepTypeDir DEF Inv
  <2> QED
    BY <2>1, TypeParts, PTL
<1>2. Seated' /\ Planned' /\ Digested' /\ TempAlone' /\ Blanks' /\ Cleared'
  BY StepSeated, StepPlanned, StepDigested, StepTempAlone, StepBlanks, StepCleared DEF Inv
<1>3. ReadHeld' /\ Stamped' /\ Proven' /\ Named'
  BY StepReadHeld, StepStamped, StepProven, StepNamed DEF Inv
<1>4. Untrashed' /\ Bracketed' /\ Spared' /\ LeftInPlace'
  BY StepUntrashed, StepBracketed, StepSpared, StepLeftInPlace DEF Inv
<1> QED
  BY <1>1, <1>2, <1>3, <1>4 DEF Inv

\* The invariant of the merge, when nobody else acts inside one of its windows.
THEOREM MergeInvariant ==
  ASSUME WindowsClosed
  PROVE  Spec => []Inv
<1>1. Inv /\ [Next]_vars => Inv'
  BY StepInv
<1> QED
  BY <1>1, InitInv, PTL DEF Spec

\* Every variable of the merge has its type.
THEOREM MergeTypeCorrect ==
  ASSUME WindowsClosed
  PROVE  Spec => []TypeOK
<1>1. Inv => TypeOK
  BY DEF Inv
<1> QED
  BY <1>1, MergeInvariant, PTL

\* When no row is at work, the temporaries and the empty reserved names on disk are
\* those that a clean-up tried to unlink and could not.
THEOREM NothingIsLeftOver ==
  ASSUME WindowsClosed
  PROVE  Spec => []NoLeftovers
<1>1. ASSUME Inv PROVE NoLeftovers
  <2>1. ASSUME pc \notin RowPoints PROVE temps \subseteq refused
    <3>1. temp = Absent
      BY <1>1, <2>1 DEF Inv, TempAlone, Writing, RowPoints
    <3>2. Absent \notin temps
      BY <1>1, Volume DEF Inv
    <3> QED
      BY <1>1, <3>1, <3>2 DEF Inv, Cleared
  <2> QED
    BY <1>1, <2>1 DEF Inv, NoLeftovers, Blanks, Has, RowPoints
<1>2. Inv => NoLeftovers
  BY <1>1
<1> QED
  BY <1>2, MergeInvariant, PTL

\* Without a change by the rest of the machine a row that was neither moved nor
\* skipped is still in the source.
THEOREM FailedRowsStay ==
  ASSUME WindowsClosed
  PROVE  Spec => []LeftInPlace
<1>1. Inv => LeftInPlace
  BY DEF Inv
<1> QED
  BY <1>1, MergeInvariant, PTL

-----------------------------------------------------------------------------
(* What a step of the merge may do *)

\* The steps of the merge that change an entry.
LEMMA OursChange ==
  ASSUME TypeOK, [Next]_vars, Ours
  PROVE  \/ UNCHANGED <<disk, trashed>>
         \/ Link \/ Reserve \/ UnlinkSource \/ RenameOver \/ RowFails \/ Send
<1>1. CASE Machine
  <2>1. edits' = edits + 1
    BY <1>1, MachineCounts DEF machineFrame, planVars, rowVars
  <2>2. edits \in Nat
    BY DirTypes
  <2> QED
    BY <2>1, <2>2 DEF Ours
<1>2. CASE Prepares \/ Reads \/ Copies
  BY <1>2 DEF Prepares, Plan, ProveRow, RecheckRoots, Confirm, Decline, Cancel, Reads,
     TakeRow, ReadSource, StatSource, CheckDigest, SameThere, NotThere, Copies, MakeTemp,
     NotProven, CopyContent, Restat, NameTaken, NextSuffix
<1>3. CASE Publishes \/ Stops \/ Trashes
  BY <1>3 DEF Publishes, Stops, StopRow, RowsDone, Trashes, AgreeToTrash, SnapshotBefore,
     ProveFile, SnapshotAfter
<1>4. CASE UNCHANGED vars
  BY <1>4 DEF vars
<1> QED
  BY <1>1, <1>2, <1>3, <1>4, Steps

\* The steps of the merge leave what is behind a name as it is.
LEMMA OursContent ==
  ASSUME Inv, [Next]_vars, Ours, NEW e \in Entries, disk[e] # Absent
  PROVE  content'[disk[e]] = content[disk[e]]
<1> USE DEF Inv
<1>1. CASE MakeTemp \/ NotProven \/ CopyContent \/ Reserve
  BY <1>1, BehindNames
<1>2. CASE Machine
  <2>1. edits' = edits + 1
    BY <1>2, MachineCounts DEF machineFrame, planVars, rowVars
  <2>2. edits \in Nat
    BY DirTypes
  <2> QED
    BY <2>1, <2>2 DEF Ours
<1>3. UNCHANGED content \/ MakeTemp \/ NotProven \/ CopyContent \/ Reserve \/ Machine
  BY Steps DEF vars, Prepares, Plan, ProveRow, RecheckRoots, Confirm, Decline,
     Cancel, Reads, TakeRow, ReadSource, StatSource, CheckDigest, SameThere, NotThere,
     Copies, Restat, NameTaken, NextSuffix, Publishes, Link, UnlinkSource, RenameOver,
     Stops, RowFails, StopRow, RowsDone, Trashes, AgreeToTrash, SnapshotBefore, ProveFile,
     SnapshotAfter, Send
<1> QED
  BY <1>1, <1>2, <1>3

\* The last step sends the folder of the proof, and nothing else changes.
LEMMA SendEffect ==
  ASSUME TypeOK, Seated, Untrashed, Bracketed, Spared, Send, ~UNCHANGED <<disk, trashed>>
  PROVE  /\ UNCHANGED content
         /\ disk' = [e \in Entries |-> IF e[1] = sid THEN Absent ELSE disk[e]]
         /\ trashed = {}
         /\ \A e \in Entries : e[1] = sid /\ disk[e] # Absent => disk[e] \in trashed'
         /\ \A e \in Entries : e[1] = sid /\ Regular(e) => Copied(e)
<1>1. /\ pc = "send" /\ at["source"] = sid /\ ~touched /\ UNCHANGED content /\ trashed = {}
      /\ trashed' = {disk[e] : e \in {o \in Entries : o[1] = sid /\ Exists(o)}}
      /\ disk' = [e \in Entries |-> IF e[1] = sid THEN Absent ELSE disk[e]]
  BY DEF Send, Untrashed
<1>2. ASSUME NEW e \in Entries, e[1] = sid, disk[e] # Absent PROVE disk[e] \in trashed'
  <2> DEFINE P == {o \in Entries : o[1] = sid /\ Exists(o)}
  <2>1. e \in P /\ trashed' = {disk[o] : o \in P}
    BY <1>1, <1>2 DEF Exists
  <2> HIDE DEF P
  <2>2. disk[e] \in {disk[o] : o \in P}
    BY <2>1
  <2> QED
    BY <2>1, <2>2
<1>3. ASSUME NEW e \in Entries, e[1] = sid, Regular(e) PROVE Copied(e)
  <2>1. e[2] \in Names /\ e = <<sid, e[2]>>
    BY <1>3, EntryIn
  <2>2. todo = {} /\ ~bad /\ Snapshot(sid) = before
    BY <1>1 DEF Spared
  <2>3. \A nm \in Names : Regular(<<sid, nm>>) => Copied(<<sid, nm>>)
    BY <1>1, <2>2 DEF Spared
  <2> QED
    BY <1>3, <2>1, <2>3
<1> QED
  BY <1>1, <1>2, <1>3

\* A step of the merge creates only where no name was or where its own reserved
\* name is, and takes away only what it proved.
LEMMA StepForeign ==
  ASSUME Inv, [Next]_vars, Ours, NEW e \in Entries, disk'[e] # disk[e]
  PROVE  \/ /\ e = Target
            /\ disk[e] = Absent \/ content[disk[e]] = Blank
         \/ /\ e = Pinned(row.file) /\ disk'[e] = Absent
            /\ disk[e] = row.id.ino
         \/ e[1] = sid /\ trashed' # trashed
<1> USE DEF Inv
<1>1. /\ Link \/ Reserve \/ UnlinkSource \/ RenameOver \/ RowFails \/ Send
      /\ ~UNCHANGED <<disk, trashed>>
  BY OursChange
<1>2. CASE Link
  BY <1>2, LinkEffect, Volume
<1>3. CASE Reserve
  BY <1>3, ReserveEffect, Volume
<1>4. CASE UnlinkSource
  <2>1. /\ mode = "move" /\ disk' = [disk EXCEPT ![Pinned(row.file)] = Absent]
        /\ pc = "linked"
    BY <1>4 DEF UnlinkSource
  <2>2. e = Pinned(row.file) /\ disk'[e] = Absent
    BY <2>1, Volume
  <2> QED
    BY <2>1, <2>2 DEF Proven
<1>5. CASE RenameOver
  <2>1. /\ pc = "stub" /\ (e = Target \/ (/\ e = Pinned(row.file) /\ mode = "move"
                                          /\ disk'[e] = Absent))
    BY <1>5, RenameEffect
  <2> QED
    BY <2>1 DEF Proven, Blanks, Has
<1>6. CASE RowFails
  <2>1. pc = "stub" /\ e = Target
    BY <1>6, Volume DEF RowFails
  <2> QED
    BY <2>1 DEF Blanks, Has
<1>7. CASE Send
  <2>1. e[1] = sid /\ disk[e] # Absent
    BY <1>1, <1>7, SendEffect
  <2> QED
    BY <1>1, <1>7, <2>1, SendEffect
<1> QED
  BY <1>1, <1>2, <1>3, <1>4, <1>5, <1>6, <1>7

\* Nothing that is not the merge's own is overwritten or removed.
THEOREM NothingForeignTaken ==
  ASSUME WindowsClosed
  PROVE  Spec => NothingForeign
<1> DEFINE A == Ours =>
                  \A e \in Entries :
                    disk'[e] # disk[e] =>
                      \/ /\ e = Target
                         /\ disk[e] = Absent \/ content[disk[e]] = Blank
                      \/ /\ e = Pinned(row.file) /\ disk'[e] = Absent
                         /\ disk[e] = row.id.ino
                      \/ e[1] = sid /\ trashed' # trashed
<1>1. Inv /\ [Next]_vars => [A]_vars
  BY StepForeign
<1> QED
  BY <1>1, MergeInvariant, PTL DEF Spec, NothingForeign

\* What is not a step of the merge is one of the rest of the machine.
LEMMA OnlyOurs ==
  ASSUME [Next]_vars, ~Ours
  PROVE  Machine
BY Steps DEF Ours, vars, Prepares, Plan, ProveRow, RecheckRoots, Confirm, Decline,
   Cancel, Reads, TakeRow, ReadSource, StatSource, CheckDigest, SameThere, NotThere,
   Copies, MakeTemp, NotProven, CopyContent, Restat, NameTaken, NextSuffix, Publishes, Link,
   Reserve, UnlinkSource, RenameOver, Stops, RowFails, StopRow, RowsDone, Trashes,
   AgreeToTrash, SnapshotBefore, ProveFile, SnapshotAfter, Send

\* When the folder goes to the Trash, each of its files has a copy outside.
LEMMA StepOutside ==
  ASSUME Inv, [Next]_vars, trashed' # trashed,
         NEW e \in Entries, e[1] = sid, Regular(e)
  PROVE  Copied(e)
<1> USE DEF Inv
<1>1. CASE Ours
  <2>1. Send /\ ~UNCHANGED <<disk, trashed>>
    BY <1>1, OursChange DEF Link, Reserve, UnlinkSource, RenameOver, RowFails
  <2> QED
    BY <2>1, SendEffect
<1>2. CASE ~Ours
  <2>1. Machine
    BY <1>2, OnlyOurs
  <2> QED
    BY <2>1, MachineCounts DEF machineFrame, planVars, rowVars
<1> QED
  BY <1>1, <1>2

\* The folder goes to the Trash only with an independent copy of every file.
THEOREM TrashedHaveCopies ==
  ASSUME WindowsClosed
  PROVE  Spec => CopiesOutside
<1> DEFINE A == trashed' # trashed =>
                  \A e \in Entries :
                    e[1] = sid /\ Regular(e) =>
                      \E o \in Entries : /\ Outside(o) /\ Regular(o)
                                         /\ disk[o] # disk[e]
                                         /\ content[disk[o]] = content[disk[e]]
<1>1. Inv /\ [Next]_vars => [A]_vars
  BY StepOutside DEF Copied
<1> QED
  BY <1>1, MergeInvariant, PTL DEF Spec, CopiesOutside

\* A content that a file has before a step of the merge, a file has after it.
LEMMA StepKept ==
  ASSUME Inv, [Next]_vars, Ours, NEW c \in Contents, Held(c)
  PROVE  Held(c)'
<1> USE DEF Inv
<1>1. PICK e \in Entries : disk[e] # Absent /\ disk[e] \notin Links /\ content[disk[e]] = c
  BY DEF Held, Regular, Exists, IsLink
<1>2. SUFFICES \E o \in Entries : /\ disk'[o] # Absent /\ disk'[o] \notin Links
                                  /\ content'[disk'[o]] = c
  BY DEF Held, Regular, Exists, IsLink
<1>3. c # Blank
  BY Volume
<1>4. CASE UNCHANGED <<disk, trashed>>
  <2>1. content'[disk[e]] = content[disk[e]]
    BY <1>1, <1>4, OursContent
  <2> QED
    BY <1>1, <1>4, <2>1
<1>5. CASE Link
  BY <1>1, <1>5, LinkEffect, Volume
<1>6. CASE Reserve
  <2>1. content'[disk[e]] = content[disk[e]]
    BY <1>1, <1>6, BehindNames
  <2>2. disk'[e] = disk[e]
    BY <1>1, <1>6, ReserveEffect, Volume
  <2> QED
    BY <1>1, <2>1, <2>2
<1>7. CASE UnlinkSource
  <2>1. /\ disk' = (IF mode = "move" THEN [disk EXCEPT ![Pinned(row.file)] = Absent] ELSE disk)
        /\ pc = "linked" /\ UNCHANGED content
    BY <1>7 DEF UnlinkSource
  <2>2. CASE mode = "move" /\ e = Pinned(row.file)
    <3>1. disk[Target] = disk[e]
      BY <2>1, <2>2 DEF Proven, Published
    <3>2. disk'[Target] = disk[e] /\ Target \in Entries
      BY <2>1, <2>2, <3>1, RowPlaces, Volume
    <3> QED
      BY <1>1, <2>1, <3>2
  <2>3. CASE ~(mode = "move" /\ e = Pinned(row.file))
    <3>1. disk'[e] = disk[e]
      BY <2>1, <2>3, Volume
    <3> QED
      BY <1>1, <2>1, <3>1
  <2> QED
    BY <2>2, <2>3
<1>8. CASE RenameOver
  <2>1. pc = "stub" /\ UNCHANGED content
    BY <1>8, RenameEffect
  <2>2. e # Target
    BY <1>1, <1>3, <2>1 DEF Blanks, Has
  <2>3. CASE mode = "move" /\ e = Pinned(row.file)
    <3>1. disk'[Target] = disk[e] /\ Target \in Entries
      BY <1>8, <2>3, RenameEffect, RowPlaces DEF Published
    <3> QED
      BY <1>1, <2>1, <3>1
  <2>4. CASE ~(mode = "move" /\ e = Pinned(row.file))
    <3>1. disk'[e] = disk[e]
      BY <1>8, <2>2, <2>4, RenameEffect
    <3> QED
      BY <1>1, <2>1, <3>1
  <2> QED
    BY <2>3, <2>4
<1>9. CASE RowFails
  <2>1. UNCHANGED content /\ (pc = "stub" \/ UNCHANGED disk)
    BY <1>9 DEF RowFails
  <2>2. pc = "stub" => e # Target
    BY <1>1, <1>3 DEF Blanks, Has
  <2>3. disk'[e] = disk[e]
    BY <1>9, <2>1, <2>2, Volume DEF RowFails
  <2> QED
    BY <1>1, <2>1, <2>3
<1>10. CASE Send /\ ~UNCHANGED <<disk, trashed>>
  <2>1. CASE e[1] = sid
    <3>1. PICK o \in Entries : /\ o[1] # sid /\ disk[o] # Absent /\ disk[o] \notin Links
                               /\ content[disk[o]] = content[disk[e]]
      BY <1>1, <1>10, <2>1, SendEffect DEF Copied, Regular, Exists, IsLink, Outside
    <3> QED
      BY <1>1, <1>10, <3>1, SendEffect
  <2>2. CASE e[1] # sid
    BY <1>1, <1>10, <2>2, SendEffect
  <2> QED
    BY <2>1, <2>2
<1> QED
  BY <1>4, <1>5, <1>6, <1>7, <1>8, <1>9, <1>10, OursChange

\* Neither a row nor the whole folder takes away the last copy of a content.
THEOREM ContentIsKept ==
  ASSUME WindowsClosed
  PROVE  Spec => ContentKept
<1> DEFINE A == Ours => \A c \in Contents : Held(c) => Held(c)'
<1>1. Inv /\ [Next]_vars => [A]_vars
  BY StepKept
<1> QED
  BY <1>1, MergeInvariant, PTL DEF Spec, ContentKept

-----------------------------------------------------------------------------
(* The merge implements Relocation *)

\* Where a content is, as Where has it for the content of a planned file.
Elsewhere(c) == \/ \E e \in Entries : e[1] # roots["source"] /\ Has(e, c)
                \/ \E i \in trashed \cap Links : content[i] = c
Somewhere(c) == Elsewhere(c) \/ \E e \in Entries : Has(e, c)

\* The two ways to say it agree.
LEMMA WhereIs ==
  ASSUME NEW f \in Files
  PROVE  /\ Where(f) \subseteq {"source", "elsewhere"}
         /\ "elsewhere" \in Where(f) <=> Elsewhere(expected[f])
         /\ Where(f) # {} <=> Somewhere(expected[f])
         /\ \A e \in Entries : e[1] = roots["source"] /\ Has(e, expected[f]) =>
              "source" \in Where(f)
BY DEF Where, Elsewhere, Somewhere

\* What is in the Trash stays there, as it is.
LEMMA TrashStays ==
  ASSUME Inv, [Next]_vars, Ours, NEW i \in trashed
  PROVE  UNCHANGED <<content, trashed, disk>>
<1> USE DEF Inv
<1>1. pc = "done"
  BY DEF Untrashed
<1>2. ~(Link \/ Reserve \/ UnlinkSource \/ RenameOver \/ RowFails \/ Send)
  BY <1>1 DEF Link, Reserve, UnlinkSource, RenameOver, RowFails, Send, RowPoints
<1>3. UNCHANGED <<disk, trashed>>
  BY <1>2, OursChange
<1>4. UNCHANGED content
  <2>1. CASE Machine
    <3>1. edits' = edits + 1
      BY <2>1, MachineCounts DEF machineFrame, planVars, rowVars
    <3>2. edits \in Nat
      BY DirTypes
    <3> QED
      BY <3>1, <3>2 DEF Ours
  <2>2. CASE UNCHANGED vars
    BY <2>2 DEF vars
  <2>3. CASE Prepares \/ Reads \/ Copies
    BY <1>1, <2>3 DEF Prepares, Plan, ProveRow, RecheckRoots, Confirm, Decline, Cancel,
       Reads, TakeRow, ReadSource, StatSource, CheckDigest, SameThere, NotThere, Copies,
       MakeTemp, NotProven, CopyContent, Restat, NameTaken, NextSuffix
  <2>4. CASE Publishes \/ Stops \/ Trashes
    BY <1>1, <2>4 DEF Publishes, Link, Reserve, UnlinkSource, RenameOver, Stops, RowFails,
       StopRow, RowsDone, Trashes, AgreeToTrash, SnapshotBefore, ProveFile, SnapshotAfter,
       Send
  <2> QED
    BY <2>1, <2>2, <2>3, <2>4, Steps
<1> QED
  BY <1>3, <1>4

\* A step of the merge takes a content away from an entry only if it is elsewhere
\* afterwards; the entry is then of the planned source, or of the folder sent.
LEMMA EntryStays ==
  ASSUME Inv, [Next]_vars, Ours, UNCHANGED roots, NEW c \in Contents,
         NEW e \in Entries, Has(e, c)
  PROVE  (Has(e, c))' \/ Elsewhere(c)'
<1> USE DEF Inv
<1>1. disk[e] # Absent /\ content[disk[e]] = c /\ c # Blank
  BY Volume DEF Has, Exists
<1>2. content'[disk[e]] = c
  BY <1>1, OursContent
<1>3. CASE disk'[e] = disk[e]
  BY <1>1, <1>2, <1>3 DEF Has, Exists
<1>4. CASE disk'[e] # disk[e]
  <2>1. /\ Link \/ Reserve \/ UnlinkSource \/ RenameOver \/ RowFails \/ Send
        /\ ~UNCHANGED <<disk, trashed>>
    BY <1>4, OursChange
  <2>2. Target \in Entries /\ Target[1] # roots["source"]
    BY RowPlaces, Places DEF Sides
  <2>3. CASE UnlinkSource
    <3>1. /\ mode = "move" /\ pc = "linked" /\ UNCHANGED content
          /\ disk' = [disk EXCEPT ![Pinned(row.file)] = Absent]
      BY <1>4, <2>3 DEF UnlinkSource
    <3>2. e = Pinned(row.file) /\ Target # e
      BY <1>4, <3>1, RowPlaces, Volume
    <3>3. disk[Target] = disk[e]
      BY <3>1, <3>2 DEF Proven, Published
    <3>4. disk'[Target] = disk[e]
      BY <2>2, <3>1, <3>2, <3>3, Volume
    <3> QED
      BY <1>1, <1>2, <2>2, <3>4 DEF Elsewhere, Has, Exists
  <2>4. CASE RenameOver
    <3>1. pc = "stub"
      BY <2>4, RenameEffect
    <3>2. e # Target
      BY <1>1, <3>1 DEF Blanks, Has
    <3>3. mode = "move" /\ e = Pinned(row.file)
      BY <1>4, <2>4, <3>2, RenameEffect
    <3>4. disk'[Target] = disk[e]
      BY <2>2, <2>4, <3>3, RenameEffect DEF Published
    <3> QED
      BY <1>1, <1>2, <2>2, <3>4 DEF Elsewhere, Has, Exists
  <2>5. CASE Send
    <3>1. e[1] = sid
      BY <1>4, <2>1, <2>5, SendEffect
    <3>2. CASE disk[e] \in Links
      <4>1. disk[e] \in trashed'
        BY <1>1, <2>1, <2>5, <3>1, SendEffect
      <4> QED
        BY <1>2, <3>2, <4>1 DEF Elsewhere
    <3>3. CASE disk[e] \notin Links
      <4>1. Copied(e)
        BY <1>1, <2>1, <2>5, <3>1, <3>3, SendEffect DEF Regular, Exists, IsLink
      <4>2. PICK o \in Entries : /\ o[1] # sid /\ o[1] # roots["source"] /\ disk[o] # Absent
                                 /\ content[disk[o]] = c
        BY <1>1, <4>1 DEF Copied, Outside, Regular, Exists
      <4>3. disk'[o] = disk[o] /\ UNCHANGED content
        BY <2>1, <2>5, <4>2, SendEffect
      <4> QED
        BY <4>2, <4>3 DEF Elsewhere, Has, Exists
    <3> QED
      BY <3>2, <3>3
  <2>6. CASE Link
    BY <1>1, <1>4, <2>6, LinkEffect, Volume
  <2>7. CASE Reserve
    BY <1>1, <1>4, <2>7, ReserveEffect, Volume
  <2>8. CASE RowFails
    <3>1. pc = "stub" /\ e = Target
      BY <1>4, <2>8, Volume DEF RowFails
    <3> QED
      BY <1>1, <3>1 DEF Blanks, Has
  <2> QED
    BY <2>1, <2>3, <2>4, <2>5, <2>6, <2>7, <2>8
<1> QED
  BY <1>3, <1>4

\* A content that is elsewhere stays elsewhere, and one that is somewhere stays.
LEMMA ContentsStay ==
  ASSUME Inv, [Next]_vars, Ours, UNCHANGED roots, NEW c \in Contents
  PROVE  /\ Elsewhere(c) => Elsewhere(c)'
         /\ Somewhere(c) => Somewhere(c)'
<1>1. ASSUME NEW i \in trashed \cap Links, content[i] = c PROVE Elsewhere(c)'
  BY <1>1, TrashStays DEF Elsewhere
<1>2. ASSUME NEW e \in Entries, Has(e, c) PROVE (Has(e, c))' \/ Elsewhere(c)'
  BY <1>2, EntryStays
<1>3. Elsewhere(c) => Elsewhere(c)'
  <2>1. ASSUME NEW e \in Entries, e[1] # roots["source"], Has(e, c) PROVE Elsewhere(c)'
    BY <1>2, <2>1 DEF Elsewhere
  <2> QED
    BY <1>1, <2>1 DEF Elsewhere
<1>4. Somewhere(c) => Somewhere(c)'
  BY <1>2, <1>3 DEF Somewhere
<1> QED
  BY <1>3, <1>4

\* A row that ends well ends with its content in the target folder.
LEMMA EndsWell ==
  ASSUME Inv, SameThere \/ UnlinkSource \/ RenameOver, NEW f \in Files, f = row.file
  PROVE  Elsewhere(expected[f])'
<1> USE DEF Inv
<1>1. Target \in Entries /\ Target[1] # roots["source"] /\ Pinned(row.file) # Target
  BY RowPlaces, Places DEF Sides
<1>2. UNCHANGED <<expected, roots, content>>
  BY DEF SameThere, UnlinkSource, RenameOver
<1>3. disk'[Target] # Absent /\ content[disk'[Target]] = expected[row.file]
  <2>1. CASE SameThere
    <3>1. row.digest = expected[row.file]
      BY <2>1 DEF SameThere, Digested, AfterCheck, AfterRead, RowPoints
    <3> QED
      BY <2>1, <3>1 DEF SameThere, Holds, Exists
  <2>2. CASE UnlinkSource
    <3>1. pc = "linked" /\ disk'[Target] = disk[Target]
      BY <1>1, <2>2, Volume DEF UnlinkSource
    <3> QED
      BY <3>1, PublishedIs, Volume DEF Proven
  <2>3. CASE RenameOver
    <3>1. pc = "stub" /\ disk'[Target] = Published
      BY <1>1, <2>3, RenameEffect
    <3> QED
      BY <3>1, PublishedIs, Volume
  <2> QED
    BY <2>1, <2>2, <2>3
<1>4. PICK t \in Entries : t = Target
  BY <1>1
<1>5. Has(t, expected[f])'
  BY <1>2, <1>3, <1>4 DEF Has, Exists
<1> QED
  BY <1>1, <1>2, <1>4, <1>5 DEF Elsewhere

\* What a step of the merge does to the reports: it plans a file, ends a row, or
\* leaves them alone.
Reports(f, o) ==
  /\ expected[f] # NoDigest /\ outcome[f] = "none"
  /\ outcome' = [outcome EXCEPT ![f] = o] /\ UNCHANGED <<expected, roots>>
  /\ o # "failed" => Elsewhere(expected[f])'

LEMMA StepReports ==
  ASSUME Inv, [Next]_vars, Ours
  PROVE  \/ UNCHANGED <<expected, outcome, roots>>
         \/ Plan
         \/ \E f \in Files : ProveRow(f)
         \/ \E f \in Files, o \in {"moved", "skipped", "failed"} : Reports(f, o)
<1> USE DEF Inv
<1> DEFINE Goal == \/ UNCHANGED <<expected, outcome, roots>>
                   \/ Plan
                   \/ \E f \in Files : ProveRow(f)
                   \/ \E f \in Files, o \in {"moved", "skipped", "failed"} : Reports(f, o)
<1> SUFFICES Goal
  OBVIOUS
<1>1. pc \in RowPoints => /\ expected[row.file] # NoDigest /\ outcome[row.file] = "none"
                          /\ row.file \in Files
  BY Volume DEF Planned
<1>2. CASE Machine
  <2>1. edits' = edits + 1
    BY <1>2, MachineCounts DEF machineFrame, planVars, rowVars
  <2>2. edits \in Nat
    BY DirTypes
  <2> QED
    BY <2>1, <2>2 DEF Ours
<1>3. CASE Prepares
  BY <1>3 DEF Prepares, RecheckRoots, Confirm, Decline, Cancel
<1>4. ASSUME NEW f \in Files, TakeRow(f) PROVE Goal
  <2>1. expected[f] # NoDigest /\ outcome[f] = "none" /\ UNCHANGED <<expected, roots>>
    BY <1>4 DEF TakeRow, Planned
  <2>2. UNCHANGED outcome \/ outcome' = [outcome EXCEPT ![f] = "failed"]
    BY <1>4 DEF TakeRow
  <2> QED
    BY <2>1, <2>2 DEF Reports
<1>5. CASE ReadSource \/ StatSource \/ CheckDigest \/ MakeTemp \/ NotProven
            \/ CopyContent \/ Restat
  <2>1. /\ pc \in RowPoints /\ UNCHANGED <<expected, roots>>
        /\ UNCHANGED outcome \/ outcome' = [outcome EXCEPT ![row.file] = "failed"]
    BY <1>5 DEF ReadSource, StatSource, CheckDigest, MakeTemp, NotProven,
       CopyContent, Restat, RowPoints
  <2> QED
    BY <1>1, <2>1 DEF Reports
<1>6. CASE SameThere \/ UnlinkSource \/ RenameOver
  <2>1. /\ pc \in RowPoints /\ UNCHANGED <<expected, roots>>
        /\ \E o \in {"moved", "skipped"} : outcome' = [outcome EXCEPT ![row.file] = o]
    BY <1>6 DEF SameThere, UnlinkSource, RenameOver, RowPoints
  <2>2. PICK f \in Files : f = row.file
    BY <1>1, <2>1
  <2>3. Elsewhere(expected[f])'
    BY <1>6, <2>2, EndsWell
  <2>4. PICK o \in {"moved", "skipped"} : outcome' = [outcome EXCEPT ![f] = o]
    BY <2>1, <2>2
  <2>5. Reports(f, o)
    BY <1>1, <2>1, <2>2, <2>3, <2>4 DEF Reports
  <2> QED
    BY <2>5
<1>7. CASE RowFails \/ StopRow
  <2>1. /\ pc \in RowPoints /\ UNCHANGED <<expected, roots>>
        /\ \/ outcome' = [outcome EXCEPT ![row.file] = outcome[row.file]]
           \/ outcome' = [outcome EXCEPT ![row.file] = "failed"]
    BY <1>7 DEF RowFails, StopRow, RowPoints
  <2>2. outcome = [outcome EXCEPT ![row.file] = outcome[row.file]]
    BY Volume
  <2> QED
    BY <1>1, <2>1, <2>2 DEF Reports
<1>8. CASE NotThere \/ NameTaken \/ NextSuffix \/ Link \/ Reserve \/ RowsDone \/ Trashes
  BY <1>8 DEF NotThere, NameTaken, NextSuffix, Link, Reserve, RowsDone, Trashes,
     AgreeToTrash, SnapshotBefore, ProveFile, SnapshotAfter, Send
<1>9. CASE UNCHANGED vars
  BY <1>9 DEF vars
<1> HIDE DEF Goal
<1>10. Goal
  BY <1>2, <1>3, <1>4, <1>5, <1>6, <1>7, <1>8, <1>9, Steps
     DEF Reads, Copies, Publishes, Stops
<1> QED
  BY <1>10

\* The variables of Relocation.
where  == [f \in Files |-> IF expected[f] = NoDigest THEN {} ELSE Where(f)]
report == [f \in Files |-> IF expected[f] = NoDigest THEN "none"
                           ELSE IF outcome[f] = "none" THEN "open" ELSE outcome[f]]

LEMMA WhereType ==
  /\ where \in [Files -> SUBSET Promise!Places]
  /\ \A f \in Files : where[f] = IF expected[f] = NoDigest THEN {} ELSE Where(f)
  /\ \A f \in Files : report[f] = IF expected[f] = NoDigest THEN "none"
                                  ELSE IF outcome[f] = "none" THEN "open" ELSE outcome[f]
BY WhereIs DEF where, report, Promise!Places

\* A step of the merge that plans nothing loses no content.
LEMMA StepShift ==
  ASSUME Inv, [Next]_vars, Ours, UNCHANGED <<expected, roots>>
  PROVE  Promise!Shift
<1>1. ASSUME NEW f \in Files, report[f] # "none"
      PROVE  /\ "elsewhere" \in where[f] => "elsewhere" \in where'[f]
             /\ where[f] # {} => where'[f] # {}
  <2>1. expected[f] # NoDigest
    BY <1>1, WhereType
  <2>2. expected[f] \in Contents
    BY <2>1, TypeParts DEF Inv, TypeControl
  <2>3. where[f] = Where(f) /\ where'[f] = Where(f)'
    BY <2>1 DEF where
  <2> DEFINE c == expected[f]
  <2>4. /\ "elsewhere" \in Where(f) <=> Elsewhere(c)
        /\ Where(f) # {} <=> Somewhere(c)
    BY WhereIs
  <2>5. /\ ("elsewhere" \in Where(f) <=> Elsewhere(c))'
        /\ (Where(f) # {} <=> Somewhere(c))'
    BY WhereIs, PTL
  <2>6. /\ Elsewhere(c) => Elsewhere(c)'
        /\ Somewhere(c) => Somewhere(c)'
    BY <2>2, ContentsStay
  <2> QED
    BY <2>3, <2>4, <2>5, <2>6
<1>2. where' \in [Files -> SUBSET Promise!Places]
  <2>1. \A f \in Files : Where(f)' \subseteq {"source", "elsewhere"}
    BY DEF Where
  <2> QED
    BY <2>1 DEF where, Promise!Places
<1> QED
  BY <1>1, <1>2 DEF Promise!Shift, where, report, Ours

\* Before the plan nothing is proven or reported.
LEMMA PromiseInit == Init => Promise!Init
<1> SUFFICES ASSUME Init PROVE Promise!Init
  OBVIOUS
<1>1. expected = [f \in Files |-> NoDigest] /\ edits = 0
  BY DEF Init
<1>2. where = [f \in Files |-> {}] /\ report = [f \in Files |-> "none"]
  BY <1>1 DEF where, report
<1>3. where \in [Files -> SUBSET Promise!Places]
  BY <1>2
<1> QED
  BY <1>1, <1>2, <1>3 DEF Promise!Init, where, report

\* A file that is planned was read in full, in the source unless it was replaced.
LEMMA StepProve ==
  ASSUME Inv, NEW f \in Files, ProveRow(f)
  PROVE  Promise!Prove(f) \/ UNCHANGED <<where, report, edits>>
<1> USE DEF Inv
<1>1. /\ UNCHANGED <<disk, content, at, roots, outcome, trashed, edits>>
      /\ pc = "digest" /\ First(f) \in todo
  BY DEF ProveRow
<1>2. CASE UNCHANGED expected
  BY <1>1, <1>2 DEF where, report, Where, Has, Exists
<1>3. CASE ~UNCHANGED expected
  <2>1. Exists(Src(f)) /\ expected' = [expected EXCEPT ![f] = content[disk[Src(f)]]]
    BY <1>3 DEF ProveRow, Readable
  <2>2. Src(f) \in Entries /\ Src(f)[1] = at["source"]
    BY RowPlaces
  <2>3. expected[f] = NoDigest /\ outcome[f] = "none"
    BY <1>1 DEF Planned
  <2>4. content[disk[Src(f)]] # NoDigest
    BY <1>1, <2>1, <2>2, Volume DEF Blanks, Has, Exists, NoDigest, Blank
  <2>5. expected \in [Files -> Contents \cup {NoDigest}]
    BY TypeParts DEF TypeControl
  <2>6. /\ expected'[f] = content[disk[Src(f)]]
        /\ \A g \in Files : g # f => expected'[g] = expected[g]
    BY <2>1, <2>5
  <2>7. report[f] = "none" /\ report' = [report EXCEPT ![f] = "open"]
    <3>1. report[f] = "none"
      BY <2>3 DEF report
    <3>2. ASSUME NEW g \in Files PROVE report'[g] = IF g = f THEN "open" ELSE report[g]
      BY <1>1, <2>3, <2>4, <2>6 DEF report
    <3> QED
      BY <3>1, <3>2 DEF report
  <2>8. where' = [where EXCEPT ![f] = Where(f)']
    <3>1. ASSUME NEW g \in Files, g # f PROVE where'[g] = where[g]
      <4>1. expected'[g] = expected[g]
        BY <2>6, <3>1
      <4>2. \A e \in Entries : Has(e, expected[g])' <=> Has(e, expected[g])
        BY <1>1, <4>1 DEF Has, Exists
      <4>3. Where(g)' = Where(g)
        BY <1>1, <4>1, <4>2 DEF Where
      <4> QED
        BY <4>1, <4>3 DEF where
    <3>2. where'[f] = Where(f)'
      BY <2>4, <2>6 DEF where
    <3> QED
      BY <3>1, <3>2 DEF where
  <2>9. Where(f)' \in SUBSET Promise!Places
    BY DEF Where, Promise!Places
  <2>10. edits = 0 => "source" \in Where(f)'
    <3>1. SUFFICES ASSUME edits = 0 PROVE "source" \in Where(f)'
      OBVIOUS
    <3>2. Src(f)[1] = roots["source"]
      BY <2>2, <3>1, Undisturbed
    <3>3. PICK e \in Entries : e = Src(f)
      BY <2>2
    <3>4. Has(e, expected[f])' /\ e[1] = roots'["source"]
      BY <1>1, <2>1, <2>6, <3>2, <3>3 DEF Has, Exists
    <3> QED
      BY <3>4 DEF Where
  <2> QED
    BY <1>1, <2>7, <2>8, <2>9, <2>10 DEF Promise!Prove, where, report
<1> QED
  BY <1>2, <1>3

\* Every step of the merge is one that Relocation allows, or changes nothing of it.
LEMMA PromiseStep ==
  ASSUME Inv, [Next]_vars
  PROVE  [Promise!Next]_(Promise!vars)
<1> USE DEF Inv
<1> DEFINE Goal == Promise!Next \/ UNCHANGED <<where, report, edits>>
<1>1. SUFFICES Goal
  BY DEF Promise!vars, where, report
<1>2. CASE ~Ours
  <2>1. Machine
    BY <1>2, OnlyOurs
  <2>2. /\ edits' = edits + 1 /\ UNCHANGED <<expected, outcome>>
    BY <2>1, MachineCounts DEF machineFrame, planVars, rowVars
  <2>3. report' = report
    BY <2>2 DEF report
  <2>4. where' \in [Files -> SUBSET Promise!Places]
    <3>1. \A f \in Files : Where(f)' \subseteq {"source", "elsewhere"}
      BY DEF Where
    <3> QED
      BY <3>1 DEF where, Promise!Places
  <2>5. Promise!Disturb
    BY <2>2, <2>3, <2>4 DEF Promise!Disturb, where, report
  <2> QED
    BY <2>5 DEF Promise!Next
<1>3. CASE Ours /\ UNCHANGED <<expected, outcome, roots>>
  <2>1. Promise!Shift
    BY <1>3, StepShift
  <2>2. report' = report
    BY <1>3 DEF report
  <2> QED
    BY <2>1, <2>2 DEF Promise!Next, where, report
<1>4. CASE Ours /\ Plan
  <2>1. /\ \A f \in Files : expected[f] = NoDigest
        /\ UNCHANGED <<expected, edits>>
    BY <1>4 DEF Plan, Planned
  <2>2. UNCHANGED <<where, report>>
    BY <2>1 DEF where, report
  <2> QED
    BY <2>1, <2>2
<1>5. ASSUME NEW f \in Files, ProveRow(f) PROVE Goal
  BY <1>5, StepProve DEF Promise!Next
<1>6. ASSUME Ours, NEW f \in Files, NEW o \in {"moved", "skipped", "failed"}, Reports(f, o)
      PROVE  Goal
  <2>1. /\ expected[f] # NoDigest /\ outcome[f] = "none"
        /\ outcome' = [outcome EXCEPT ![f] = o] /\ UNCHANGED <<expected, roots>>
        /\ o # "failed" => Elsewhere(expected[f])'
    BY <1>6 DEF Reports
  <2>2. outcome'[f] = o /\ \A g \in Files : g # f => outcome'[g] = outcome[g]
    BY <2>1, Volume
  <2>3. report[f] = "open"
    BY <2>1 DEF report
  <2>4. report' = [report EXCEPT ![f] = o]
    <3>1. ASSUME NEW g \in Files PROVE report'[g] = IF g = f THEN o ELSE report[g]
      BY <2>1, <2>2 DEF report
    <3> QED
      BY <3>1 DEF report
  <2>5. o # "failed" => "elsewhere" \in where'[f]
    <3>1. Elsewhere(expected[f])' => "elsewhere" \in Where(f)'
      BY DEF Elsewhere, Where
    <3>2. where'[f] = Where(f)'
      BY <2>1 DEF where
    <3> QED
      BY <2>1, <3>1, <3>2
  <2>6. Promise!Shift
    BY <1>6, <2>1, StepShift
  <2>7. Promise!Report(f)
    BY <2>3, <2>4, <2>5, <2>6 DEF Promise!Report, where, report
  <2> QED
    BY <2>7 DEF Promise!Next
<1> HIDE DEF Goal
<1> QED
  BY <1>2, <1>3, <1>4, <1>5, <1>6, StepReports

\* The merge keeps the promise of Relocation, whatever happens outside the windows.
THEOREM MergeRelocates ==
  ASSUME WindowsClosed
  PROVE  Spec => Relocates
<1>1. Inv /\ [Next]_vars => [Promise!Next]_(Promise!vars)
  BY PromiseStep
<1> QED
  BY <1>1, PromiseInit, MergeInvariant, PTL DEF Spec, Relocates, Promise!Spec
==============================================================================
