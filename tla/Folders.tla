------------------------------ MODULE Folders ------------------------------
(***************************************************************************)
(* What is computed from the result of a scan, without any I/O: groups of  *)
(* identical files, a manifest (Merkle digest) of every folder, groups of  *)
(* identical folders, pairs of similar ones, clusters, the comparison of   *)
(* two folders, whether a folder was read whole, and the result without    *)
(* paths that were removed.                                                *)
(*                                                                         *)
(* A path is <<folder, name>>.  A result is a record: meta and class give  *)
(* the files the walk took their identity and content class, ok tells of a *)
(* folder it opened whether its manifest is whole, children, links and     *)
(* aliases are what else it has, failed are folders with a failed read.    *)
(* dir_files, class_paths and class_size are functions of meta and class.  *)
(***************************************************************************)
EXTENDS Integers, SequencesExt

CONSTANTS
  Dirs,         \* the folders there may be
  ParentOf,     \* the folder a folder is in; Above for a root
  DirName,      \* the name of a folder in its parent
  Above,        \* the folder the roots are in, never scanned
  Undated,      \* identities of files with a time before 1970
  MaxItems,     \* _MAX_STATE_ITEMS
  MaxDocument   \* _MAX_SESSION_BYTES, in items

\* No folder is inside itself, and no two in one folder have one name.
ASSUME TreeAssumption ==
  /\ Above \notin Dirs
  /\ ParentOf \in [Dirs -> Dirs \cup {Above}]
  /\ DirName \in [Dirs -> Nat]
  /\ \A ds \in (SUBSET Dirs) \ {{}} : \E d \in ds : ParentOf[d] \notin ds
  /\ \A d, e \in Dirs : <<ParentOf[d], DirName[d]>> = <<ParentOf[e], DirName[e]>> =>
                         d = e

\* A volume has finitely many.
ASSUME FoldersAssumption ==
  IsFiniteSet(Dirs) /\ {MaxItems, MaxDocument} \subseteq Nat

\* Maps: the empty one, one more value, the values of another map.
Map0 == [x \in {} |-> x]

Put(f, x, v) == [y \in DOMAIN f \cup {x} |-> IF y = x THEN v ELSE f[y]]

Over(new, f) ==
  [y \in DOMAIN new \cup DOMAIN f |-> IF y \in DOMAIN new THEN new[y] ELSE f[y]]

Unique(p)        == [of |-> p, size |-> 0, digest |-> ""]       \* "u:n"
Class(n, digest) == [of |-> <<>>, size |-> n, digest |-> digest]
Shared(c)        == c.of = <<>>                                 \* not "u:n"

NewResult ==
  [meta |-> Map0, class |-> Map0, ok |-> Map0, children |-> Map0,
   links |-> Map0, aliases |-> Map0, failed |-> {}, partial |-> FALSE,
   fileGroups |-> {}, dirGroups |-> {}, pairs |-> {}]

Ancestors ==                    \* of a folder, itself among them
  LET up[d \in Dirs] ==
        {d} \cup (IF ParentOf[d] = Above THEN {} ELSE up[ParentOf[d]])
  IN  up

Inside(d, top)   == d \in Dirs /\ top \in Ancestors[d]
Below(r, top)    == {d \in DOMAIN r.ok : Inside(d, top)}
FilesIn(r, d)    == {p \in DOMAIN r.meta : p[1] = d}
FilesUnder(r, d) == {p \in DOMAIN r.meta : Inside(p[1], d)}
SizeSum(r, ps)   == SumFunction([p \in ps |-> r.meta[p].size])

\* class_paths: the paths of a class.
Members(r, c) == {p \in DOMAIN r.class : r.class[p] = c}
Classes(r) == {c \in {r.class[p] : p \in DOMAIN r.class} : Shared(c)}

\* Mutant: a group of two is forgotten.
FileGroupsOverTwo(r) ==
  {g \in {Members(r, c) : c \in Classes(r)} : Cardinality(g) > 2}

FileGroups(r) ==
  {g \in {Members(r, c) : c \in Classes(r)} : Cardinality(g) >= 2}

\* The manifest of a folder: its files, its links, the further names of hard
\* linked files and its subfolders, each kind in the order of the names.  Not
\* ok: something in it was not read or has no digest.
ByName(S) ==
  [n \in 1..Cardinality(S) |->
     CHOOSE x \in S : Cardinality({y \in S : y[2] <= x[2]}) = n]

Row(r, man, x) ==
  CASE x[1] = "F" -> <<"F", x[2], r.class[x[3]]>>
    [] x[1] = "L" -> <<"L", x[2], x[3]>>
    [] x[1] = "D" -> <<"D", x[2], man[x[3]].rows>>

Manifests(r) ==
  LET man[d \in DOMAIN r.ok] ==
        LET files == {<<"F", p[2], p>> : p \in FilesIn(r, d)}
            also  == {<<"F", a[1][2], a[2]>> : a \in r.aliases[d]}
            subs  == {<<"D", DirName[k], k>> : k \in r.children[d]}
            whole == /\ r.ok[d]
                     /\ \A x \in files \cup also : x[3] \in DOMAIN r.class
                     /\ \A k \in r.children[d] :
                          k \in DOMAIN r.ok /\ man[k].ok
            entries == ByName(files) \o ByName(r.links[d]) \o ByName(also)
                       \o ByName(subs)
        IN  [ok   |-> whole,
             rows |-> IF whole
                      THEN [i \in DOMAIN entries |-> Row(r, man, entries[i])]
                      ELSE <<>>]
  IN  [d \in DOMAIN r.ok |-> man[d]]

\* Groups of folders with one manifest, less those inside a grouped folder.
DirGroupsOf(man) ==
  LET like(d)    == {e \in DOMAIN man : man[e].ok /\ man[e] = man[d]}
      grouped    == {d \in DOMAIN man : man[d].ok /\ Cardinality(like(d)) >= 2}
      covered(d) == (Ancestors[d] \ {d}) \cap grouped # {}
  IN  {g \in {{e \in like(d) : ~covered(e)} : d \in grouped} :
         Cardinality(g) >= 2}

\* Two folders with a common class, and their parents in step, for as long as
\* both were scanned and the parents differ.
Aligned(r) ==
  LET up[ab \in Dirs \X Dirs] ==
        LET pa == ParentOf[ab[1]]
            pb == ParentOf[ab[2]]
        IN  {{ab[1], ab[2]}} \cup
            (IF pa # pb /\ {pa, pb} \subseteq DOMAIN r.ok
             THEN up[<<pa, pb>>] ELSE {})
  IN  up

Copies(r, d, c) == Cardinality(FilesUnder(r, d) \cap Members(r, c))

\* Mutant: counts the side with more copies of a class.
SharedBytesOfMore(r, a, b) ==
  SumFunction([c \in {x \in Classes(r) : Copies(r, a, x) * Copies(r, b, x) > 0} |->
                 c.size * (IF Copies(r, a, c) > Copies(r, b, c)
                           THEN Copies(r, a, c) ELSE Copies(r, b, c))])

SharedBytes(r, a, b) ==
  SumFunction([c \in Classes(r) |->
                 c.size * (IF Copies(r, a, c) < Copies(r, b, c)
                           THEN Copies(r, a, c) ELSE Copies(r, b, c))])

Percent(r, a, b) == (200 * SharedBytes(r, a, b))
                    \div (SizeSum(r, FilesUnder(r, a)) +
                          SizeSum(r, FilesUnder(r, b)))

SimilarPairs(r, man) ==
  LET holders(c) == {p[1] : p \in Members(r, c)}
      met == UNION {Aligned(r)[ab] :
               ab \in {x \in UNION {holders(c) \X holders(c) :
                                        c \in Classes(r)} :
                          x[1] # x[2]}}
      similar(a, b) == /\ ~Inside(a, b) /\ ~Inside(b, a)
                       /\ ~(man[a].ok /\ man[a] = man[b])
                       /\ SharedBytes(r, a, b) > 0
  IN  {ab \in met : Cardinality(ab) = 2 /\
                    \A a, b \in ab : a # b => similar(a, b)}

\* _aggregate: what the result shows, published at once; man are its manifests.
Aggregated(r, man) ==
  [r EXCEPT !.fileGroups = FileGroups(r), !.dirGroups = DirGroupsOf(man),
            !.pairs = SimilarPairs(r, man)]

\* _publish_partial_file_groups: only what is proven without the folders.
PartlyPublished(r) ==
  [r EXCEPT !.partial = TRUE, !.fileGroups = FileGroups(r),
            !.dirGroups = {}, !.pairs = {}]

\* The folders a traversal of dir_children from d comes to.
Reached(r, d) ==
  {d} \cup UNION {r.children[e] : e \in Below(r, d)}

\* Mutant: takes a folder the walk never opened for one without a failure.
TreeWithoutFailure(r, d) ==
  \A e \in Reached(r, d) \cap DOMAIN r.ok : r.ok[e] \/ e \notin r.failed

TreeMergeable(r, d) ==
  \A e \in Reached(r, d) : e \in DOMAIN r.ok /\ (r.ok[e] \/ e \notin r.failed)

\* The result without what was removed: a path that is no scanned file stands
\* for everything below it.
Pruned(r, removed) ==
  LET tops    == removed \ DOMAIN r.meta
      gone(d) == \E e \in Ancestors[d] : <<ParentOf[e], DirName[e]>> \in tops
      meta    == {p \in DOMAIN r.meta : p \notin removed /\ ~gone(p[1])}
      dirs    == {d \in DOMAIN r.ok : ~gone(d)}
  IN  [NewResult EXCEPT
         !.partial  = r.partial,
         !.meta     = Restrict(r.meta, meta),
         !.class    = Restrict(r.class, meta \cap DOMAIN r.class),
         !.ok       = Restrict(r.ok, dirs),
         !.children = [d \in dirs |-> r.children[d] \cap dirs],
         !.links    = Restrict(r.links, dirs),
         !.aliases  = [d \in dirs |->
                         {a \in r.aliases[d] : /\ a[2] \in meta
                                               /\ a[1] \notin tops}]]

\* A session file holds what the scan found and nothing computed from it.
Document(r) ==
  [meta |-> r.meta, class |-> r.class, ok |-> r.ok, children |-> r.children,
   links |-> r.links, aliases |-> r.aliases, failed |-> r.failed,
   partial |-> r.partial]

ReadBack(doc) ==
  [NewResult EXCEPT
     !.meta = doc.meta, !.class = doc.class, !.ok = doc.ok,
     !.children = doc.children, !.links = doc.links, !.aliases = doc.aliases,
     !.failed = doc.failed, !.partial = doc.partial]

\* No section and no list in one has more than MaxItems, and all are no more
\* than the largest file that is read.
Fits(r) ==
  LET lists(d) == <<Cardinality(r.children[d]), Cardinality(r.links[d]),
                    Cardinality(r.aliases[d])>>
      all(d)   == lists(d)[1] + lists(d)[2] + lists(d)[3]
  IN  /\ Cardinality(DOMAIN r.meta) <= MaxItems
      /\ Cardinality(DOMAIN r.ok) <= MaxItems
      /\ \A d \in DOMAIN r.ok : \A i \in 1..3 : lists(d)[i] <= MaxItems
      /\ Cardinality(DOMAIN r.meta) + Cardinality(DOMAIN r.ok)
         + SumFunction([d \in DOMAIN r.ok |-> all(d)]) <= MaxDocument

\* A time is no negative number.
Dated(r) == \A p \in DOMAIN r.meta : r.meta[p].id \notin Undated

\* _validate_streamed_result: what ties the parts of a session file together.
Consistent(r, tops) ==
  LET within(d) == \E t \in tops : Inside(d, t)
  IN  /\ DOMAIN r.class = DOMAIN r.meta
      /\ \A p \in DOMAIN r.meta :
           /\ within(p[1])
           /\ Shared(r.class[p]) => r.class[p].size = r.meta[p].size
      /\ \A d \in DOMAIN r.ok \cup r.failed : within(d)
      /\ \A d \in DOMAIN r.children : \A k \in r.children[d] : ParentOf[k] = d
      /\ \A d \in DOMAIN r.aliases : \A a \in r.aliases[d] :
           a[1][1] = d /\ a[2] \in DOMAIN r.meta

\* What a session file must satisfy to be opened.
Sound(r, tops) == Fits(r) /\ Dated(r) /\ Consistent(r, tops)

\* Clusters of folders tied by copies of one file in two of them: union-find
\* over the classes, a class joining its folders to the first of them.
Tied(r) ==
  {ds \in {{p[1] : p \in g} : g \in FileGroups(r)} : Cardinality(ds) >= 2}

FindRoot(uf, d) ==
  LET up[n \in 0..Cardinality(Dirs)] ==
        IF n = 0 THEN d ELSE uf[up[n - 1]]
  IN  up[Cardinality(Dirs)]

\* Mutant: joins the folders and not the sets they are in.
UnionOfMembers(uf, a, b) == [uf EXCEPT ![a] = b]

Union(uf, a, b) == [uf EXCEPT ![FindRoot(uf, a)] = FindRoot(uf, b)]

JoinClass(uf, ds) ==
  LET first == CHOOSE d \in ds : TRUE
  IN  FoldSet(LAMBDA d, u : Union(u, first, d), uf, ds \ {first})

Clusters(r) ==
  LET uf == FoldSet(LAMBDA ds, u : JoinClass(u, ds), [d \in Dirs |-> d],
                    Tied(r))
      linked == UNION Tied(r)
  IN  {k \in {{e \in linked : FindRoot(uf, e) = FindRoot(uf, d)} :
                d \in linked} : Cardinality(k) >= 2}

\* compare_folders: the files of two folders by relative path and class.
RelPath(p, top) ==
  LET up[d \in {e \in Dirs : Inside(e, top)}] ==
        IF d = top THEN <<>> ELSE Append(up[ParentOf[d]], DirName[d])
  IN  Append(up[p[1]], p[2])

Comparison(r, a, b) ==
  LET rels(d)    == {RelPath(p, d) : p \in FilesUnder(r, d)}
      at(d, rel) == CHOOSE p \in FilesUnder(r, d) : RelPath(p, d) = rel
      known(d)   == {r.class[p] : p \in FilesUnder(r, d)}
      status(rel) ==
        IF rel \in rels(a) \cap rels(b)
        THEN IF r.class[at(a, rel)] = r.class[at(b, rel)]
             THEN "identical" ELSE "different_content"
        ELSE IF rel \in rels(a)
             THEN IF r.class[at(a, rel)] \in known(b)
                  THEN "shared_elsewhere" ELSE "only_a"
             ELSE IF r.class[at(b, rel)] \in known(a)
                  THEN "shared_elsewhere" ELSE "only_b"
  IN  [rel \in rels(a) \cup rels(b) |-> status(rel)]
=============================================================================
