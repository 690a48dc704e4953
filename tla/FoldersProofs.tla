---------------------------- MODULE FoldersProofs ----------------------------
(***************************************************************************)
(* Facts about what is computed from the result of a scan, for any tree of *)
(* folders and any result.                                                 *)
(***************************************************************************)
EXTENDS Folders, FiniteSums, SequenceTheorems

-----------------------------------------------------------------------------
(* The tree *)

\* What holds of a folder when it holds of the one it is in, holds of all.
LEMMA DownTheTree ==
  ASSUME NEW P, \A d \in Dirs : (ParentOf[d] # Above => ParentOf[d] \in P) => d \in P
  PROVE  Dirs \subseteq P
<1> SUFFICES ASSUME Dirs \ P # {} PROVE FALSE
  OBVIOUS
<1>1. Dirs \ P \in (SUBSET Dirs) \ {{}}
  OBVIOUS
<1>2. PICK d \in Dirs \ P : ParentOf[d] \notin Dirs \ P
  BY <1>1, TreeAssumption
<1>3. ParentOf[d] \in Dirs \cup {Above}
  BY TreeAssumption
<1> QED
  BY <1>2, <1>3

\* Folders closed under "is in".
UpClosed(ds) == \A d \in ds : ParentOf[d] # Above => ParentOf[d] \in ds

Upwards == [d \in Dirs |-> {e \in Dirs : \A ds \in SUBSET Dirs :
                                           d \in ds /\ UpClosed(ds) => e \in ds}]

LEMMA UpwardsEquation ==
  ASSUME NEW d \in Dirs
  PROVE  Upwards[d] = {d} \cup (IF ParentOf[d] = Above THEN {} ELSE Upwards[ParentOf[d]])
<1> DEFINE rest == IF ParentOf[d] = Above THEN {} ELSE Upwards[ParentOf[d]]
<1>1. ParentOf[d] = Above \/ ParentOf[d] \in Dirs
  BY TreeAssumption
<1>2. d \in Upwards[d]
  BY DEF Upwards
<1>3. rest \subseteq Upwards[d]
  BY <1>1 DEF Upwards, UpClosed
<1>4. ASSUME NEW e \in Dirs PROVE e \in Upwards[e] /\ UpClosed(Upwards[e])
  BY TreeAssumption DEF Upwards, UpClosed
<1>5. rest \subseteq Dirs /\ UpClosed({d} \cup rest)
  BY <1>1, <1>4 DEF UpClosed, Upwards
<1>6. {d} \cup rest \in SUBSET Dirs
  BY <1>5
<1>7. Upwards[d] \subseteq {d} \cup rest
  BY <1>5, <1>6 DEF Upwards
<1> QED
  BY <1>2, <1>3, <1>7

\* The ancestors of a folder are itself and those of the folder it is in.
LEMMA AncestorsAre ==
  /\ DOMAIN Ancestors = Dirs
  /\ \A d \in Dirs :
       Ancestors[d] = {d} \cup (IF ParentOf[d] = Above THEN {} ELSE Ancestors[ParentOf[d]])
<1> DEFINE Equation(up) ==
             up = [d \in Dirs |->
                     {d} \cup (IF ParentOf[d] = Above THEN {} ELSE up[ParentOf[d]])]
<1>1. Equation(Upwards)
  <2>1. Upwards = [d \in Dirs |-> Upwards[d]]
    BY DEF Upwards
  <2> QED
    BY <2>1, UpwardsEquation
<1>2. Ancestors = CHOOSE up : Equation(up)
  BY DEF Ancestors
<1>3. Equation(Ancestors)
  BY <1>1, <1>2
<1> QED
  BY <1>3

LEMMA AncestorsIn ==
  ASSUME NEW d \in Dirs
  PROVE  /\ d \in Ancestors[d] /\ Ancestors[d] \subseteq Dirs
         /\ \A e \in Ancestors[d] : Ancestors[e] \subseteq Ancestors[d]
<1> DEFINE Good(e) == /\ Ancestors[e] \subseteq Dirs
                      /\ \A k \in Ancestors[e] : Ancestors[k] \subseteq Ancestors[e]
           P == {e \in Dirs : Good(e)}
<1>1. ASSUME NEW e \in Dirs, ParentOf[e] # Above => ParentOf[e] \in P
      PROVE  e \in P
  BY <1>1, AncestorsAre
<1>2. Dirs \subseteq P
  <2> HIDE DEF P
  <2> QED
    BY <1>1, DownTheTree
<1>3. d \in Ancestors[d]
  BY AncestorsAre
<1> QED
  BY <1>2, <1>3

\* No folder is inside one that is inside it.
LEMMA NotInParent ==
  ASSUME NEW d \in Dirs, ParentOf[d] # Above
  PROVE  ParentOf[d] \in Dirs /\ d \notin Ancestors[ParentOf[d]]
<1> DEFINE P == {e \in Dirs : ParentOf[e] # Above => e \notin Ancestors[ParentOf[e]]}
<1>1. ASSUME NEW e \in Dirs, ParentOf[e] # Above => ParentOf[e] \in P
      PROVE  e \in P
  <2> SUFFICES ASSUME ParentOf[e] # Above, e \in Ancestors[ParentOf[e]] PROVE FALSE
    OBVIOUS
  <2> DEFINE k == ParentOf[e]
  <2>1. k \in P /\ k \in Dirs
    BY <1>1
  <2>2. k \in Ancestors[e]
    BY <2>1, AncestorsAre
  <2>3. ParentOf[k] # Above
    <3>1. CASE ParentOf[k] = Above
      <4>1. Ancestors[k] = {k}
        BY <2>1, <3>1, AncestorsAre
      <4> QED
        BY <3>1, <4>1
    <3> QED
      BY <3>1
  <2>4. k \notin Ancestors[ParentOf[k]] /\ ParentOf[k] \in Dirs
    BY <2>1, <2>3, TreeAssumption
  <2>5. e = k \/ e \in Ancestors[ParentOf[k]]
    BY <2>1, <2>3, AncestorsAre
  <2>6. CASE e = k
    BY <2>4, <2>6
  <2>7. CASE e \in Ancestors[ParentOf[k]]
    BY <2>2, <2>4, <2>7, AncestorsIn
  <2> QED
    BY <2>5, <2>6, <2>7
<1>2. Dirs \subseteq P
  <2> HIDE DEF P
  <2> QED
    BY <1>1, DownTheTree
<1> QED
  BY <1>2, TreeAssumption

LEMMA InsideStrictly ==
  ASSUME NEW e \in Dirs, NEW d \in Ancestors[e], e # d
  PROVE  /\ ParentOf[e] # Above /\ ParentOf[e] \in Dirs /\ Inside(ParentOf[e], d)
         /\ Ancestors[ParentOf[e]] \subseteq Ancestors[e] /\ e \notin Ancestors[d]
<1>1. ParentOf[e] # Above /\ d \in Ancestors[ParentOf[e]]
  BY AncestorsAre
<1>2. ParentOf[e] \in Dirs /\ e \notin Ancestors[ParentOf[e]]
  BY <1>1, NotInParent
<1>3. Ancestors[d] \subseteq Ancestors[ParentOf[e]]
  BY <1>1, <1>2, AncestorsIn
<1> QED
  BY <1>1, <1>2, <1>3, AncestorsAre DEF Inside

\* A folder in a folder inside another is inside that one.
LEMMA InsideChild ==
  ASSUME NEW d \in Dirs, NEW top, NEW k \in Dirs, ParentOf[k] = d, Inside(d, top)
  PROVE  Inside(k, top)
BY AncestorsAre, TreeAssumption DEF Inside

-----------------------------------------------------------------------------
(* Results *)

Shape(r) ==
  r = [meta |-> r.meta, class |-> r.class, ok |-> r.ok, children |-> r.children,
       links |-> r.links, aliases |-> r.aliases, failed |-> r.failed,
       partial |-> r.partial, fileGroups |-> r.fileGroups,
       dirGroups |-> r.dirGroups, pairs |-> r.pairs]

\* What a scan found, without what is computed from it.
Facts(r) == <<r.meta, r.class, r.ok, r.children, r.links, r.aliases, r.failed>>

\* Publishing, and a session written and read, leave what was found.
LEMMA PublishedKeeps ==
  ASSUME NEW r, Shape(r), NEW man
  PROVE  /\ LET q == Aggregated(r, man)
            IN  Shape(q) /\ Facts(q) = Facts(r) /\ q.partial = r.partial
                /\ q.fileGroups = FileGroups(r) /\ q.dirGroups = DirGroupsOf(man)
         /\ LET q == PartlyPublished(r)
            IN  Shape(q) /\ Facts(q) = Facts(r) /\ q.partial = TRUE
                /\ q.fileGroups = FileGroups(r) /\ q.dirGroups = {}
<1>1. LET q == Aggregated(r, man)
      IN  Shape(q) /\ Facts(q) = Facts(r) /\ q.partial = r.partial
          /\ q.fileGroups = FileGroups(r) /\ q.dirGroups = DirGroupsOf(man)
  <2> DEFINE q == Aggregated(r, man)
  <2>1. q = [r EXCEPT !.fileGroups = FileGroups(r), !.dirGroups = DirGroupsOf(man),
                      !.pairs = SimilarPairs(r, man)]
    BY Zenon DEF Aggregated
  <2> HIDE DEF q
  <2>2. /\ Shape(q) /\ Facts(q) = Facts(r) /\ q.partial = r.partial
        /\ q.fileGroups = FileGroups(r) /\ q.dirGroups = DirGroupsOf(man)
    BY <2>1 DEF Shape, Facts
  <2> QED
    BY <2>2, Zenon DEF q
<1>2. LET q == PartlyPublished(r)
      IN  Shape(q) /\ Facts(q) = Facts(r) /\ q.partial = TRUE
          /\ q.fileGroups = FileGroups(r) /\ q.dirGroups = {}
  <2> DEFINE q == PartlyPublished(r)
  <2>1. q = [r EXCEPT !.partial = TRUE, !.fileGroups = FileGroups(r),
                      !.dirGroups = {}, !.pairs = {}]
    BY Zenon DEF PartlyPublished
  <2> HIDE DEF q
  <2>2. /\ Shape(q) /\ Facts(q) = Facts(r) /\ q.partial = TRUE
        /\ q.fileGroups = FileGroups(r) /\ q.dirGroups = {}
    BY <2>1 DEF Shape, Facts
  <2> QED
    BY <2>2, Zenon DEF q
<1> QED
  BY <1>1, <1>2, Zenon

LEMMA ReadBackKeeps ==
  ASSUME NEW r
  PROVE  LET q == ReadBack(Document(r))
         IN  Shape(q) /\ Facts(q) = Facts(r) /\ q.partial = r.partial
<1>1. ASSUME NEW doc, NEW q,
             q = [NewResult EXCEPT
                    !.meta = doc.meta, !.class = doc.class, !.ok = doc.ok,
                    !.children = doc.children, !.links = doc.links,
                    !.aliases = doc.aliases, !.failed = doc.failed,
                    !.partial = doc.partial]
      PROVE  /\ Shape(q) /\ q.meta = doc.meta /\ q.class = doc.class /\ q.ok = doc.ok
             /\ q.children = doc.children /\ q.links = doc.links
             /\ q.aliases = doc.aliases /\ q.failed = doc.failed
             /\ q.partial = doc.partial
  BY <1>1 DEF Shape, NewResult
<1>2. LET doc == Document(r)
      IN  /\ doc.meta = r.meta /\ doc.class = r.class /\ doc.ok = r.ok
          /\ doc.children = r.children /\ doc.links = r.links
          /\ doc.aliases = r.aliases /\ doc.failed = r.failed
          /\ doc.partial = r.partial
  BY DEF Document
<1>3. LET q == ReadBack(Document(r))
          doc == Document(r)
      IN  /\ Shape(q) /\ q.meta = doc.meta /\ q.class = doc.class /\ q.ok = doc.ok
          /\ q.children = doc.children /\ q.links = doc.links
          /\ q.aliases = doc.aliases /\ q.failed = doc.failed
          /\ q.partial = doc.partial
  BY <1>1, Zenon DEF ReadBack
<1> QED
  BY <1>2, <1>3 DEF Facts

\* A pruned result is about fewer files and folders, and the same of those.
LEMMA PrunedKeeps ==
  ASSUME NEW r, Shape(r), NEW removed
  PROVE  LET q == Pruned(r, removed)
         IN  /\ Shape(q) /\ q.partial = r.partial /\ q.failed = {}
             /\ DOMAIN q.meta \subseteq DOMAIN r.meta
             /\ \A p \in DOMAIN q.meta :
                  q.meta[p] = r.meta[p] /\ (p[1] \in DOMAIN r.ok => p[1] \in DOMAIN q.ok)
             /\ DOMAIN q.class = DOMAIN q.meta \cap DOMAIN r.class
             /\ \A p \in DOMAIN q.class : q.class[p] = r.class[p]
             /\ DOMAIN q.ok \subseteq DOMAIN r.ok /\ DOMAIN q.children = DOMAIN q.ok
             /\ DOMAIN q.links = DOMAIN q.ok /\ DOMAIN q.aliases = DOMAIN q.ok
             /\ \A d \in DOMAIN q.ok :
                  /\ q.children[d] \subseteq r.children[d]
                  /\ \A a \in q.aliases[d] : a \in r.aliases[d] /\ a[2] \in DOMAIN q.meta
<1> DEFINE tops    == removed \ DOMAIN r.meta
           gone(d) == \E e \in Ancestors[d] : <<ParentOf[e], DirName[e]>> \in tops
           meta    == {p \in DOMAIN r.meta : p \notin removed /\ ~gone(p[1])}
           dirs    == {d \in DOMAIN r.ok : ~gone(d)}
           q       == Pruned(r, removed)
<1>1. q = [NewResult EXCEPT
             !.partial  = r.partial,
             !.meta     = Restrict(r.meta, meta),
             !.class    = Restrict(r.class, meta \cap DOMAIN r.class),
             !.ok       = Restrict(r.ok, dirs),
             !.children = [d \in dirs |-> r.children[d] \cap dirs],
             !.links    = Restrict(r.links, dirs),
             !.aliases  = [d \in dirs |->
                             {a \in r.aliases[d] : /\ a[2] \in meta
                                                   /\ a[1] \notin tops}]]
  BY Zenon DEF Pruned
<1> HIDE DEF tops, gone, meta, dirs, q
<1>2. /\ Shape(q) /\ q.partial = r.partial /\ q.failed = {}
      /\ q.meta = Restrict(r.meta, meta) /\ q.ok = Restrict(r.ok, dirs)
      /\ q.class = Restrict(r.class, meta \cap DOMAIN r.class)
      /\ q.children = [d \in dirs |-> r.children[d] \cap dirs]
      /\ q.links = Restrict(r.links, dirs)
      /\ q.aliases = [d \in dirs |-> {a \in r.aliases[d] : /\ a[2] \in meta
                                                           /\ a[1] \notin tops}]
  BY <1>1 DEF Shape, NewResult
<1>3. DOMAIN q.meta = meta /\ DOMAIN q.class = meta \cap DOMAIN r.class /\ DOMAIN q.ok = dirs
  BY <1>2 DEF Restrict
<1>4. /\ \A p \in meta : q.meta[p] = r.meta[p]
      /\ \A p \in DOMAIN q.class : q.class[p] = r.class[p]
  BY <1>2 DEF Restrict
<1>5. meta \subseteq DOMAIN r.meta /\ dirs \subseteq DOMAIN r.ok
  BY DEF meta, dirs
<1>6. \A p \in meta : p[1] \in DOMAIN r.ok => p[1] \in dirs
  BY DEF meta, dirs
<1>7. DOMAIN q.children = dirs /\ DOMAIN q.links = dirs /\ DOMAIN q.aliases = dirs
  BY <1>2 DEF Restrict
<1>8. \A d \in dirs : /\ q.children[d] \subseteq r.children[d]
                      /\ \A a \in q.aliases[d] : a \in r.aliases[d] /\ a[2] \in meta
  BY <1>2
<1> QED
  BY <1>2, <1>3, <1>4, <1>5, <1>6, <1>7, <1>8 DEF q

-----------------------------------------------------------------------------
(* From the leaves up *)

\* Some of finitely many folders has none of the others in it.
LEMMA HasLeaf ==
  ASSUME NEW S \in SUBSET Dirs, IsFiniteSet(S), S # {}
  PROVE  \E d \in S : \A k \in S : ParentOf[k] # d
<1> DEFINE Leaf(T) == \E d \in T : \A k \in T : ParentOf[k] # d
           P == {T \in SUBSET S : T # {} => Leaf(T)}
<1>1. ASSUME NEW T \in SUBSET S, \A U \in SUBSET T : U # T => U \in P, T # {}
      PROVE  Leaf(T)
  <2>1. PICK d \in T : TRUE
    BY <1>1
  <2> DEFINE U == {k \in T : k # d /\ d \in Ancestors[k]}
  <2>2. CASE U = {}
    <3>1. ASSUME NEW k \in T, ParentOf[k] = d PROVE FALSE
      <4>1. k # d /\ d \in Ancestors[k]
        BY <3>1, NotInParent, AncestorsIn, AncestorsAre, TreeAssumption
      <4> QED
        BY <2>2, <4>1
    <3> QED
      BY <3>1
  <2>3. CASE U # {}
    <3>1. U \in SUBSET T /\ U # T
      OBVIOUS
    <3>2. PICK l \in U : \A k \in U : ParentOf[k] # l
      BY <1>1, <2>3, <3>1
    <3>3. ASSUME NEW k \in T, ParentOf[k] = l PROVE FALSE
      <4>1. k \in Dirs /\ l \in Dirs /\ d \in Dirs /\ ParentOf[k] # Above
        BY <3>3, TreeAssumption
      <4>2. k \notin Ancestors[l]
        BY <3>3, <4>1, NotInParent
      <4>3. l \in Ancestors[k] /\ d \in Ancestors[l]
        BY <3>3, <4>1, AncestorsAre
      <4>4. d \in Ancestors[k]
        BY <4>1, <4>3, AncestorsIn
      <4>5. k # d
        BY <4>2, <4>3
      <4> QED
        BY <3>2, <3>3, <4>4, <4>5
    <3> QED
      BY <3>3
  <2> QED
    BY <2>2, <2>3
<1>2. \A T \in SUBSET S : T \in P
  <2>1. \A T \in SUBSET S : (\A U \in SUBSET T : U # T => U \in P) => T \in P
    BY <1>1
  <2> HIDE DEF P
  <2> QED
    BY <2>1, SubsetInduction
<1> QED
  BY <1>2

\* What holds of no folder, and of some with one more when it holds of these and
\* they have all that is in that one, holds of all of finitely many.
LEMMA UpTheTree ==
  ASSUME NEW D \in SUBSET Dirs, IsFiniteSet(D), NEW X, {} \in X,
         \A S \in SUBSET D : \A d \in D \ S :
           S \in X /\ (\A k \in D : ParentOf[k] = d => k \in S) => S \cup {d} \in X
  PROVE  D \in X
<1> DEFINE P == {T \in SUBSET D : D \ T \in X => D \in X}
<1>1. ASSUME NEW T \in SUBSET D, \A U \in SUBSET T : U # T => U \in P, D \ T \in X
      PROVE  D \in X
  <2>1. CASE T = {}
    BY <1>1, <2>1
  <2>2. CASE T # {}
    <3>1. IsFiniteSet(T)
      BY FS_Subset
    <3>2. PICK d \in T : \A k \in T : ParentOf[k] # d
      BY <2>2, <3>1, HasLeaf
    <3>3. (D \ T) \cup {d} \in X
      BY <1>1, <3>2
    <3>4. (D \ T) \cup {d} = D \ (T \ {d})
      OBVIOUS
    <3>5. T \ {d} \in P
      BY <1>1, <3>2
    <3> QED
      BY <3>3, <3>4, <3>5
  <2> QED
    BY <2>1, <2>2
<1>2. \A T \in SUBSET D : T \in P
  <2>1. \A T \in SUBSET D : (\A U \in SUBSET T : U # T => U \in P) => T \in P
    BY <1>1
  <2> HIDE DEF P
  <2> QED
    BY <2>1, SubsetInduction
<1>3. D \ D = {}
  OBVIOUS
<1> QED
  BY <1>2, <1>3

-----------------------------------------------------------------------------
(* The order of the names *)

Rank(S) == [x \in S |-> Cardinality({y \in S : y[2] <= x[2]})]

\* Members with names of their own stand in the order of the names, all of them.
LEMMA ByNameIs ==
  ASSUME NEW S, IsFiniteSet(S), \A x \in S : x[2] \in Nat,
         \A x, y \in S : x[2] = y[2] => x = y
  PROVE  /\ ByName(S) \in Seq(S) /\ S = Range(ByName(S))
         /\ DOMAIN ByName(S) = 1..Cardinality(S)
         /\ \A n \in 1..Cardinality(S) : ByName(S)[n] \in S /\ Rank(S)[ByName(S)[n]] = n
         /\ \A x, y \in S : Rank(S)[x] = Rank(S)[y] => x = y
<1> DEFINE c == Cardinality(S)
           Up(x) == {y \in S : y[2] <= x[2]}
<1>1. c \in Nat /\ IsFiniteSet(1..c) /\ Cardinality(1..c) = c
  BY FS_CardinalityType, FS_Interval
<1>2. ASSUME NEW x \in S
      PROVE  /\ IsFiniteSet(Up(x)) /\ Cardinality(Up(x)) \in 1..c
             /\ Rank(S)[x] = Cardinality(Up(x))
  <2>1. IsFiniteSet(Up(x)) /\ Cardinality(Up(x)) \in Nat /\ Cardinality(Up(x)) <= c
    BY FS_Subset, FS_CardinalityType
  <2>2. x \in Up(x)
    OBVIOUS
  <2>3. Cardinality(Up(x)) # 0
    BY <2>1, <2>2, FS_EmptySet
  <2>4. Rank(S)[x] = Cardinality(Up(x))
    BY DEF Rank
  <2> HIDE DEF Up
  <2> QED
    BY <1>1, <2>1, <2>3, <2>4
<1>3. ASSUME NEW x \in S, NEW y \in S, x[2] < y[2]
      PROVE  Rank(S)[x] # Rank(S)[y]
  <2>1. Up(x) \in SUBSET Up(y) /\ y \in Up(y) \ Up(x)
    BY <1>3
  <2>2. Cardinality(Up(x)) # Cardinality(Up(y))
    BY <1>2, <2>1, FS_Subset
  <2> QED
    BY <1>2, <2>2
<1>4. \A x, y \in S : Rank(S)[x] = Rank(S)[y] => x = y
  <2> SUFFICES ASSUME NEW x \in S, NEW y \in S, x # y PROVE Rank(S)[x] # Rank(S)[y]
    OBVIOUS
  <2>1. x[2] \in Nat /\ y[2] \in Nat /\ x[2] # y[2]
    OBVIOUS
  <2>2. x[2] < y[2] \/ y[2] < x[2]
    BY <2>1
  <2> QED
    BY <1>3, <2>2
<1>5. Rank(S) \in Surjection(S, 1..c)
  <2>1. Rank(S) \in Injection(S, 1..c)
    <3>1. Rank(S) \in [S -> 1..c]
      BY <1>2 DEF Rank
    <3> QED
      BY <1>4, <3>1 DEF Injection, IsInjective
  <2> QED
    BY <1>1, <2>1, FS_Injection
<1>6. ASSUME NEW n \in 1..c
      PROVE  ByName(S)[n] \in S /\ Rank(S)[ByName(S)[n]] = n
  <2>1. \E x \in S : Rank(S)[x] = n
    BY <1>5 DEF Surjection
  <2>2. \E x \in S : Cardinality({y \in S : y[2] <= x[2]}) = n
    BY <2>1, <1>2
  <2> DEFINE u == CHOOSE x \in S : Cardinality({y \in S : y[2] <= x[2]}) = n
  <2>3. ByName(S)[n] = u
    BY DEF ByName
  <2>4. u \in S /\ Cardinality(Up(u)) = n
    BY <2>2
  <2> HIDE DEF u
  <2> QED
    BY <1>2, <2>3, <2>4
<1>7. DOMAIN ByName(S) = 1..c
  BY DEF ByName
<1>8. ByName(S) \in Seq(S)
  <2>1. ByName(S) \in [1..c -> S]
    BY <1>6, Zenon DEF ByName
  <2> QED
    BY <1>1, <2>1
<1>9. \A x \in S : x = ByName(S)[Rank(S)[x]] /\ Rank(S)[x] \in 1..c
  BY <1>2, <1>4, <1>6
<1> QED
  BY <1>4, <1>6, <1>7, <1>8, <1>9 DEF Range

\* Two sets with the same names have them in the same places.
LEMMA NamesCount ==
  ASSUME NEW S, NEW T, IsFiniteSet(S), IsFiniteSet(T),
         \A x, y \in S : x[2] = y[2] => x = y, \A x, y \in T : x[2] = y[2] => x = y,
         \A x \in S : \E y \in T : x[2] = y[2], \A y \in T : \E x \in S : x[2] = y[2]
  PROVE  Cardinality(S) = Cardinality(T)
<1> DEFINE f == [x \in S |-> CHOOSE y \in T : x[2] = y[2]]
<1>1. \A x \in S : f[x] \in T /\ x[2] = f[x][2]
  OBVIOUS
<1>2. DOMAIN f = S /\ f \in [S -> T]
  BY <1>1
<1> HIDE DEF f
<1>3. \A x, y \in S : f[x] = f[y] => x = y
  BY <1>1
<1>4. \A y \in T : \E x \in S : f[x] = y
  BY <1>1
<1>5. f \in Bijection(S, T)
  BY <1>2, <1>3, <1>4 DEF Bijection, Injection, Surjection, IsInjective
<1> QED
  BY <1>5, FS_Bijection DEF ExistsBijection

LEMMA PlacesAlike ==
  ASSUME NEW S, NEW T, IsFiniteSet(S), IsFiniteSet(T),
         \A x \in S : x[2] \in Nat, \A x \in T : x[2] \in Nat,
         \A x, y \in S : x[2] = y[2] => x = y, \A x, y \in T : x[2] = y[2] => x = y,
         \A x \in S : \E y \in T : x[2] = y[2], \A y \in T : \E x \in S : x[2] = y[2]
  PROVE  /\ Len(ByName(S)) = Len(ByName(T))
         /\ \A n \in 1..Len(ByName(S)) :
              /\ ByName(S)[n] \in S /\ ByName(T)[n] \in T
              /\ ByName(S)[n][2] = ByName(T)[n][2]
<1>1. Cardinality(S) = Cardinality(T) /\ Cardinality(S) \in Nat
  BY NamesCount, FS_CardinalityType
<1>2. /\ ByName(S) \in Seq(S) /\ DOMAIN ByName(S) = 1..Cardinality(S)
      /\ \A n \in 1..Cardinality(S) : ByName(S)[n] \in S /\ Rank(S)[ByName(S)[n]] = n
  BY ByNameIs
<1>3. /\ ByName(T) \in Seq(T) /\ DOMAIN ByName(T) = 1..Cardinality(T)
      /\ \A n \in 1..Cardinality(T) : ByName(T)[n] \in T /\ Rank(T)[ByName(T)[n]] = n
      /\ \A x, y \in T : Rank(T)[x] = Rank(T)[y] => x = y
  BY ByNameIs
<1>4. Len(ByName(S)) = Cardinality(S) /\ Len(ByName(T)) = Cardinality(T)
  BY <1>1, <1>2, <1>3
<1>5. ASSUME NEW x \in S, NEW y \in T, x[2] = y[2] PROVE Rank(S)[x] = Rank(T)[y]
  <2> DEFINE A == {z \in S : z[2] <= x[2]}
             B == {z \in T : z[2] <= y[2]}
  <2>1. IsFiniteSet(A) /\ IsFiniteSet(B)
    BY FS_Subset
  <2>2. /\ \A u \in A : \E v \in B : u[2] = v[2]
        /\ \A v \in B : \E u \in A : u[2] = v[2]
    BY <1>5
  <2>3. /\ \A u, v \in A : u[2] = v[2] => u = v
        /\ \A u, v \in B : u[2] = v[2] => u = v
    OBVIOUS
  <2>4. Rank(S)[x] = Cardinality(A) /\ Rank(T)[y] = Cardinality(B)
    BY DEF Rank
  <2> HIDE DEF A, B
  <2> QED
    BY <2>1, <2>2, <2>3, <2>4, NamesCount
<1>6. ASSUME NEW n \in 1..Len(ByName(S))
      PROVE  /\ ByName(S)[n] \in S /\ ByName(T)[n] \in T
             /\ ByName(S)[n][2] = ByName(T)[n][2]
  <2>1. /\ ByName(S)[n] \in S /\ Rank(S)[ByName(S)[n]] = n
        /\ ByName(T)[n] \in T /\ Rank(T)[ByName(T)[n]] = n
    BY <1>1, <1>2, <1>3, <1>4
  <2>2. PICK y \in T : ByName(S)[n][2] = y[2]
    BY <2>1
  <2>3. Rank(T)[y] = n
    BY <1>5, <2>1, <2>2
  <2>4. y = ByName(T)[n]
    BY <1>3, <2>1, <2>3
  <2> QED
    BY <2>1, <2>2, <2>4
<1> QED
  BY <1>1, <1>4, <1>6

\* Sequences that F maps to one, and such sequences put together.
SameUnder(V, F, s, t) ==
  /\ s \in Seq(V) /\ t \in Seq(V) /\ Len(s) = Len(t)
  /\ \A n \in 1..Len(s) : F[s[n]] = F[t[n]]

LEMMA TogetherAlike ==
  ASSUME NEW V, NEW F, NEW s, NEW t, NEW u, NEW v, SameUnder(V, F, s, t), SameUnder(V, F, u, v)
  PROVE  SameUnder(V, F, s \o u, t \o v)
<1>0. /\ s \in Seq(V) /\ t \in Seq(V) /\ u \in Seq(V) /\ v \in Seq(V)
      /\ Len(s) = Len(t) /\ \A n \in 1..Len(s) : F[s[n]] = F[t[n]]
      /\ Len(u) = Len(v) /\ \A n \in 1..Len(u) : F[u[n]] = F[v[n]]
  BY DEF SameUnder
<1> DEFINE Joined(x, y) ==
        /\ x \o y \in Seq(V) /\ Len(x \o y) = Len(x) + Len(y)
        /\ \A n \in 1..Len(x) + Len(y) :
             (x \o y)[n] = IF n <= Len(x) THEN x[n] ELSE y[n - Len(x)]
<1>1. Len(s) \in Nat /\ Len(u) \in Nat
  BY <1>0, LenProperties
<1>2. ASSUME NEW x \in Seq(V), NEW y \in Seq(V) PROVE Joined(x, y)
  BY ConcatProperties
<1>3. Joined(s, u) /\ Joined(t, v)
  <2> HIDE DEF Joined
  <2> QED
    BY <1>0, <1>2
<1>4. ASSUME NEW n \in 1..Len(s) + Len(u) PROVE F[(s \o u)[n]] = F[(t \o v)[n]]
  <2>1. CASE n <= Len(s)
    BY <1>0, <1>1, <1>3, <2>1
  <2>2. CASE n > Len(s)
    <3>1. n - Len(s) \in 1..Len(u) /\ ~(n <= Len(s))
      BY <1>0, <1>1, <2>2
    <3>2. (s \o u)[n] = u[n - Len(s)] /\ (t \o v)[n] = v[n - Len(s)]
      BY <1>0, <1>1, <1>3, <3>1
    <3> QED
      BY <1>0, <3>1, <3>2
  <2> QED
    BY <1>0, <1>1, <2>1, <2>2
<1> QED
  BY <1>0, <1>3, <1>4 DEF SameUnder

\* What stands in four sequences put together.
LEMMA FourTogether ==
  ASSUME NEW V, NEW s \in Seq(V), NEW t \in Seq(V), NEW u \in Seq(V), NEW v \in Seq(V)
  PROVE  Range(s \o t \o u \o v) = Range(s) \cup Range(t) \cup Range(u) \cup Range(v)
<1>1. ASSUME NEW x \in Seq(V), NEW y \in Seq(V)
      PROVE  x \o y \in Seq(V) /\ Range(x \o y) = Range(x) \cup Range(y)
  <2>1. /\ x \o y \in Seq(V) /\ Len(x \o y) = Len(x) + Len(y)
        /\ \A n \in 1..Len(x) : (x \o y)[n] = x[n]
        /\ \A n \in 1..Len(y) : (x \o y)[Len(x) + n] = y[n]
    OBVIOUS
  <2>2. DOMAIN (x \o y) = 1..(Len(x) + Len(y)) /\ DOMAIN x = 1..Len(x) /\ DOMAIN y = 1..Len(y)
    BY <2>1
  <2>3. Len(x) \in Nat /\ Len(y) \in Nat
    OBVIOUS
  <2>4. ASSUME NEW n \in 1..(Len(x) + Len(y))
        PROVE  (x \o y)[n] \in Range(x) \cup Range(y)
    <3>1. CASE n \in 1..Len(x)
      BY <2>1, <2>2, <3>1 DEF Range
    <3>2. CASE n \notin 1..Len(x)
      <4>1. n - Len(x) \in 1..Len(y) /\ n = Len(x) + (n - Len(x))
        BY <2>3, <3>2
      <4>2. (x \o y)[n] = y[n - Len(x)]
        BY <2>1, <4>1
      <4> QED
        BY <2>2, <4>1, <4>2 DEF Range
    <3> QED
      BY <3>1, <3>2
  <2>5. Range(x) \cup Range(y) \subseteq Range(x \o y)
    <3>1. ASSUME NEW n \in 1..Len(x) PROVE x[n] \in Range(x \o y)
      <4>1. n \in 1..(Len(x) + Len(y)) /\ (x \o y)[n] = x[n]
        BY <2>1, <2>3
      <4> QED
        BY <2>2, <4>1 DEF Range
    <3>2. ASSUME NEW n \in 1..Len(y) PROVE y[n] \in Range(x \o y)
      <4>1. Len(x) + n \in 1..(Len(x) + Len(y)) /\ (x \o y)[Len(x) + n] = y[n]
        BY <2>1, <2>3
      <4> QED
        BY <2>2, <4>1 DEF Range
    <3> QED
      BY <2>2, <3>1, <3>2 DEF Range
  <2>6. Range(x \o y) \subseteq Range(x) \cup Range(y)
    BY <2>2, <2>4 DEF Range
  <2> QED
    BY <2>1, <2>5, <2>6
<1>2. s \o t \in Seq(V) /\ s \o t \o u \in Seq(V)
  BY <1>1
<1>3. Range(s \o t) = Range(s) \cup Range(t)
  BY <1>1
<1>4. Range(s \o t \o u) = Range(s \o t) \cup Range(u)
  BY <1>1, <1>2
<1>5. Range(s \o t \o u \o v) = Range(s \o t \o u) \cup Range(v)
  BY <1>1, <1>2
<1> QED
  BY <1>3, <1>4, <1>5

-----------------------------------------------------------------------------
(* Manifests *)

\* The parts of a manifest, and what it says when those of the subfolders are
\* what man says.
FileRows(r, d) == {<<"F", p[2], p>> : p \in FilesIn(r, d)}
AlsoRows(r, d) == {<<"F", a[1][2], a[2]>> : a \in r.aliases[d]}
SubRows(r, d)  == {<<"D", DirName[k], k>> : k \in r.children[d]}

Parts(r, d) == FileRows(r, d) \cup r.links[d] \cup AlsoRows(r, d) \cup SubRows(r, d)

InOrder(r, d) == ByName(FileRows(r, d)) \o ByName(r.links[d]) \o ByName(AlsoRows(r, d))
                   \o ByName(SubRows(r, d))

Complete(r, man, d) ==
  /\ r.ok[d]
  /\ \A x \in FileRows(r, d) \cup AlsoRows(r, d) : x[3] \in DOMAIN r.class
  /\ \A k \in r.children[d] : k \in DOMAIN r.ok /\ man[k].ok

ManifestOf(r, man, d) ==
  [ok   |-> Complete(r, man, d),
   rows |-> IF Complete(r, man, d)
            THEN [i \in DOMAIN InOrder(r, d) |-> Row(r, man, InOrder(r, d)[i])]
            ELSE <<>>]

\* What the manifest of a folder that was read whole is made of.
Orderly(r, d) ==
  /\ IsFiniteSet(FilesIn(r, d)) /\ IsFiniteSet(r.links[d])
  /\ IsFiniteSet(r.aliases[d]) /\ IsFiniteSet(r.children[d])
  /\ \A p \in FilesIn(r, d) : p \in Dirs \X Nat
  /\ \A l \in r.links[d] : \E n \in Nat : \E t : l = <<"L", n, t>>
  /\ \A l, m \in r.links[d] : l[2] = m[2] => l = m
  /\ \A a \in r.aliases[d] : a = <<a[1], a[2]>> /\ a[1] \in Dirs \X Nat /\ a[1][1] = d
  /\ \A a, b \in r.aliases[d] : a[1] = b[1] => a = b
  /\ \A k \in r.children[d] : k \in Dirs /\ ParentOf[k] = d

LEMMA ImageFinite ==
  ASSUME NEW S, IsFiniteSet(S), NEW f, DOMAIN f = S
  PROVE  IsFiniteSet({f[x] : x \in S})
<1> DEFINE T == {f[x] : x \in S}
           g == [x \in S |-> f[x]]
<1>1. g \in Surjection(S, T)
  BY DEF Surjection
<1> QED
  BY <1>1, FS_Surjection

\* Members that can be put in the order of their names.
Sortable(S) ==
  /\ IsFiniteSet(S) /\ \A x \in S : x[2] \in Nat
  /\ \A x, y \in S : x[2] = y[2] => x = y

LEMMA PartsSortable ==
  ASSUME NEW r, NEW d, Orderly(r, d)
  PROVE  /\ Sortable(FileRows(r, d)) /\ Sortable(r.links[d])
         /\ Sortable(AlsoRows(r, d)) /\ Sortable(SubRows(r, d))
<1>1. Sortable(FileRows(r, d))
  <2>1. IsFiniteSet(FileRows(r, d))
    <3> DEFINE f == [x \in FilesIn(r, d) |-> <<"F", x[2], x>>]
    <3>1. FileRows(r, d) = {f[x] : x \in FilesIn(r, d)}
      BY DEF FileRows
    <3>2. IsFiniteSet(FilesIn(r, d)) /\ DOMAIN f = FilesIn(r, d)
      BY DEF Orderly
    <3> HIDE DEF f
    <3> QED
      BY <3>1, <3>2, ImageFinite
  <2>2. \A p \in FilesIn(r, d) : p \in Dirs \X Nat /\ p[1] = d
    BY DEF Orderly, FilesIn
  <2>3. \A x \in FileRows(r, d) : x[2] \in Nat
    BY <2>2 DEF FileRows
  <2>4. \A p, q \in FilesIn(r, d) : p[2] = q[2] => p = q
    BY <2>2
  <2>5. \A x, y \in FileRows(r, d) : x[2] = y[2] => x = y
    BY <2>4 DEF FileRows
  <2> QED
    BY <2>1, <2>3, <2>5 DEF Sortable
<1>2. Sortable(r.links[d])
  <2>1. IsFiniteSet(r.links[d]) /\ \A l, m \in r.links[d] : l[2] = m[2] => l = m
    BY DEF Orderly
  <2>2. \A l \in r.links[d] : l[2] \in Nat
    BY DEF Orderly
  <2> QED
    BY <2>1, <2>2 DEF Sortable
<1>3. Sortable(AlsoRows(r, d))
  <2>1. IsFiniteSet(AlsoRows(r, d))
    <3> DEFINE f == [x \in r.aliases[d] |-> <<"F", x[1][2], x[2]>>]
    <3>1. AlsoRows(r, d) = {f[x] : x \in r.aliases[d]}
      BY DEF AlsoRows
    <3>2. IsFiniteSet(r.aliases[d]) /\ DOMAIN f = r.aliases[d]
      BY DEF Orderly
    <3> HIDE DEF f
    <3> QED
      BY <3>1, <3>2, ImageFinite
  <2>2. \A a \in r.aliases[d] : a[1] \in Dirs \X Nat /\ a[1][1] = d
    BY DEF Orderly
  <2>3. \A x \in AlsoRows(r, d) : x[2] \in Nat
    BY <2>2 DEF AlsoRows
  <2>4. \A a, b \in r.aliases[d] : a[1][2] = b[1][2] => a = b
    <3>1. \A a, b \in r.aliases[d] : a[1][2] = b[1][2] => a[1] = b[1]
      BY <2>2
    <3> QED
      BY <3>1 DEF Orderly
  <2>5. \A x, y \in AlsoRows(r, d) : x[2] = y[2] => x = y
    BY <2>4 DEF AlsoRows
  <2> QED
    BY <2>1, <2>3, <2>5 DEF Sortable
<1>4. Sortable(SubRows(r, d))
  <2>1. IsFiniteSet(SubRows(r, d))
    <3> DEFINE f == [x \in r.children[d] |-> <<"D", DirName[x], x>>]
    <3>1. SubRows(r, d) = {f[x] : x \in r.children[d]}
      BY DEF SubRows
    <3>2. IsFiniteSet(r.children[d]) /\ DOMAIN f = r.children[d]
      BY DEF Orderly
    <3> HIDE DEF f
    <3> QED
      BY <3>1, <3>2, ImageFinite
  <2>2. \A k \in r.children[d] : k \in Dirs /\ ParentOf[k] = d /\ DirName[k] \in Nat
    BY TreeAssumption DEF Orderly
  <2>3. \A x \in SubRows(r, d) : x[2] \in Nat
    BY <2>2 DEF SubRows
  <2>4. \A k, l \in r.children[d] : DirName[k] = DirName[l] => k = l
    BY <2>2, TreeAssumption
  <2>5. \A x, y \in SubRows(r, d) : x[2] = y[2] => x = y
    BY <2>4 DEF SubRows
  <2> QED
    BY <2>1, <2>3, <2>5 DEF Sortable
<1> QED
  BY <1>1, <1>2, <1>3, <1>4

LEMMA PartsInOrder ==
  ASSUME NEW r, NEW d, Orderly(r, d)
  PROVE  InOrder(r, d) \in Seq(Parts(r, d)) /\ Range(InOrder(r, d)) = Parts(r, d)
<1> DEFINE V == Parts(r, d)
<1>0. ASSUME NEW S, Sortable(S) PROVE ByName(S) \in Seq(S) /\ S = Range(ByName(S))
  BY <1>0, ByNameIs DEF Sortable
<1>1. ByName(FileRows(r, d)) \in Seq(FileRows(r, d)) /\ FileRows(r, d) = Range(ByName(FileRows(r, d)))
  BY <1>0, PartsSortable
<1>2. ByName(r.links[d]) \in Seq(r.links[d]) /\ r.links[d] = Range(ByName(r.links[d]))
  BY <1>0, PartsSortable
<1>3. ByName(AlsoRows(r, d)) \in Seq(AlsoRows(r, d)) /\ AlsoRows(r, d) = Range(ByName(AlsoRows(r, d)))
  BY <1>0, PartsSortable
<1>4. ByName(SubRows(r, d)) \in Seq(SubRows(r, d)) /\ SubRows(r, d) = Range(ByName(SubRows(r, d)))
  BY <1>0, PartsSortable
<1>5. /\ FileRows(r, d) \subseteq V /\ r.links[d] \subseteq V
      /\ AlsoRows(r, d) \subseteq V /\ SubRows(r, d) \subseteq V
  BY DEF Parts
<1> HIDE DEF V
<1>6. /\ ByName(FileRows(r, d)) \in Seq(V) /\ ByName(r.links[d]) \in Seq(V)
      /\ ByName(AlsoRows(r, d)) \in Seq(V) /\ ByName(SubRows(r, d)) \in Seq(V)
  BY <1>1, <1>2, <1>3, <1>4, <1>5, SeqMonotonic
<1>7. InOrder(r, d) \in Seq(V)
  BY <1>6 DEF InOrder
<1>8. Range(InOrder(r, d)) = FileRows(r, d) \cup r.links[d] \cup AlsoRows(r, d) \cup SubRows(r, d)
  BY <1>1, <1>2, <1>3, <1>4, <1>6, FourTogether DEF InOrder
<1> QED
  BY <1>7, <1>8 DEF Parts, V

\* A manifest depends on those of the subfolders.
LEMMA ManifestDepends ==
  ASSUME NEW r, NEW d, r.ok[d] => Orderly(r, d), NEW f, NEW g,
         \A k \in r.children[d] : k \in DOMAIN r.ok => f[k] = g[k]
  PROVE  ManifestOf(r, f, d) = ManifestOf(r, g, d)
<1>1. Complete(r, f, d) <=> Complete(r, g, d)
  BY DEF Complete
<1>2. CASE ~Complete(r, f, d)
  <2>0. Complete(r, f, d) = FALSE /\ Complete(r, g, d) = FALSE
    BY <1>1, <1>2 DEF Complete
  <2>1. ManifestOf(r, f, d) = [ok |-> FALSE, rows |-> <<>>]
    BY <2>0 DEF ManifestOf
  <2>2. ManifestOf(r, g, d) = [ok |-> FALSE, rows |-> <<>>]
    BY <2>0 DEF ManifestOf
  <2> QED
    BY <2>1, <2>2
<1>3. CASE Complete(r, f, d)
  <2> DEFINE s == InOrder(r, d)
  <2>1. s \in Seq(Parts(r, d)) /\ DOMAIN s = 1..Len(s)
    BY <1>3, PartsInOrder DEF Complete
  <2>2. ASSUME NEW x \in Parts(r, d) PROVE Row(r, f, x) = Row(r, g, x)
    <3>1. CASE x \in FileRows(r, d) \cup AlsoRows(r, d)
      <4>1. x[1] = "F"
        BY <3>1 DEF FileRows, AlsoRows
      <4> QED
        BY <4>1 DEF Row
    <3>2. CASE x \in r.links[d]
      <4>1. x[1] = "L"
        BY <1>3, <3>2 DEF Complete, Orderly
      <4> QED
        BY <4>1 DEF Row
    <3>3. CASE x \in SubRows(r, d)
      <4>1. x[1] = "D" /\ x[3] \in r.children[d]
        BY <3>3 DEF SubRows
      <4>2. f[x[3]] = g[x[3]]
        BY <1>3, <4>1 DEF Complete
      <4> QED
        BY <4>1, <4>2 DEF Row
    <3> QED
      BY <3>1, <3>2, <3>3 DEF Parts
  <2>3. \A i \in DOMAIN s : s[i] \in Parts(r, d)
    BY <2>1
  <2> HIDE DEF s
  <2>4. [i \in DOMAIN s |-> Row(r, f, s[i])] = [i \in DOMAIN s |-> Row(r, g, s[i])]
    BY <2>2, <2>3
  <2> QED
    BY <1>1, <1>3, <2>4 DEF ManifestOf, s
<1> QED
  BY <1>2, <1>3

\* There are manifests, and they are what is made of the parts of each folder.
LEMMA ManifestsSolve ==
  ASSUME NEW r, DOMAIN r.ok \in SUBSET Dirs, IsFiniteSet(DOMAIN r.ok),
         \A d \in DOMAIN r.ok : /\ r.ok[d] => Orderly(r, d)
                                /\ \A k \in r.children[d] : k \in Dirs /\ ParentOf[k] = d
  PROVE  \E f : f = [d \in DOMAIN r.ok |-> ManifestOf(r, f, d)]
<1> DEFINE D == DOMAIN r.ok
           Solves(f, S) == DOMAIN f = D /\ f = [x \in D |-> f[x]]
                           /\ \A d \in S : f[d] = ManifestOf(r, f, d)
           Closed(S) == \A d \in S : \A k \in r.children[d] : k \in D => k \in S
           X == {S \in SUBSET D : Closed(S) /\ \E f : Solves(f, S)}
<1>1. {} \in X
  <2>1. Solves([x \in D |-> 0], {})
    OBVIOUS
  <2> QED
    BY <2>1
<1>2. ASSUME NEW S \in SUBSET D, NEW d \in D \ S, S \in X,
             \A k \in D : ParentOf[k] = d => k \in S
      PROVE  S \cup {d} \in X
  <2>1. PICK f : Solves(f, S)
    BY <1>2
  <2> DEFINE new == ManifestOf(r, f, d)
             g == [x \in D |-> IF x = d THEN new ELSE f[x]]
  <2>2. Closed(S) /\ Closed(S \cup {d})
    BY <1>2
  <2>3. ASSUME NEW e \in S \cup {d} PROVE ManifestOf(r, f, e) = ManifestOf(r, g, e)
    <3>1. \A k \in r.children[e] : k \in D => k \in S
      BY <1>2, <2>2
    <3>2. \A k \in r.children[e] : k \in D => f[k] = g[k]
      BY <1>2, <3>1
    <3>3. r.ok[e] => Orderly(r, e)
      BY <1>2
    <3> HIDE DEF g
    <3> QED
      BY <3>2, <3>3, ManifestDepends
  <2>4. g[d] = new /\ \A e \in S : g[e] = f[e]
    BY <1>2
  <2>5. DOMAIN g = D /\ g = [x \in D |-> g[x]]
    OBVIOUS
  <2> HIDE DEF g
  <2>6. \A e \in S \cup {d} : g[e] = ManifestOf(r, g, e)
    BY <2>1, <2>3, <2>4
  <2>7. Solves(g, S \cup {d})
    BY <2>5, <2>6
  <2> QED
    BY <2>2, <2>7
<1>3. D \in X
  <2>1. \A S \in SUBSET D : \A d \in D \ S :
          S \in X /\ (\A k \in D : ParentOf[k] = d => k \in S) => S \cup {d} \in X
    BY <1>2
  <2> HIDE DEF X
  <2> QED
    BY <1>1, <2>1, UpTheTree
<1>4. PICK f : Solves(f, D)
  BY <1>3
<1>5. f = [d \in D |-> ManifestOf(r, f, d)]
  BY <1>4
<1> QED
  BY <1>5

LEMMA ManifestsAre ==
  ASSUME NEW r, DOMAIN r.ok \in SUBSET Dirs, IsFiniteSet(DOMAIN r.ok),
         \A d \in DOMAIN r.ok : /\ r.ok[d] => Orderly(r, d)
                                /\ \A k \in r.children[d] : k \in Dirs /\ ParentOf[k] = d
  PROVE  /\ DOMAIN Manifests(r) = DOMAIN r.ok
         /\ Manifests(r) = [d \in DOMAIN r.ok |-> Manifests(r)[d]]
         /\ \A d \in DOMAIN r.ok : Manifests(r)[d] = ManifestOf(r, Manifests(r), d)
<1> DEFINE man == CHOOSE f : f = [d \in DOMAIN r.ok |-> ManifestOf(r, f, d)]
<1>1. man = [d \in DOMAIN r.ok |-> ManifestOf(r, man, d)]
  BY ManifestsSolve
<1>2. Manifests(r) = [d \in DOMAIN r.ok |-> man[d]]
  BY Zenon DEF Manifests, ManifestOf, Complete, InOrder, FileRows, AlsoRows, SubRows
<1> HIDE DEF man
<1>3. Manifests(r) = man
  BY <1>1, <1>2
<1> QED
  BY <1>1, <1>3

\* Of two folders with one manifest, each part of one has its like in the other.
LEMMA RowsAlike ==
  ASSUME NEW r, NEW man, NEW a, NEW b, r.ok[a] => Orderly(r, a), r.ok[b] => Orderly(r, b),
         man[a] = ManifestOf(r, man, a), man[b] = ManifestOf(r, man, b),
         man[a].ok, man[b].ok, man[a].rows = man[b].rows
  PROVE  /\ Complete(r, man, a) /\ Complete(r, man, b)
         /\ \A x \in Parts(r, a) : \E y \in Parts(r, b) : Row(r, man, x) = Row(r, man, y)
<1>1. ASSUME NEW d \in {a, b}
      PROVE  /\ Complete(r, man, d) /\ Range(InOrder(r, d)) = Parts(r, d)
             /\ man[d].rows = [i \in DOMAIN InOrder(r, d) |-> Row(r, man, InOrder(r, d)[i])]
  <2>0. man[d] = ManifestOf(r, man, d) /\ man[d].ok
    OBVIOUS
  <2>2. Complete(r, man, d)
    <3>1. SUFFICES ASSUME ~Complete(r, man, d) PROVE FALSE
      OBVIOUS
    <3>2. Complete(r, man, d) = FALSE
      BY <3>1 DEF Complete
    <3>3. man[d].ok = FALSE
      BY <2>0, <3>2 DEF ManifestOf
    <3> QED
      BY <2>0, <3>3
  <2>3. man[d].rows = [i \in DOMAIN InOrder(r, d) |-> Row(r, man, InOrder(r, d)[i])]
    BY <2>0, <2>2 DEF ManifestOf
  <2>4. Orderly(r, d)
    BY <2>2 DEF Complete
  <2> QED
    BY <2>2, <2>3, <2>4, PartsInOrder
<1>2. ASSUME NEW x \in Parts(r, a)
      PROVE  \E y \in Parts(r, b) : Row(r, man, x) = Row(r, man, y)
  <2>1. PICK i \in DOMAIN InOrder(r, a) : InOrder(r, a)[i] = x
    BY <1>1 DEF Range
  <2>2. DOMAIN InOrder(r, a) = DOMAIN InOrder(r, b)
    BY <1>1
  <2>3. Row(r, man, x) = Row(r, man, InOrder(r, b)[i])
    <3>1. man[a].rows[i] = Row(r, man, x)
      BY <1>1, <2>1
    <3>2. man[b].rows[i] = Row(r, man, InOrder(r, b)[i])
      BY <1>1, <2>1, <2>2
    <3> QED
      BY <3>1, <3>2
  <2>4. InOrder(r, b)[i] \in Parts(r, b)
    BY <1>1, <2>1, <2>2 DEF Range
  <2> QED
    BY <2>3, <2>4
<1> QED
  BY <1>1, <1>2

\* Folders shown in one group have one manifest, and it is whole.
LEMMA InOneGroup ==
  ASSUME NEW man, NEW g \in DirGroupsOf(man), NEW a \in g, NEW b \in g
  PROVE  /\ a \in DOMAIN man /\ b \in DOMAIN man /\ man[a].ok /\ man[b].ok
         /\ man[a].rows = man[b].rows
<1> DEFINE like(d)    == {e \in DOMAIN man : man[e].ok /\ man[e] = man[d]}
           grouped    == {d \in DOMAIN man : man[d].ok /\ Cardinality(like(d)) >= 2}
           covered(d) == (Ancestors[d] \ {d}) \cap grouped # {}
<1>1. g \in {{e \in like(d) : ~covered(e)} : d \in grouped}
  BY DEF DirGroupsOf
<1>2. PICK d \in grouped : g = {e \in like(d) : ~covered(e)}
  BY <1>1
<1>3. a \in like(d) /\ b \in like(d)
  BY <1>2
<1> QED
  BY <1>3

\* Two kinds of parts have the same names and, for one name, the same row.
InStep(r, man, S, T) ==
  /\ \A x \in S : \E y \in T : x[2] = y[2]
  /\ \A y \in T : \E x \in S : x[2] = y[2]
  /\ \A x \in S, y \in T : x[2] = y[2] => Row(r, man, x) = Row(r, man, y)

LEMMA PartsAlike ==
  ASSUME NEW S, NEW T, NEW V, S \subseteq V, T \subseteq V, Sortable(S), Sortable(T),
         NEW r, NEW man, InStep(r, man, S, T), NEW F, F = [x \in V |-> Row(r, man, x)]
  PROVE  SameUnder(V, F, ByName(S), ByName(T))
<1>1. ByName(S) \in Seq(S) /\ ByName(T) \in Seq(T)
  BY ByNameIs DEF Sortable
<1>2. ByName(S) \in Seq(V) /\ ByName(T) \in Seq(V)
  BY <1>1, SeqMonotonic
<1>3. /\ Len(ByName(S)) = Len(ByName(T))
      /\ \A n \in 1..Len(ByName(S)) :
           /\ ByName(S)[n] \in S /\ ByName(T)[n] \in T
           /\ ByName(S)[n][2] = ByName(T)[n][2]
  BY PlacesAlike DEF Sortable, InStep
<1>4. \A x \in S, y \in T : x[2] = y[2] => F[x] = F[y]
  BY DEF InStep
<1> QED
  BY <1>2, <1>3, <1>4 DEF SameUnder

\* Two whole folders whose parts are in step have the same rows.
LEMMA RowsInStep ==
  ASSUME NEW r, NEW man, NEW a, NEW b, Orderly(r, a), Orderly(r, b),
         InStep(r, man, FileRows(r, a), FileRows(r, b)),
         InStep(r, man, r.links[a], r.links[b]),
         InStep(r, man, AlsoRows(r, a), AlsoRows(r, b)),
         InStep(r, man, SubRows(r, a), SubRows(r, b))
  PROVE  /\ DOMAIN InOrder(r, a) = DOMAIN InOrder(r, b)
         /\ \A n \in DOMAIN InOrder(r, a) :
              Row(r, man, InOrder(r, a)[n]) = Row(r, man, InOrder(r, b)[n])
<1> DEFINE V == Parts(r, a) \cup Parts(r, b)
<1>0. /\ FileRows(r, a) \subseteq V /\ r.links[a] \subseteq V
      /\ AlsoRows(r, a) \subseteq V /\ SubRows(r, a) \subseteq V
      /\ FileRows(r, b) \subseteq V /\ r.links[b] \subseteq V
      /\ AlsoRows(r, b) \subseteq V /\ SubRows(r, b) \subseteq V
  BY DEF Parts
<1> HIDE DEF V
<1>1. PICK F : F = [x \in V |-> Row(r, man, x)]
  OBVIOUS
<1> DEFINE Like(s, t) == SameUnder(V, F, s, t)
<1>2. ASSUME NEW S, NEW T, S \subseteq V, T \subseteq V, Sortable(S), Sortable(T),
             InStep(r, man, S, T)
      PROVE  Like(ByName(S), ByName(T))
  BY <1>1, <1>2, PartsAlike
<1>3. ASSUME NEW s, NEW t, NEW u, NEW v, Like(s, t), Like(u, v)
      PROVE  Like(s \o u, t \o v)
  BY <1>3, TogetherAlike
<1> HIDE DEF Like
<1>4. /\ Like(ByName(FileRows(r, a)), ByName(FileRows(r, b)))
      /\ Like(ByName(r.links[a]), ByName(r.links[b]))
      /\ Like(ByName(AlsoRows(r, a)), ByName(AlsoRows(r, b)))
      /\ Like(ByName(SubRows(r, a)), ByName(SubRows(r, b)))
  BY <1>0, <1>2, PartsSortable
<1>5. Like(InOrder(r, a), InOrder(r, b))
  BY <1>3, <1>4 DEF InOrder
<1>6. /\ DOMAIN InOrder(r, a) = 1..Len(InOrder(r, a))
      /\ DOMAIN InOrder(r, b) = 1..Len(InOrder(r, a))
  BY <1>5 DEF Like, SameUnder
<1>7. ASSUME NEW n \in 1..Len(InOrder(r, a))
      PROVE  Row(r, man, InOrder(r, a)[n]) = Row(r, man, InOrder(r, b)[n])
  <2>1. InOrder(r, a)[n] \in V /\ InOrder(r, b)[n] \in V
    BY <1>5, <1>6 DEF Like, SameUnder
  <2>2. F[InOrder(r, a)[n]] = F[InOrder(r, b)[n]]
    BY <1>5 DEF Like, SameUnder
  <2> QED
    BY <1>1, <2>1, <2>2
<1> QED
  BY <1>6, <1>7

-----------------------------------------------------------------------------
(* Clusters: union-find *)

Hops == 0..Cardinality(Dirs)

LEMMA HopsAre == Cardinality(Dirs) \in Nat
BY FoldersAssumption, FS_CardinalityType

\* What holds of 0, and of the next number with each, holds of all up to a bound.
LEMMA UpTo ==
  ASSUME NEW N \in Nat, NEW P, 0 \in P, \A n \in 0..N : n \in P /\ n < N => n + 1 \in P
  PROVE  \A n \in 0..N : n \in P
<1> SUFFICES ASSUME {n \in 0..N : n \notin P} # {} PROVE FALSE
  OBVIOUS
<1> DEFINE S == {n \in 0..N : n \notin P}
<1>1. S \in SUBSET Nat /\ S # {}
  OBVIOUS
<1> HIDE DEF S
<1>2. PICK n \in S : \A m \in S : n <= m
  BY <1>1, HasLeast
<1>3. n \in 0..N /\ n \notin P /\ n # 0
  BY <1>2 DEF S
<1>4. n - 1 \in 0..N /\ n - 1 < n /\ n - 1 < N /\ (n - 1) + 1 = n
  BY <1>3
<1>5. n - 1 \notin S
  BY <1>1, <1>2, <1>4
<1>6. n - 1 \in P
  BY <1>4, <1>5 DEF S
<1> QED
  BY <1>3, <1>4, <1>6

Climbing(uf, d, up) == up = [n \in Hops |-> IF n = 0 THEN d ELSE uf[up[n - 1]]]

Climb(uf, d) == CHOOSE up : Climbing(uf, d, up)

LEMMA FindRootIs ==
  ASSUME NEW uf, NEW d
  PROVE  FindRoot(uf, d) = Climb(uf, d)[Cardinality(Dirs)]
BY DEF FindRoot, Climb, Climbing, Hops

LEMMA ClimbIs ==
  ASSUME NEW uf, NEW d
  PROVE  /\ Climb(uf, d)[0] = d
         /\ \A n \in Hops : n < Cardinality(Dirs) => Climb(uf, d)[n + 1] = uf[Climb(uf, d)[n]]
<1> DEFINE N == Cardinality(Dirs)
           S(m, up) == up = [n \in 0..m |-> IF n = 0 THEN d ELSE uf[up[n - 1]]]
           P == {m \in 0..N : \E up : S(m, up)}
<1>1. N \in Nat
  BY HopsAre
<1>2. 0 \in P
  <2> DEFINE up == [n \in 0..0 |-> d]
  <2>1. \A n \in 0..0 : n = 0
    OBVIOUS
  <2>2. S(0, up)
    BY <2>1
  <2>3. 0 \in 0..N
    BY <1>1
  <2> HIDE DEF up
  <2> QED
    BY <2>2, <2>3
<1>3. ASSUME NEW m \in 0..N, m \in P, m < N PROVE m + 1 \in P
  <2>1. PICK old : S(m, old)
    BY <1>3
  <2> DEFINE up == [n \in 0..(m + 1) |-> IF n \in 0..m THEN old[n] ELSE uf[old[m]]]
  <2>2. \A n \in 0..(m + 1) : n \in 0..m \/ (n = m + 1 /\ n # 0)
    BY <1>1
  <2>3. ASSUME NEW n \in 0..(m + 1) PROVE up[n] = IF n = 0 THEN d ELSE uf[up[n - 1]]
    <3>1. CASE n = 0
      BY <2>1, <3>1, <1>1
    <3>2. CASE n # 0
      <4>1. n - 1 \in 0..m /\ up[n - 1] = old[n - 1]
        BY <3>2, <1>1
      <4>2. n \in 0..m => old[n] = uf[old[n - 1]]
        BY <2>1, <3>2
      <4>3. n \notin 0..m => n - 1 = m
        BY <1>1
      <4> QED
        BY <3>2, <4>1, <4>2, <4>3
    <3> QED
      BY <3>1, <3>2
  <2>4. S(m + 1, up)
    <3>1. up = [n \in 0..(m + 1) |-> up[n]]
      OBVIOUS
    <3> HIDE DEF up
    <3> QED
      BY <2>3, <3>1
  <2>5. m + 1 \in 0..N
    BY <1>1, <1>3
  <2> HIDE DEF up
  <2> QED
    BY <2>4, <2>5
<1>4. N \in P
  <2> HIDE DEF P
  <2>1. \A m \in 0..N : m \in P
    BY <1>1, <1>2, <1>3, UpTo
  <2> QED
    BY <1>1, <2>1
<1>5. \E up : Climbing(uf, d, up)
  BY <1>4 DEF Climbing, Hops
<1>6. Climbing(uf, d, Climb(uf, d))
  BY <1>5 DEF Climb
<1>7. \A n \in Hops : Climb(uf, d)[n] = IF n = 0 THEN d ELSE uf[Climb(uf, d)[n - 1]]
  BY <1>6 DEF Climbing
<1>8. ASSUME NEW n \in Hops, n < N PROVE n + 1 \in Hops /\ n + 1 # 0 /\ (n + 1) - 1 = n
  BY <1>1, <1>8 DEF Hops
<1>9. 0 \in Hops
  BY <1>1 DEF Hops
<1> QED
  BY <1>7, <1>8, <1>9

\* Maps whose climbs end: after as many hops as there are folders with one above.
NonRoots(u) == {d \in Dirs : u[d] # d}

Forest(u) ==
  /\ u \in [Dirs -> Dirs]
  /\ \A d \in Dirs : \A n \in Hops :
       n >= Cardinality(NonRoots(u)) => u[Climb(u, d)[n]] = Climb(u, d)[n]

LEMMA ClimbIn ==
  ASSUME NEW u \in [Dirs -> Dirs], NEW d \in Dirs
  PROVE  /\ \A n \in Hops : Climb(u, d)[n] \in Dirs
         /\ u[d] = d => \A n \in Hops : Climb(u, d)[n] = d
         /\ \A m, n \in Hops : m >= n /\ u[Climb(u, d)[n]] = Climb(u, d)[n] =>
              Climb(u, d)[m] = Climb(u, d)[n]
<1> DEFINE N == Cardinality(Dirs)
           up == Climb(u, d)
           P == {n \in 0..N : up[n] \in Dirs}
           Q == {n \in 0..N : up[n] = d}
<1>1. /\ N \in Nat /\ Hops = 0..N /\ up[0] = d
      /\ \A n \in 0..N : n < N => up[n + 1] = u[up[n]] /\ n + 1 \in 0..N
  BY HopsAre, ClimbIs DEF Hops
<1> HIDE DEF up, N
<1>2. \A n \in 0..N : n \in P
  <2>1. 0 \in P /\ \A n \in 0..N : n \in P /\ n < N => n + 1 \in P
    BY <1>1
  <2> HIDE DEF P
  <2> QED
    BY <1>1, <2>1, UpTo
<1>3. ASSUME u[d] = d PROVE \A n \in 0..N : n \in Q
  <2>1. 0 \in Q /\ \A n \in 0..N : n \in Q /\ n < N => n + 1 \in Q
    BY <1>1, <1>3
  <2> HIDE DEF Q
  <2> QED
    BY <1>1, <2>1, UpTo
<1>4. ASSUME NEW n \in 0..N, u[up[n]] = up[n] PROVE \A m \in 0..N : m >= n => up[m] = up[n]
  <2> DEFINE R == {m \in 0..N : m < n \/ up[m] = up[n]}
  <2>1. ASSUME NEW m \in 0..N, m \in R, m < N PROVE m + 1 \in R
    <3>1. CASE m < n
      <4>1. m + 1 < n \/ m + 1 = n
        BY <1>1, <3>1
      <4> QED
        BY <1>1, <2>1, <4>1
    <3>2. CASE ~(m < n)
      BY <1>1, <1>4, <2>1, <3>2
    <3> QED
      BY <3>1, <3>2
  <2>2. 0 \in R
    BY <1>1
  <2>3. \A m \in 0..N : m \in R
    <3> HIDE DEF R
    <3> QED
      BY <1>1, <2>1, <2>2, UpTo
  <2> QED
    BY <1>1, <2>3
<1> QED
  BY <1>1, <1>2, <1>3, <1>4 DEF up

LEMMA RootIs ==
  ASSUME NEW u, Forest(u), NEW d \in Dirs
  PROVE  /\ FindRoot(u, d) \in Dirs /\ u[FindRoot(u, d)] = FindRoot(u, d)
         /\ u[d] = d => FindRoot(u, d) = d
         /\ \A n \in Hops : n >= Cardinality(NonRoots(u)) => Climb(u, d)[n] = FindRoot(u, d)
<1> DEFINE N == Cardinality(Dirs)
<1>1. N \in Hops /\ N \in Nat /\ \A n \in Hops : n <= N
  BY HopsAre DEF Hops
<1>2. Cardinality(NonRoots(u)) <= N
  <2>1. NonRoots(u) \in SUBSET Dirs
    BY DEF NonRoots
  <2> QED
    BY <2>1, FoldersAssumption, FS_Subset
<1>3. FindRoot(u, d) = Climb(u, d)[N]
  BY FindRootIs
<1>4. u \in [Dirs -> Dirs] /\ u[Climb(u, d)[N]] = Climb(u, d)[N]
  BY <1>1, <1>2 DEF Forest
<1>5. ASSUME NEW n \in Hops, n >= Cardinality(NonRoots(u)) PROVE Climb(u, d)[n] = Climb(u, d)[N]
  <2>1. u[Climb(u, d)[n]] = Climb(u, d)[n] /\ N >= n
    BY <1>1, <1>5 DEF Forest
  <2> QED
    BY <1>1, <1>4, <2>1, ClimbIn
<1> QED
  BY <1>1, <1>3, <1>4, <1>5, ClimbIn

LEMMA ForestBegins ==
  LET u == [d \in Dirs |-> d]
  IN  Forest(u) /\ \A d \in Dirs : FindRoot(u, d) = d
<1> DEFINE u == [d \in Dirs |-> d]
<1>1. u \in [Dirs -> Dirs] /\ \A d \in Dirs : u[d] = d
  OBVIOUS
<1> HIDE DEF u
<1>2. Forest(u)
  BY <1>1, ClimbIn DEF Forest
<1>3. \A d \in Dirs : FindRoot(u, d) = d
  BY <1>1, <1>2, RootIs
<1> QED
  BY <1>2, <1>3 DEF u

\* Two climbs, before and after a root is put below another one.
PutBelow(u, v, a, b) ==
  /\ {u, v} \subseteq [Dirs -> Dirs] /\ {a, b} \subseteq Dirs
  /\ a # b /\ u[a] = a /\ u[b] = b
  /\ v[a] = b /\ \A e \in Dirs : e # a => v[e] = u[e]

LEMMA ClimbsTogether ==
  ASSUME NEW u, NEW v, NEW a, NEW b, PutBelow(u, v, a, b), NEW d \in Dirs
  PROVE  \A n \in Hops : \/ Climb(v, d)[n] = Climb(u, d)[n]
                         \/ Climb(u, d)[n] = a /\ Climb(v, d)[n] = b
<1> DEFINE N == Cardinality(Dirs)
           up == Climb(u, d)
           vp == Climb(v, d)
           P == {n \in 0..N : vp[n] = up[n] \/ (up[n] = a /\ vp[n] = b)}
<1>0. /\ u \in [Dirs -> Dirs] /\ v \in [Dirs -> Dirs] /\ a \in Dirs /\ b \in Dirs
      /\ a # b /\ u[a] = a /\ u[b] = b
      /\ v[a] = b /\ \A e \in Dirs : e # a => v[e] = u[e]
  BY DEF PutBelow
<1>1. /\ N \in Nat /\ Hops = 0..N
      /\ \A n \in 0..N : n < N => n + 1 \in 0..N
  BY HopsAre DEF Hops
<1>2. /\ up[0] = d /\ \A n \in Hops : n < N => up[n + 1] = u[up[n]]
      /\ vp[0] = d /\ \A n \in Hops : n < N => vp[n + 1] = v[vp[n]]
  BY ClimbIs
<1>6. \A n \in 0..N : up[n] \in Dirs
  <2>1. \A n \in Hops : Climb(u, d)[n] \in Dirs
    BY <1>0, ClimbIn
  <2> QED
    BY <1>1, <2>1
<1> HIDE DEF up, vp, N
<1>3. 0 \in P
  BY <1>1, <1>2
<1>4. ASSUME NEW n \in 0..N, n \in P, n < N PROVE n + 1 \in P
  BY <1>0, <1>1, <1>2, <1>4, <1>6
<1>5. \A n \in 0..N : n \in P
  <2> HIDE DEF P
  <2> QED
    BY <1>1, <1>3, <1>4, UpTo
<1> QED
  BY <1>1, <1>5 DEF up, vp

LEMMA UnionIs ==
  ASSUME NEW u, Forest(u), NEW a \in Dirs, NEW b \in Dirs, NEW v, v = Union(u, a, b)
  PROVE  /\ Forest(v)
         /\ \A d \in Dirs : FindRoot(v, d) = IF FindRoot(u, d) = FindRoot(u, a)
                                             THEN FindRoot(u, b) ELSE FindRoot(u, d)
<1> DEFINE N == Cardinality(Dirs)
<1>1. PICK x \in Dirs : x = FindRoot(u, a) /\ u[x] = x
  BY RootIs
<1>2. PICK y \in Dirs : y = FindRoot(u, b) /\ u[y] = y
  BY RootIs
<1>3. v = [u EXCEPT ![x] = y] /\ u \in [Dirs -> Dirs]
  BY <1>1, <1>2 DEF Union, Forest
<1>4. CASE x = y
  <2>1. v = u
    BY <1>1, <1>3, <1>4
  <2> QED
    BY <1>1, <1>2, <1>4, <2>1
<1>5. CASE x # y
  <2>1. /\ v \in [Dirs -> Dirs] /\ v[x] = y /\ v[y] = y
        /\ \A e \in Dirs : e # x => v[e] = u[e]
    BY <1>2, <1>3, <1>5
  <2>2. /\ N \in Nat /\ N \in Hops /\ Cardinality(NonRoots(u)) \in Nat
        /\ Cardinality(NonRoots(v)) = Cardinality(NonRoots(u)) + 1
        /\ Cardinality(NonRoots(v)) <= N
    <3>1. NonRoots(v) = NonRoots(u) \cup {x} /\ x \notin NonRoots(u)
      BY <1>1, <1>5, <2>1 DEF NonRoots
    <3>2. NonRoots(u) \in SUBSET Dirs /\ NonRoots(v) \in SUBSET Dirs
      BY DEF NonRoots
    <3>3. IsFiniteSet(NonRoots(u)) /\ Cardinality(NonRoots(v)) <= N
      BY <3>2, FoldersAssumption, FS_Subset
    <3> QED
      BY <3>1, <3>3, FS_AddElement, FS_CardinalityType, HopsAre DEF Hops
  <2>3. ASSUME NEW d \in Dirs, NEW n \in Hops, n >= Cardinality(NonRoots(v))
        PROVE  Climb(v, d)[n] = IF FindRoot(u, d) = x THEN y ELSE FindRoot(u, d)
    <3>1. /\ n \in Nat /\ n - 1 \in Hops /\ n - 1 < N /\ (n - 1) + 1 = n
          /\ n - 1 >= Cardinality(NonRoots(u)) /\ n >= Cardinality(NonRoots(u))
      BY <2>2, <2>3 DEF Hops
    <3>2. Climb(u, d)[n - 1] = FindRoot(u, d) /\ Climb(u, d)[n] = FindRoot(u, d)
      BY <3>1, RootIs
    <3>3. Climb(v, d)[n] = v[Climb(v, d)[n - 1]]
      BY <3>1, ClimbIs
    <3>5. \A m \in Hops : \/ Climb(v, d)[m] = Climb(u, d)[m]
                          \/ Climb(u, d)[m] = x /\ Climb(v, d)[m] = y
      <4>1. PutBelow(u, v, x, y)
        BY <1>1, <1>2, <1>3, <1>5, <2>1 DEF PutBelow
      <4> QED
        BY <4>1, ClimbsTogether
    <3>4. /\ \/ Climb(v, d)[n - 1] = Climb(u, d)[n - 1]
             \/ Climb(u, d)[n - 1] = x /\ Climb(v, d)[n - 1] = y
          /\ \/ Climb(v, d)[n] = Climb(u, d)[n]
             \/ Climb(u, d)[n] = x /\ Climb(v, d)[n] = y
      BY <3>1, <3>5
    <3> QED
      BY <1>5, <2>1, <3>2, <3>3, <3>4
  <2>4. ASSUME NEW d \in Dirs
        PROVE  FindRoot(v, d) = IF FindRoot(u, d) = x THEN y ELSE FindRoot(u, d)
    <3>1. N >= Cardinality(NonRoots(v))
      BY <2>2, FoldersAssumption, FS_CardinalityType
    <3> QED
      BY <2>2, <2>3, <3>1, FindRootIs
  <2>5. Forest(v)
    <3> SUFFICES ASSUME NEW d \in Dirs, NEW n \in Hops, n >= Cardinality(NonRoots(v))
                 PROVE  v[Climb(v, d)[n]] = Climb(v, d)[n]
      BY <2>1 DEF Forest
    <3>1. FindRoot(u, d) \in Dirs /\ u[FindRoot(u, d)] = FindRoot(u, d)
      BY RootIs
    <3> QED
      BY <1>5, <2>1, <2>3, <3>1
  <2> QED
    BY <1>1, <1>2, <2>4, <2>5
<1> QED
  BY <1>4, <1>5

\* The two folds of union-find, over the folders of a class and over the
\* classes, one step at a time.
Joining(a, x, u) == IF a = <<>> THEN JoinClass(u, x) ELSE Union(u, a[1], x)

Joined(a, base, S, it) ==
  it = [s \in SUBSET S |-> IF s = {} THEN base
                           ELSE Joining(a, Picked(s), it[s \ {Picked(s)}])]

JoinedOf(a, base, S) == CHOOSE it : Joined(a, base, S, it)

LEMMA JoinedAgree ==
  ASSUME NEW a, NEW base, NEW S, NEW it, Joined(a, base, S, it), IsFiniteSet(S),
         NEW R \in SUBSET S, NEW others, Joined(a, base, R, others)
  PROVE  \A T \in SUBSET R : it[T] = others[T]
<1> DEFINE P == {T \in SUBSET R : it[T] = others[T]}
<1>1. IsFiniteSet(R)
  BY FS_Subset
<1>2. ASSUME NEW T \in SUBSET R, \A U \in SUBSET T : U # T => U \in P
      PROVE  T \in P
  <2>1. T \in SUBSET S
    OBVIOUS
  <2>2. CASE T = {}
    BY <2>1, <2>2 DEF Joined
  <2>3. CASE T # {}
    <3>1. Picked(T) \in T
      BY <2>3, PickedIn
    <3>2. T \ {Picked(T)} \in P
      BY <3>1, <1>2
    <3>3. it[T] = Joining(a, Picked(T), it[T \ {Picked(T)}])
      BY <2>1, <2>3 DEF Joined
    <3>4. others[T] = Joining(a, Picked(T), others[T \ {Picked(T)}])
      BY <2>3 DEF Joined
    <3> QED
      BY <3>2, <3>3, <3>4
  <2> QED
    BY <2>2, <2>3
<1> HIDE DEF P
<1>3. \A T \in SUBSET R : T \in P
  BY <1>1, <1>2, SubsetInduction
<1> QED
  BY <1>3 DEF P

LEMMA JoinedExist ==
  ASSUME NEW a, NEW base, NEW S, IsFiniteSet(S)
  PROVE  Joined(a, base, S, JoinedOf(a, base, S))
<1> DEFINE P == {T \in SUBSET S : Joined(a, base, T, JoinedOf(a, base, T))}
<1>1. ASSUME NEW T \in SUBSET S, \A U \in SUBSET T : U # T => U \in P
      PROVE  T \in P
  <2> DEFINE Less(U) == U \ {Picked(U)}
             it == [U \in SUBSET T |-> IF U = {} THEN base
                      ELSE Joining(a, Picked(U), JoinedOf(a, base, Less(U))[Less(U)])]
  <2>1. ASSUME NEW U \in SUBSET T, U # {}
        PROVE  /\ Less(U) \in SUBSET T /\ Less(U) # T /\ IsFiniteSet(Less(U))
               /\ Joined(a, base, Less(U), JoinedOf(a, base, Less(U)))
    <3>1. Picked(U) \in U
      BY <2>1, PickedIn
    <3>2. Less(U) \in SUBSET T /\ Less(U) # T /\ Less(U) \in SUBSET S
      BY <3>1
    <3> QED
      BY <3>2, <1>1, FS_Subset
  <2>2. ASSUME NEW U \in SUBSET T, U # {}
        PROVE  it[Less(U)] = JoinedOf(a, base, Less(U))[Less(U)]
    <3> DEFINE V == Less(U)
    <3>1. V \in SUBSET T /\ Joined(a, base, V, JoinedOf(a, base, V)) /\ IsFiniteSet(V)
      BY <2>1, <2>2
    <3>2. CASE V = {}
      BY <3>1, <3>2 DEF Joined
    <3>3. CASE V # {}
      <4>1. it[V] = Joining(a, Picked(V), JoinedOf(a, base, Less(V))[Less(V)])
        BY <3>1, <3>3
      <4>2. JoinedOf(a, base, V)[V] = Joining(a, Picked(V), JoinedOf(a, base, V)[Less(V)])
        BY <3>1, <3>3 DEF Joined
      <4>3. Less(V) \in SUBSET V /\ Joined(a, base, Less(V), JoinedOf(a, base, Less(V)))
        BY <2>1, <3>1, <3>3
      <4>4. JoinedOf(a, base, V)[Less(V)] = JoinedOf(a, base, Less(V))[Less(V)]
        <5> HIDE DEF V, Less
        <5> QED
          BY <3>1, <4>3, JoinedAgree
      <4> QED
        BY <4>1, <4>2, <4>4
    <3> QED
      BY <3>2, <3>3
  <2>3. Joined(a, base, T, it)
    BY <2>2 DEF Joined
  <2>4. Joined(a, base, T, JoinedOf(a, base, T))
    <3> HIDE DEF it
    <3> QED
      BY <2>3 DEF JoinedOf
  <2> QED
    BY <2>4
<1> HIDE DEF P
<1>2. S \in P
  BY <1>1, SubsetInduction
<1> QED
  BY <1>2 DEF P

\* The fold over the folders of a class, and over the classes.
InClass(first, base, S, it) ==
  it = [s \in SUBSET S |-> IF s = {} THEN base
                           ELSE Union(it[s \ {Picked(s)}], first, Picked(s))]

OverClasses(base, S, it) ==
  it = [s \in SUBSET S |-> IF s = {} THEN base
                           ELSE JoinClass(it[s \ {Picked(s)}], Picked(s))]

LEMMA InClassIsFold ==
  ASSUME NEW uf, NEW ds
  PROVE  LET S == ds \ {Picked(ds)}
         IN  JoinClass(uf, ds) = (CHOOSE it : InClass(Picked(ds), uf, S, it))[S]
BY DEF JoinClass, FoldSet, MapThenFoldSet, InClass, Picked

LEMMA OverClassesIsFold ==
  ASSUME NEW r
  PROVE  FoldSet(LAMBDA ds, u : JoinClass(u, ds), [d \in Dirs |-> d], Tied(r))
           = (CHOOSE it : OverClasses([d \in Dirs |-> d], Tied(r), it))[Tied(r)]
BY DEF FoldSet, MapThenFoldSet, OverClasses, Picked

LEMMA FoldsSolved ==
  ASSUME NEW base, NEW S, IsFiniteSet(S)
  PROVE  /\ \A first : InClass(first, base, S, CHOOSE it : InClass(first, base, S, it))
         /\ OverClasses(base, S, CHOOSE it : OverClasses(base, S, it))
<1>1. ASSUME NEW first PROVE \E it : InClass(first, base, S, it)
  <2> DEFINE a == <<first>>
  <2>1. a # <<>> /\ a[1] = first
    OBVIOUS
  <2> HIDE DEF a
  <2>2. \A x, u : Joining(a, x, u) = Union(u, first, x)
    BY <2>1 DEF Joining
  <2>3. PICK it : Joined(a, base, S, it)
    BY JoinedExist
  <2>4. InClass(first, base, S, it)
    BY <2>2, <2>3 DEF Joined, InClass
  <2> QED
    BY <2>4
<1>2. \E it : OverClasses(base, S, it)
  <2>1. \A x, u : Joining(<<>>, x, u) = JoinClass(u, x)
    BY DEF Joining
  <2>2. PICK it : Joined(<<>>, base, S, it)
    BY JoinedExist
  <2>3. OverClasses(base, S, it)
    BY <2>1, <2>2 DEF Joined, OverClasses
  <2> QED
    BY <2>3
<1> QED
  BY <1>1, <1>2

-----------------------------------------------------------------------------
(* What union-find computes *)

\* A set of folders that no set of T ties to another one.
ClosedIn(T, X) == \A ds \in T : ds \cap X # {} => ds \subseteq X

\* Folders of one root are together in X, or together out of it.
Respects(u, X) ==
  \A d, e \in Dirs : FindRoot(u, d) = FindRoot(u, e) /\ d \in X => e \in X

\* v has joined what u has, and all of ds; and nothing that is closed is left.
JoinedBy(u, v, ds) ==
  /\ Forest(v)
  /\ \A d, e \in Dirs : FindRoot(u, d) = FindRoot(u, e) => FindRoot(v, d) = FindRoot(v, e)
  /\ \A d, e \in ds : FindRoot(v, d) = FindRoot(v, e)
  /\ \A X \in SUBSET Dirs : Respects(u, X) /\ ClosedIn({ds}, X) => Respects(v, X)

LEMMA JoinsNone ==
  ASSUME NEW u, Forest(u), NEW d
  PROVE  JoinedBy(u, u, {d})
BY DEF JoinedBy

LEMMA JoinsOne ==
  ASSUME NEW u, Forest(u), NEW v, NEW ds \in SUBSET Dirs, NEW first \in ds, JoinedBy(u, v, ds),
         NEW x \in Dirs, NEW w, w = Union(v, first, x)
  PROVE  JoinedBy(u, w, ds \cup {x})
<1>1. /\ Forest(v)
      /\ \A d, e \in Dirs : FindRoot(u, d) = FindRoot(u, e) => FindRoot(v, d) = FindRoot(v, e)
      /\ \A d, e \in ds : FindRoot(v, d) = FindRoot(v, e)
      /\ first \in Dirs
  BY DEF JoinedBy
<1>2. /\ Forest(w)
      /\ \A d \in Dirs : FindRoot(w, d) = IF FindRoot(v, d) = FindRoot(v, first)
                                          THEN FindRoot(v, x) ELSE FindRoot(v, d)
  BY <1>1, UnionIs
<1>3. \A d, e \in ds \cup {x} : FindRoot(w, d) = FindRoot(w, e)
  BY <1>1, <1>2
<1>4. ASSUME NEW X \in SUBSET Dirs, Respects(u, X), ClosedIn({ds \cup {x}}, X)
      PROVE  Respects(w, X)
  <2>1. ClosedIn({ds}, X) /\ (first \in X <=> x \in X)
    BY <1>4 DEF ClosedIn
  <2>2. Respects(v, X)
    BY <1>4, <2>1 DEF JoinedBy
  <2> QED
    BY <1>1, <1>2, <2>1, <2>2 DEF Respects
<1>5. \A d, e \in Dirs : FindRoot(u, d) = FindRoot(u, e) => FindRoot(w, d) = FindRoot(w, e)
  BY <1>1, <1>2
<1> QED
  BY <1>2, <1>3, <1>4, <1>5 DEF JoinedBy

LEMMA JoinClassIs ==
  ASSUME NEW u, Forest(u), NEW ds \in SUBSET Dirs, ds # {}
  PROVE  JoinedBy(u, JoinClass(u, ds), ds)
<1> DEFINE first == Picked(ds)
           S == ds \ {first}
           it == CHOOSE i : InClass(first, u, S, i)
           P == {s \in SUBSET S : JoinedBy(u, it[s], s \cup {first})}
<1>1. first \in ds /\ S \in SUBSET ds /\ S \in SUBSET Dirs /\ S \cup {first} = ds
  BY PickedIn
<1>2. IsFiniteSet(S)
  BY <1>1, FoldersAssumption, FS_Subset
<1>3. JoinClass(u, ds) = it[S]
  BY InClassIsFold
<1>4. InClass(first, u, S, it)
  <2> HIDE DEF S, first
  <2> QED
    BY <1>2, FoldsSolved
<1> HIDE DEF it, first, S
<1>5. ASSUME NEW s \in SUBSET S, \A t \in SUBSET s : t # s => t \in P PROVE s \in P
  <2>1. CASE s = {}
    <3>1. it[s] = u /\ s \cup {first} = {first}
      BY <1>4, <2>1 DEF InClass
    <3> QED
      BY <3>1, JoinsNone
  <2>2. CASE s # {}
    <3>1. PICK x \in s : x = Picked(s)
      BY <2>2, PickedIn
    <3>2. PICK t : t = s \ {x}
      OBVIOUS
    <3>3. t \in P /\ t \in SUBSET S /\ x \in Dirs /\ first \in Dirs
      BY <1>1, <1>5, <3>1, <3>2
    <3>4. it[s] = Union(it[t], first, x)
      BY <1>4, <2>2, <3>1, <3>2 DEF InClass
    <3>5. JoinedBy(u, it[t], t \cup {first}) /\ t \cup {first} \in SUBSET Dirs
      BY <1>1, <3>3
    <3>6. JoinedBy(u, it[s], (t \cup {first}) \cup {x})
      BY <3>3, <3>4, <3>5, JoinsOne
    <3>7. (t \cup {first}) \cup {x} = s \cup {first}
      BY <3>1, <3>2
    <3> QED
      BY <3>6, <3>7
  <2> QED
    BY <2>1, <2>2
<1>6. S \in P
  <2> HIDE DEF P
  <2> QED
    BY <1>2, <1>5, SubsetInduction
<1> QED
  BY <1>1, <1>3, <1>6

\* All of each set of T has one root, and no more than T ties.
Linked(T, u) ==
  /\ Forest(u)
  /\ \A ds \in T : \A d, e \in ds : FindRoot(u, d) = FindRoot(u, e)
  /\ \A X \in SUBSET Dirs : ClosedIn(T, X) => Respects(u, X)

LEMMA LinksOne ==
  ASSUME NEW T \in SUBSET SUBSET Dirs, NEW u, Linked(T, u), NEW ds \in SUBSET Dirs,
         NEW v, JoinedBy(u, v, ds)
  PROVE  Linked(T \cup {ds}, v)
<1>1. ASSUME NEW cs \in T \cup {ds}, NEW d \in cs, NEW e \in cs
      PROVE  FindRoot(v, d) = FindRoot(v, e)
  <2>1. d \in Dirs /\ e \in Dirs
    OBVIOUS
  <2>2. CASE cs \in T
    <3>1. FindRoot(u, d) = FindRoot(u, e)
      BY <2>2 DEF Linked
    <3> QED
      BY <2>1, <3>1 DEF JoinedBy
  <2>3. CASE cs = ds
    BY <2>3 DEF JoinedBy
  <2> QED
    BY <2>2, <2>3
<1>2. ASSUME NEW X \in SUBSET Dirs, ClosedIn(T \cup {ds}, X) PROVE Respects(v, X)
  <2>1. ClosedIn(T, X) /\ ClosedIn({ds}, X)
    BY <1>2 DEF ClosedIn
  <2> QED
    BY <2>1 DEF Linked, JoinedBy
<1> QED
  BY <1>1, <1>2 DEF Linked, JoinedBy

LEMMA AllLinked ==
  ASSUME NEW T \in SUBSET SUBSET Dirs, {} \notin T, NEW it,
         OverClasses([d \in Dirs |-> d], T, it)
  PROVE  Linked(T, it[T])
<1> DEFINE P == {s \in SUBSET T : Linked(s, it[s])}
<1>1. IsFiniteSet(T)
  BY FoldersAssumption, FS_SUBSET, FS_Subset
<1>2. ASSUME NEW s \in SUBSET T, \A t \in SUBSET s : t # s => t \in P PROVE s \in P
  <2>1. CASE s = {}
    <3>1. PICK u : u = [d \in Dirs |-> d]
      OBVIOUS
    <3>2. it[s] = u
      BY <2>1, <3>1 DEF OverClasses
    <3>3. Forest(u) /\ \A d \in Dirs : FindRoot(u, d) = d
      BY <3>1, ForestBegins
    <3>4. \A X : Respects(u, X)
      BY <3>3 DEF Respects
    <3> QED
      BY <2>1, <3>2, <3>3, <3>4 DEF Linked
  <2>2. CASE s # {}
    <3>1. PICK ds \in s : ds = Picked(s)
      BY <2>2, PickedIn
    <3>2. PICK t : t = s \ {ds}
      OBVIOUS
    <3>3. t \in P /\ ds \in SUBSET Dirs /\ ds # {} /\ t \cup {ds} = s
      BY <1>2, <3>1, <3>2
    <3>4. it[s] = JoinClass(it[t], ds)
      BY <2>2, <3>1, <3>2 DEF OverClasses
    <3>5. Linked(t, it[t]) /\ Forest(it[t])
      BY <3>3 DEF Linked
    <3>6. JoinedBy(it[t], it[s], ds)
      BY <3>3, <3>4, <3>5, JoinClassIs
    <3>7. Linked(t \cup {ds}, it[s])
      BY <3>3, <3>5, <3>6, LinksOne
    <3> QED
      BY <3>3, <3>7
  <2> QED
    BY <2>1, <2>2
<1>3. T \in P
  <2> HIDE DEF P
  <2> QED
    BY <1>1, <1>2, SubsetInduction
<1> QED
  BY <1>3

-----------------------------------------------------------------------------
(* The connected components *)

\* The folders that n ties lead to, and that one more tie leads to.
Further(T, X) == UNION {ds \in T : ds \cap X # {}}

Nearing(T, near) ==
  near = [n \in Hops |-> [d \in UNION T |->
            IF n = 0 THEN {d} ELSE UNION {ds \in T : ds \cap near[n - 1][d] # {}}]]

Near(T) == CHOOSE near : Nearing(T, near)

LEMMA NearIs ==
  ASSUME NEW T
  PROVE  \A d \in UNION T :
           /\ Near(T)[0][d] = {d}
           /\ \A n \in Hops : n < Cardinality(Dirs) =>
                                Near(T)[n + 1][d] = Further(T, Near(T)[n][d])
<1> DEFINE N == Cardinality(Dirs)
           base == [d \in UNION T |-> {d}]
           Next(f) == [d \in UNION T |-> Further(T, f[d])]
           S(m, near) == near = [n \in 0..m |-> IF n = 0 THEN base ELSE Next(near[n - 1])]
           P == {m \in 0..N : \E near : S(m, near)}
<1>a. \A d \in UNION T : base[d] = {d}
  OBVIOUS
<1>b. \A f : \A d \in UNION T : Next(f)[d] = Further(T, f[d])
  OBVIOUS
<1>c. ASSUME NEW n, NEW f
      PROVE  [d \in UNION T |-> IF n = 0 THEN {d}
                                ELSE UNION {ds \in T : ds \cap f[d] # {}}]
               = IF n = 0 THEN base ELSE Next(f)
  <2>1. CASE n = 0
    BY <2>1
  <2>2. CASE n # 0
    BY <2>2 DEF Further
  <2> QED
    BY <2>1, <2>2
<1> HIDE DEF base, Next
<1>1. N \in Nat
  BY HopsAre
<1>2. 0 \in P
  <2> DEFINE near == [n \in 0..0 |-> base]
  <2>1. \A n \in 0..0 : n = 0
    OBVIOUS
  <2>2. S(0, near)
    BY <2>1
  <2>3. 0 \in 0..N
    BY <1>1
  <2> HIDE DEF near
  <2> QED
    BY <2>2, <2>3
<1>3. ASSUME NEW m \in 0..N, m \in P, m < N PROVE m + 1 \in P
  <2>1. PICK old : S(m, old)
    BY <1>3
  <2> DEFINE near == [n \in 0..(m + 1) |-> IF n \in 0..m THEN old[n] ELSE Next(old[m])]
  <2>3. ASSUME NEW n \in 0..(m + 1) PROVE near[n] = IF n = 0 THEN base ELSE Next(near[n - 1])
    <3>1. CASE n = 0
      BY <2>1, <3>1, <1>1
    <3>2. CASE n # 0
      <4>1. n - 1 \in 0..m /\ near[n - 1] = old[n - 1]
        BY <3>2, <1>1
      <4>2. n \in 0..m => old[n] = Next(old[n - 1])
        BY <2>1, <3>2
      <4>3. n \notin 0..m => n - 1 = m
        BY <1>1
      <4> QED
        BY <3>2, <4>1, <4>2, <4>3
    <3> QED
      BY <3>1, <3>2
  <2>4. S(m + 1, near)
    <3>1. near = [n \in 0..(m + 1) |-> near[n]]
      OBVIOUS
    <3> HIDE DEF near
    <3> QED
      BY <2>3, <3>1
  <2>5. m + 1 \in 0..N
    BY <1>1, <1>3
  <2> HIDE DEF near
  <2> QED
    BY <2>4, <2>5
<1>4. N \in P
  <2> HIDE DEF P
  <2>1. \A m \in 0..N : m \in P
    BY <1>1, <1>2, <1>3, UpTo
  <2> QED
    BY <1>1, <2>1
<1>5. PICK near : near = [n \in Hops |-> IF n = 0 THEN base ELSE Next(near[n - 1])]
  BY <1>4 DEF Hops
<1>6. Nearing(T, near)
  <2>1. \A n \in Hops :
          [d \in UNION T |-> IF n = 0 THEN {d}
                             ELSE UNION {ds \in T : ds \cap near[n - 1][d] # {}}]
            = IF n = 0 THEN base ELSE Next(near[n - 1])
    BY <1>c
  <2> QED
    BY <1>5, <2>1 DEF Nearing
<1>7. Nearing(T, Near(T))
  BY <1>6 DEF Near
<1>8. \A n \in Hops : Near(T)[n] = IF n = 0 THEN base ELSE Next(Near(T)[n - 1])
  BY <1>7, <1>c DEF Nearing
<1>9. ASSUME NEW n \in Hops, n < N PROVE n + 1 \in Hops /\ n + 1 # 0 /\ (n + 1) - 1 = n
  BY <1>1, <1>9 DEF Hops
<1>10. 0 \in Hops
  BY <1>1 DEF Hops
<1> QED
  BY <1>8, <1>9, <1>10, <1>a, <1>b

\* As many ties as there are folders lead to all that ties ever lead to.
LEMMA NearCloses ==
  ASSUME NEW T \in SUBSET SUBSET Dirs, NEW d \in UNION T, NEW K,
         K = Near(T)[Cardinality(Dirs)][d]
  PROVE  /\ K \in SUBSET UNION T
         /\ d \in K
         /\ ClosedIn(T, K)
         /\ \A X : ClosedIn(T, X) /\ d \in X => K \subseteq X
<1> DEFINE N == Cardinality(Dirs)
           at(n) == Near(T)[n][d]
<1>1. N \in Nat /\ Hops = 0..N
  BY HopsAre DEF Hops
<1>2. at(0) = {d} /\ \A n \in 0..N : n < N => at(n + 1) = Further(T, at(n))
  BY <1>1, NearIs
<1> HIDE DEF at
<1>3. ASSUME NEW X \in SUBSET UNION T PROVE X \subseteq Further(T, X)
  BY DEF Further
<1>4. ASSUME NEW X PROVE Further(T, X) \subseteq UNION T
  BY DEF Further
<1>5. ASSUME NEW X \in SUBSET UNION T PROVE IsFiniteSet(X) /\ Cardinality(X) \in Nat
  <2>1. X \in SUBSET Dirs
    OBVIOUS
  <2> QED
    BY <2>1, FoldersAssumption, FS_Subset, FS_CardinalityType
<1> DEFINE P == {n \in 0..N : /\ at(n) \in SUBSET UNION T
                              /\ d \in at(n)
                              /\ Cardinality(at(n)) >= n + 1 \/ Further(T, at(n)) = at(n)}
<1>6. 0 \in P
  <2>1. Cardinality({d}) = 1
    BY FS_Singleton
  <2>2. Cardinality({d}) >= 0 + 1 /\ 0 \in 0..N
    BY <1>1, <2>1
  <2> QED
    BY <1>2, <2>2
<1>7. ASSUME NEW n \in 0..N, n \in P, n < N PROVE n + 1 \in P
  <2>1. PICK X \in SUBSET UNION T : X = at(n)
    BY <1>7
  <2>2. PICK Y \in SUBSET UNION T : Y = Further(T, X)
    BY <1>4
  <2>3. at(n + 1) = Y /\ n + 1 \in 0..N
    BY <1>1, <1>2, <1>7, <2>1, <2>2
  <2>4. X \subseteq Y
    BY <1>3, <2>2
  <2>5. d \in Y
    BY <1>7, <2>1, <2>4
  <2>6. Cardinality(Y) >= (n + 1) + 1 \/ Further(T, Y) = Y
    <3>1. CASE Y = X
      BY <2>2, <3>1
    <3>2. CASE Y # X
      <4>1. Cardinality(X) >= n + 1
        BY <1>7, <2>1, <2>2, <3>2
      <4>2. IsFiniteSet(Y) /\ Cardinality(Y) \in Nat /\ Cardinality(X) \in Nat
        BY <1>5
      <4>3. Cardinality(X) <= Cardinality(Y) /\ Cardinality(X) # Cardinality(Y)
        <5>1. Cardinality(X) <= Cardinality(Y)
          BY <2>4, <4>2, FS_Subset
        <5>2. Cardinality(X) = Cardinality(Y) => X = Y
          BY <2>4, <4>2, FS_Subset
        <5> QED
          BY <5>1, <5>2, <3>2
      <4> QED
        BY <4>1, <4>2, <4>3
    <3> QED
      BY <3>1, <3>2
  <2> QED
    BY <2>3, <2>5, <2>6
<1> DEFINE Q == {n \in 0..N : \A X : ClosedIn(T, X) /\ d \in X => at(n) \subseteq X}
<1>8. 0 \in Q
  BY <1>1, <1>2
<1>9. ASSUME NEW n \in 0..N, n \in Q, n < N PROVE n + 1 \in Q
  <2>1. ASSUME NEW X, ClosedIn(T, X), d \in X PROVE Further(T, at(n)) \subseteq X
    <3>1. at(n) \subseteq X
      BY <1>9, <2>1
    <3> QED
      BY <2>1, <3>1 DEF Further, ClosedIn
  <2>2. n + 1 \in 0..N
    BY <1>1, <1>9
  <2> QED
    BY <1>2, <1>9, <2>1, <2>2
<1>10. N \in P /\ N \in Q
  <2> HIDE DEF P, Q
  <2>1. \A n \in 0..N : n \in P
    BY <1>1, <1>6, <1>7, UpTo
  <2>2. \A n \in 0..N : n \in Q
    BY <1>1, <1>8, <1>9, UpTo
  <2> QED
    BY <1>1, <2>1, <2>2
<1>11. K = at(N)
  BY DEF at
<1>12. K \in SUBSET UNION T /\ d \in K /\ (Cardinality(K) >= N + 1 \/ Further(T, K) = K)
  BY <1>10, <1>11
<1>13. \A X : ClosedIn(T, X) /\ d \in X => K \subseteq X
  BY <1>10, <1>11
<1>14. ~(Cardinality(K) >= N + 1)
  <2>1. K \subseteq Dirs
    BY <1>12
  <2>2. Cardinality(K) <= N /\ Cardinality(K) \in Nat
    BY <1>5, <1>12, <2>1, FoldersAssumption, FS_Subset
  <2> QED
    BY <1>1, <2>2
<1>15. ClosedIn(T, K)
  BY <1>12, <1>14 DEF ClosedIn, Further
<1> QED
  BY <1>12, <1>13, <1>15

\* The roots of union-find divide the folders as their ties do.
LEMMA RootsAreComponents ==
  ASSUME NEW T \in SUBSET SUBSET Dirs, NEW u, Linked(T, u), NEW d \in UNION T
  PROVE  {e \in UNION T : FindRoot(u, e) = FindRoot(u, d)} = Near(T)[Cardinality(Dirs)][d]
<1>1. PICK K : K = Near(T)[Cardinality(Dirs)][d]
  OBVIOUS
<1>2. /\ K \in SUBSET UNION T /\ d \in K /\ ClosedIn(T, K)
      /\ \A X : ClosedIn(T, X) /\ d \in X => K \subseteq X
  BY <1>1, NearCloses
<1>3. PICK C : C = {e \in UNION T : FindRoot(u, e) = FindRoot(u, d)}
  OBVIOUS
<1>4. ClosedIn(T, C)
  BY <1>3 DEF ClosedIn, Linked
<1>5. K \subseteq C
  BY <1>2, <1>3, <1>4
<1>6. Respects(u, K)
  <2>1. K \in SUBSET Dirs
    BY <1>2
  <2> QED
    BY <1>2, <2>1 DEF Linked
<1>7. C \subseteq K
  BY <1>2, <1>3, <1>6 DEF Respects
<1> QED
  BY <1>1, <1>3, <1>5, <1>7

\* Clusters are the connected components of the folders that copies tie.
LEMMA ClustersAre ==
  ASSUME NEW r, \A p \in DOMAIN r.class : p[1] \in Dirs
  PROVE  Clusters(r) = {Near(Tied(r))[Cardinality(Dirs)][d] : d \in UNION Tied(r)}
<1>1. PICK T : T = Tied(r)
  OBVIOUS
<1>2. T \in SUBSET SUBSET Dirs
  <2>1. \A c : Members(r, c) \subseteq DOMAIN r.class
    BY DEF Members
  <2>2. \A g \in FileGroups(r) : g \subseteq DOMAIN r.class
    BY <2>1 DEF FileGroups
  <2>3. \A g \in FileGroups(r) : {p[1] : p \in g} \in SUBSET Dirs
    BY <2>2
  <2> QED
    BY <1>1, <2>3 DEF Tied
<1>3. \A ds \in T : Cardinality(ds) >= 2
  BY <1>1 DEF Tied
<1>4. {} \notin T
  BY <1>3, FS_EmptySet
<1>5. IsFiniteSet(T)
  BY <1>2, FoldersAssumption, FS_SUBSET, FS_Subset
<1> DEFINE base == [d \in Dirs |-> d]
           it == CHOOSE i : OverClasses(base, T, i)
           uf == FoldSet(LAMBDA ds, v : JoinClass(v, ds), [d \in Dirs |-> d], Tied(r))
           like(d) == {e \in UNION T : FindRoot(uf, e) = FindRoot(uf, d)}
           N == Cardinality(Dirs)
<1>6. uf = it[T]
  BY <1>1, OverClassesIsFold
<1>7. OverClasses(base, T, it)
  BY <1>5, FoldsSolved
<1>8. Clusters(r) = {k \in {like(d) : d \in UNION T} : Cardinality(k) >= 2}
  BY <1>1 DEF Clusters
<1> HIDE DEF it, uf
<1>9. Linked(T, uf)
  BY <1>2, <1>4, <1>6, <1>7, AllLinked
<1>10. ASSUME NEW d \in UNION T
       PROVE  like(d) = Near(T)[N][d] /\ Cardinality(like(d)) >= 2
  <2>1. like(d) = Near(T)[N][d]
    BY <1>2, <1>9, RootsAreComponents
  <2>2. PICK K : K = like(d)
    OBVIOUS
  <2>3. PICK ds \in T : d \in ds
    OBVIOUS
  <2>4. ds \subseteq K
    BY <1>9, <2>2, <2>3 DEF Linked
  <2>5. K \in SUBSET Dirs
    BY <1>2, <2>2
  <2>6. IsFiniteSet(K) /\ Cardinality(K) \in Nat
    BY <2>5, FoldersAssumption, FS_Subset, FS_CardinalityType
  <2>7. Cardinality(ds) <= Cardinality(K) /\ Cardinality(ds) \in Nat
    BY <2>4, <2>6, FS_Subset, FS_CardinalityType
  <2>8. Cardinality(K) >= 2
    BY <1>3, <2>6, <2>7
  <2> QED
    BY <2>1, <2>2, <2>8
<1> HIDE DEF like
<1>11. {k \in {like(d) : d \in UNION T} : Cardinality(k) >= 2} = {Near(T)[N][d] : d \in UNION T}
  BY <1>10
<1> QED
  BY <1>1, <1>8, <1>11

\* Equal values add up to as many times one of them.
LEMMA SumConstant ==
  ASSUME NEW f, NEW S, IsFiniteSet(S), NEW k \in Nat, \A x \in S : f[x] = k
  PROVE  SumOver(f, S) = k * Cardinality(S)
<1> DEFINE P == {T \in SUBSET S : SumOver(f, T) = k * Cardinality(T)}
<1>1. ASSUME NEW T \in SUBSET S, \A U \in SUBSET T : U # T => U \in P
      PROVE  T \in P
  <2>1. IsFiniteSet(T)
    BY FS_Subset
  <2>2. CASE T = {}
    <3>1. SumOver(f, T) = 0 /\ Cardinality(T) = 0
      BY <2>1, <2>2, SumPicked, FS_EmptySet
    <3> QED
      BY <3>1
  <2>3. CASE T # {}
    <3>1. PICK x \in T : x = Picked(T)
      BY <2>3, PickedIn
    <3>2. PICK U : U = T \ {x}
      OBVIOUS
    <3>3. U \in P /\ IsFiniteSet(U) /\ U \cup {x} = T /\ x \notin U
      BY <1>1, <2>1, <3>1, <3>2, FS_Subset
    <3>4. Cardinality(T) = Cardinality(U) + 1 /\ Cardinality(U) \in Nat
      BY <3>3, FS_AddElement, FS_CardinalityType
    <3>5. SumOver(f, T) = k + SumOver(f, U)
      BY <2>1, <2>3, <3>1, <3>2, SumPicked
    <3>6. \A n \in Nat : k * (n + 1) = k + k * n
      OBVIOUS
    <3>7. SumOver(f, U) = k * Cardinality(U)
      BY <3>3
    <3>8. SumOver(f, T) = k * Cardinality(T)
      BY <3>4, <3>5, <3>6, <3>7
    <3> QED
      BY <3>8
  <2> QED
    BY <2>2, <2>3
<1> HIDE DEF P
<1>2. S \in P
  BY <1>1, SubsetInduction
<1> QED
  BY <1>2 DEF P

\* The sum over two sets that have nothing in common.
LEMMA SumSplit ==
  ASSUME NEW f, NEW S, IsFiniteSet(S), NEW T, IsFiniteSet(T), S \cap T = {},
         \A x \in S \cup T : f[x] \in Nat
  PROVE  SumOver(f, S \cup T) = SumOver(f, S) + SumOver(f, T)
<1> DEFINE P == {U \in SUBSET T : SumOver(f, S \cup U) = SumOver(f, S) + SumOver(f, U)}
<1>1. ASSUME NEW U \in SUBSET T, \A V \in SUBSET U : V # U => V \in P
      PROVE  U \in P
  <2>1. IsFiniteSet(U) /\ SumOver(f, S) \in Nat
    BY FS_Subset, SumIsNat
  <2>2. CASE U = {}
    <3>1. SumOver(f, U) = 0 /\ S \cup U = S
      BY <2>1, <2>2, SumPicked
    <3> QED
      BY <2>1, <3>1
  <2>3. CASE U # {}
    <3>1. PICK x \in U : TRUE
      BY <2>3
    <3>2. PICK V : V = U \ {x}
      OBVIOUS
    <3>0. x \in T /\ x \notin S
      BY <3>1
    <3>a. (S \cup U) \ {x} = S \cup V /\ x \in S \cup U
      BY <3>0, <3>1, <3>2
    <3>b. V \in P
      BY <1>1, <3>1, <3>2
    <3>c. IsFiniteSet(V)
      BY <2>1, <3>2, FS_Subset
    <3>3. V \in P /\ IsFiniteSet(V) /\ (S \cup U) \ {x} = S \cup V /\ x \in S \cup U
      BY <3>a, <3>b, <3>c
    <3>4. IsFiniteSet(S \cup U) /\ \A y \in S \cup U : f[y] \in Nat
      BY <2>1, FS_Union
    <3>5. SumOver(f, S \cup U) = f[x] + SumOver(f, S \cup V)
      BY <3>3, <3>4, SumWithout
    <3>6. \A y \in U : f[y] \in Nat
      OBVIOUS
    <3>7. SumOver(f, U) = f[x] + SumOver(f, V)
      BY <2>1, <3>1, <3>2, <3>6, SumWithout
    <3>8. SumOver(f, V) \in Nat
      BY <3>2, <3>3, <3>6, SumIsNat
    <3>9. SumOver(f, S \cup V) = SumOver(f, S) + SumOver(f, V) /\ f[x] \in Nat
      BY <3>1, <3>3
    <3>10. SumOver(f, S \cup U) = SumOver(f, S) + SumOver(f, U)
      BY <2>1, <3>5, <3>7, <3>8, <3>9
    <3> QED
      BY <3>10
  <2> QED
    BY <2>2, <2>3
<1> HIDE DEF P
<1>2. T \in P
  BY <1>1, SubsetInduction
<1> QED
  BY <1>2 DEF P

\* A sum of naturals that is not zero has a term that is not.
LEMMA SumPositive ==
  ASSUME NEW f, NEW S, IsFiniteSet(S), \A x \in S : f[x] \in Nat, SumOver(f, S) > 0
  PROVE  \E x \in S : f[x] > 0
<1> SUFFICES ASSUME \A x \in S : ~(f[x] > 0) PROVE FALSE
  OBVIOUS
<1>1. \A x \in S : f[x] = 0
  OBVIOUS
<1>2. SumOver(f, S) = 0 * Cardinality(S)
  BY <1>1, SumConstant
<1>3. Cardinality(S) \in Nat
  BY FS_CardinalityType
<1> QED
  BY <1>2, <1>3

\* What is counted of classes of files is not more than the files themselves.
LEMMA SumByClass ==
  ASSUME NEW F, IsFiniteSet(F), NEW size, NEW class, NEW C, IsFiniteSet(C), NEW g,
         \A p \in F : size[p] \in Nat,
         \A c \in C : /\ c.size \in Nat /\ g[c] \in Nat
                      /\ g[c] <= c.size * Cardinality({p \in F : class[p] = c})
                      /\ \A p \in F : class[p] = c => size[p] = c.size
  PROVE  SumOver(g, C) <= SumOver(size, F)
<1> DEFINE Of(T) == {p \in F : class[p] \in T}
           P == {T \in SUBSET C : SumOver(g, T) <= SumOver(size, Of(T))}
<1>0. ASSUME NEW T PROVE IsFiniteSet(Of(T)) /\ SumOver(size, Of(T)) \in Nat
  <2>1. Of(T) \in SUBSET F
    OBVIOUS
  <2>2. IsFiniteSet(Of(T))
    BY <2>1, FS_Subset
  <2> QED
    BY <2>1, <2>2, SumIsNat
<1>1. ASSUME NEW T \in SUBSET C, \A U \in SUBSET T : U # T => U \in P
      PROVE  T \in P
  <2>1. IsFiniteSet(T)
    BY FS_Subset
  <2>2. CASE T = {}
    <3>1. SumOver(g, T) = 0
      BY <2>1, <2>2, SumPicked
    <3>2. SumOver(size, Of(T)) \in Nat
      BY <1>0
    <3> HIDE DEF Of
    <3> QED
      BY <3>1, <3>2
  <2>3. CASE T # {}
    <3>1. PICK c \in T : c = Picked(T)
      BY <2>3, PickedIn
    <3>2. PICK U : U = T \ {c}
      OBVIOUS
    <3>3. U \in P /\ IsFiniteSet(U) /\ U \in SUBSET C
      BY <1>1, <2>1, <3>1, <3>2, FS_Subset
    <3>4. SumOver(g, T) = g[c] + SumOver(g, U)
      BY <2>1, <2>3, <3>1, <3>2, SumPicked
    <3>5. PICK X : X = {p \in F : class[p] = c}
      OBVIOUS
    <3>6. X \cup Of(U) = Of(T) /\ X \cap Of(U) = {} /\ X \in SUBSET F
      BY <3>1, <3>2, <3>5
    <3>7. IsFiniteSet(X)
      BY <3>6, FS_Subset
    <3>8. SumOver(size, Of(T)) = SumOver(size, X) + SumOver(size, Of(U))
      <4>1. \A p \in X \cup Of(U) : size[p] \in Nat
        BY <3>6
      <4> HIDE DEF Of
      <4> QED
        BY <1>0, <3>6, <3>7, <4>1, SumSplit
    <3>9. c.size \in Nat /\ g[c] \in Nat /\ g[c] <= c.size * Cardinality(X)
      BY <3>1, <3>5
    <3>10. SumOver(size, X) = c.size * Cardinality(X)
      <4>1. \A p \in X : size[p] = c.size
        BY <3>1, <3>5
      <4> QED
        BY <3>7, <3>9, <4>1, SumConstant
    <3>11. SumOver(size, X) \in Nat
      BY <3>6, <3>7, SumIsNat
    <3>12. SumOver(g, U) \in Nat
      BY <3>3, SumIsNat
    <3>13. SumOver(g, U) <= SumOver(size, Of(U)) /\ SumOver(size, Of(U)) \in Nat
      BY <1>0, <3>3
    <3> HIDE DEF Of
    <3>14. SumOver(g, T) <= SumOver(size, Of(T))
      BY <3>4, <3>8, <3>9, <3>10, <3>11, <3>12, <3>13
    <3> QED
      BY <3>14
  <2> QED
    BY <2>2, <2>3
<1>2. C \in P
  <2> HIDE DEF P
  <2> QED
    BY <1>1, SubsetInduction
<1>3. PICK X : X = Of(C)
  OBVIOUS
<1>4. X \in SUBSET F /\ F = X \cup (F \ X)
  BY <1>3
<1>5. IsFiniteSet(X) /\ IsFiniteSet(F \ X)
  BY <1>4, FS_Subset, FS_Difference
<1>6. SumOver(size, X \cup (F \ X)) = SumOver(size, X) + SumOver(size, F \ X)
  <2>1. X \cap (F \ X) = {} /\ \A p \in X \cup (F \ X) : size[p] \in Nat
    BY <1>4
  <2> QED
    BY <1>5, <2>1, SumSplit
<1>7. SumOver(size, X) \in Nat /\ SumOver(size, F \ X) \in Nat
  BY <1>4, <1>5, SumIsNat
<1>8. SumOver(g, C) <= SumOver(size, X) /\ SumOver(g, C) \in Nat
  BY <1>2, <1>3, SumIsNat
<1>9. SumOver(size, F) = SumOver(size, X) + SumOver(size, F \ X)
  BY <1>4, <1>6
<1> QED
  BY <1>7, <1>8, <1>9

\* A percentage of two sizes that share no more than each has.
LEMMA PercentWithin ==
  ASSUME NEW s \in Nat, NEW m \in Nat, NEW n \in Nat, s > 0, s <= m, s <= n
  PROVE  (200 * s) \div (m + n) \in 0..100
<1>1. PICK d : d = m + n
  OBVIOUS
<1>2. PICK x : x = 200 * s
  OBVIOUS
<1>3. d \in Nat /\ d > 0 /\ x \in Nat /\ x <= 100 * d
  BY <1>1, <1>2
<1>4. PICK q : q = x \div d
  OBVIOUS
<1>5. q \in Int /\ d * q <= x /\ x < d * (q + 1)
  BY <1>3, <1>4
<1>6. ~(q <= -1)
  <2> SUFFICES ASSUME q <= -1 PROVE FALSE
    OBVIOUS
  <2>1. d * (q + 1) <= 0
    BY <1>3, <1>5
  <2> QED
    BY <1>3, <1>5, <2>1
<1>7. ~(q >= 101)
  <2> SUFFICES ASSUME q >= 101 PROVE FALSE
    OBVIOUS
  <2>1. d * q >= d * 101
    BY <1>3, <1>5
  <2> QED
    BY <1>3, <1>5, <2>1
<1>8. q \in 0..100
  BY <1>5, <1>6, <1>7
<1> QED
  BY <1>1, <1>2, <1>4, <1>8

LEMMA SumFunctionIs ==
  ASSUME NEW f
  PROVE  SumFunction(f) = SumOver(f, DOMAIN f)
BY DEF SumFunction, SumFunctionOnSet, FoldFunctionOnSet, SumOver, MapThenSumSet

LEMMA TimesMore ==
  ASSUME NEW k \in Nat, NEW m \in Nat, NEW n \in Nat, m <= n
  PROVE  k * m \in Nat /\ k * m <= k * n
<1>1. PICK j \in Nat : n = m + j
  <2>1. n - m \in Nat /\ n = m + (n - m)
    OBVIOUS
  <2> QED
    BY <2>1
<1>2. k * n = k * m + k * j
  BY <1>1
<1>3. k * j \in Nat /\ k * m \in Nat
  OBVIOUS
<1> QED
  BY <1>2, <1>3

\* Every file has a size and a class, and the class of others the same size.
Counted(r) ==
  /\ IsFiniteSet(DOMAIN r.meta) /\ DOMAIN r.class = DOMAIN r.meta
  /\ \A p \in DOMAIN r.meta :
       r.meta[p].size \in Nat /\ (Shared(r.class[p]) => r.class[p].size = r.meta[p].size)

Least(r, a, b) ==
  [c \in Classes(r) |-> c.size * (IF Copies(r, a, c) < Copies(r, b, c)
                                  THEN Copies(r, a, c) ELSE Copies(r, b, c))]

Sizes(r, d) == [p \in FilesUnder(r, d) |-> r.meta[p].size]

LEMMA SharedAtMost ==
  ASSUME NEW r, Counted(r), NEW a, NEW b
  PROVE  /\ IsFiniteSet(Classes(r)) /\ \A c \in Classes(r) : Least(r, a, b)[c] \in Nat
         /\ SizeSum(r, FilesUnder(r, a)) \in Nat /\ SizeSum(r, FilesUnder(r, b)) \in Nat
         /\ SharedBytes(r, a, b) = SumOver(Least(r, a, b), Classes(r))
         /\ SharedBytes(r, a, b) <= SizeSum(r, FilesUnder(r, a))
         /\ SharedBytes(r, a, b) <= SizeSum(r, FilesUnder(r, b))
<1> DEFINE C == Classes(r)
           g == Least(r, a, b)
           F(d) == FilesUnder(r, d)
           size(d) == Sizes(r, d)
<1>1. IsFiniteSet(C)
  <2>1. PICK M : M = DOMAIN r.meta
    OBVIOUS
  <2>2. IsFiniteSet({r.class[p] : p \in M})
    BY <2>1, ImageFinite DEF Counted
  <2>3. C \in SUBSET {r.class[p] : p \in M}
    BY <2>1 DEF Classes, Counted
  <2> QED
    BY <2>2, <2>3, FS_Subset
<1>2. ASSUME NEW d
      PROVE  /\ F(d) \in SUBSET DOMAIN r.meta /\ IsFiniteSet(F(d))
             /\ SizeSum(r, F(d)) = SumOver(size(d), F(d)) /\ SumOver(size(d), F(d)) \in Nat
             /\ \A p \in F(d) : size(d)[p] \in Nat
  <2>1. F(d) \in SUBSET DOMAIN r.meta
    BY DEF FilesUnder
  <2>2. IsFiniteSet(F(d))
    BY <2>1, FS_Subset DEF Counted
  <2>3. DOMAIN size(d) = F(d) /\ \A p \in F(d) : size(d)[p] \in Nat
    BY <2>1 DEF Sizes, Counted
  <2>4. SizeSum(r, F(d)) = SumFunction(size(d))
    BY DEF SizeSum, Sizes
  <2>5. SumOver(size(d), F(d)) \in Nat
    <3> HIDE DEF F, size
    <3> QED
      BY <2>2, <2>3, SumIsNat
  <2> QED
    BY <2>1, <2>2, <2>3, <2>4, <2>5, SumFunctionIs
<1>3. ASSUME NEW c \in C, NEW d
      PROVE  /\ Copies(r, d, c) = Cardinality({p \in F(d) : r.class[p] = c})
             /\ Copies(r, d, c) \in Nat
             /\ \A p \in F(d) : r.class[p] = c => size(d)[p] = c.size
  <2>1. F(d) \cap Members(r, c) = {p \in F(d) : r.class[p] = c}
    BY DEF FilesUnder, Members, Counted
  <2>2. {p \in F(d) : r.class[p] = c} \in SUBSET F(d)
    OBVIOUS
  <2>3. IsFiniteSet({p \in F(d) : r.class[p] = c})
    BY <1>2, <2>2, FS_Subset
  <2>4. Cardinality({p \in F(d) : r.class[p] = c}) \in Nat
    BY <2>3, FS_CardinalityType
  <2>5. ASSUME NEW p \in F(d), r.class[p] = c PROVE size(d)[p] = c.size
    <3>1. Shared(c) /\ p \in DOMAIN r.meta
      BY DEF Classes, FilesUnder
    <3> QED
      BY <2>5, <3>1 DEF Sizes, Counted
  <2> QED
    BY <2>1, <2>4, <2>5 DEF Copies
<1>4. ASSUME NEW c \in C PROVE c.size \in Nat
  <2>1. PICK p \in DOMAIN r.class : c = r.class[p] /\ Shared(c)
    BY DEF Classes
  <2> QED
    BY <2>1 DEF Counted
<1>5. ASSUME NEW c \in C
      PROVE  /\ g[c] \in Nat
             /\ g[c] <= c.size * Copies(r, a, c) /\ g[c] <= c.size * Copies(r, b, c)
  <2>1. PICK m : m = IF Copies(r, a, c) < Copies(r, b, c)
                     THEN Copies(r, a, c) ELSE Copies(r, b, c)
    OBVIOUS
  <2>0. Copies(r, a, c) \in Nat /\ Copies(r, b, c) \in Nat
    BY <1>3
  <2>2. m \in Nat /\ m <= Copies(r, a, c) /\ m <= Copies(r, b, c)
    BY <2>0, <2>1
  <2>3. g[c] = c.size * m
    BY <2>1 DEF Least
  <2> QED
    BY <1>3, <1>4, <2>2, <2>3, TimesMore
<1>6. SharedBytes(r, a, b) = SumOver(g, C)
  <2>1. SharedBytes(r, a, b) = SumFunction(g) /\ DOMAIN g = C
    BY DEF SharedBytes, Least
  <2> QED
    BY <2>1, SumFunctionIs
<1>7. ASSUME NEW d \in {a, b} PROVE SumOver(g, C) <= SumOver(size(d), F(d))
  <2> DEFINE class == r.class
  <2>1. \A c \in C : /\ c.size \in Nat /\ g[c] \in Nat
                     /\ g[c] <= c.size * Cardinality({p \in F(d) : class[p] = c})
                     /\ \A p \in F(d) : class[p] = c => size(d)[p] = c.size
    BY <1>3, <1>4, <1>5
  <2>2. IsFiniteSet(F(d)) /\ \A p \in F(d) : size(d)[p] \in Nat
    BY <1>2
  <2> HIDE DEF F, C, g, size, class
  <2> QED
    BY <1>1, <2>1, <2>2, SumByClass
<1> QED
  BY <1>1, <1>2, <1>5, <1>6, <1>7

\* A pair that shares something has a class in both, and no more than all of it.
LEMMA PairShares ==
  ASSUME NEW r, Counted(r), NEW a, NEW b, SharedBytes(r, a, b) > 0
  PROVE  /\ Percent(r, a, b) \in 0..100
         /\ \E p \in FilesUnder(r, a) : \E q \in FilesUnder(r, b) : r.class[p] = r.class[q]
<1> DEFINE C == Classes(r)
           g == Least(r, a, b)
<1>1. /\ IsFiniteSet(C) /\ \A c \in C : g[c] \in Nat
      /\ SizeSum(r, FilesUnder(r, a)) \in Nat /\ SizeSum(r, FilesUnder(r, b)) \in Nat
      /\ SharedBytes(r, a, b) = SumOver(g, C)
      /\ SharedBytes(r, a, b) <= SizeSum(r, FilesUnder(r, a))
      /\ SharedBytes(r, a, b) <= SizeSum(r, FilesUnder(r, b))
  BY SharedAtMost
<1>2. SharedBytes(r, a, b) \in Nat
  <2> HIDE DEF C, g
  <2> QED
    BY <1>1, SumIsNat
<1>3. Percent(r, a, b) \in 0..100
  BY <1>1, <1>2, PercentWithin DEF Percent
<1>4. PICK c \in C : g[c] > 0
  <2> HIDE DEF C, g
  <2> QED
    BY <1>1, SumPositive
<1>5. ASSUME NEW d \in {a, b} PROVE \E p \in FilesUnder(r, d) : r.class[p] = c
  <2> SUFFICES ASSUME FilesUnder(r, d) \cap Members(r, c) = {} PROVE FALSE
    BY DEF Members
  <2>1. Copies(r, d, c) = 0
    BY FS_EmptySet DEF Copies
  <2>2. c.size \in Nat
    <3>1. PICK p \in DOMAIN r.class : c = r.class[p] /\ Shared(c)
      BY DEF Classes
    <3> QED
      BY <3>1 DEF Counted
  <2>3. Copies(r, a, c) \in Nat /\ Copies(r, b, c) \in Nat
    <3>1. ASSUME NEW e PROVE FilesUnder(r, e) \cap Members(r, c) \in SUBSET DOMAIN r.meta
      BY DEF FilesUnder
    <3>2. ASSUME NEW e PROVE IsFiniteSet(FilesUnder(r, e) \cap Members(r, c))
      BY <3>1, FS_Subset DEF Counted
    <3> QED
      BY <3>2, FS_CardinalityType DEF Copies
  <2>4. g[c] = c.size * 0
    BY <2>1, <2>3 DEF Least
  <2> QED
    BY <1>4, <2>2, <2>4
<1> QED
  BY <1>3, <1>5

-----------------------------------------------------------------------------
(* Relative paths *)

InTop(top) == {d \in Dirs : Inside(d, top)}

Relative(top, up) ==
  up = [d \in InTop(top) |->
          IF d = top THEN <<>> ELSE Append(up[ParentOf[d]], DirName[d])]

RelativeTo(top) == CHOOSE up : Relative(top, up)

LEMMA RelPathIs ==
  ASSUME NEW p, NEW top
  PROVE  RelPath(p, top) = Append(RelativeTo(top)[p[1]], p[2])
BY DEF RelPath, RelativeTo, Relative, InTop

LEMMA AppendIs ==
  ASSUME NEW s \in Seq(Nat), NEW x \in Nat, NEW u, u = Append(s, x)
  PROVE  Len(u) = Len(s) + 1 /\ u[Len(s) + 1] = x /\ \A i \in 1..Len(s) : u[i] = s[i]
BY AppendProperties

LEMMA AppendSame ==
  ASSUME NEW s \in Seq(Nat), NEW t \in Seq(Nat), NEW x \in Nat, NEW y \in Nat,
         NEW u, u = Append(s, x), NEW v, v = Append(t, y), u = v
  PROVE  s = t /\ x = y
<1>1. Len(u) = Len(s) + 1 /\ u[Len(s) + 1] = x /\ \A i \in 1..Len(s) : u[i] = s[i]
  <2>1. PICK w : w = Append(s, x)
    OBVIOUS
  <2>2. Len(w) = Len(s) + 1 /\ w[Len(s) + 1] = x /\ \A i \in 1..Len(s) : w[i] = s[i]
    BY <2>1, AppendIs
  <2> QED
    BY <2>1, <2>2
<1>2. Len(v) = Len(t) + 1 /\ v[Len(t) + 1] = y /\ \A i \in 1..Len(t) : v[i] = t[i]
  BY AppendIs
<1>3. Len(s) \in Nat /\ Len(t) \in Nat
  OBVIOUS
<1>4. Len(s) = Len(t)
  BY <1>1, <1>2, <1>3
<1>5. \A i \in 1..Len(s) : s[i] = t[i]
  BY <1>1, <1>2, <1>4
<1> QED
  BY <1>1, <1>2, <1>4, <1>5, SeqEqual

LEMMA InTopParent ==
  ASSUME NEW top, NEW d \in InTop(top), d # top
  PROVE  ParentOf[d] \in InTop(top) /\ ParentOf[d] # d
BY InsideStrictly, NotInParent, AncestorsIn DEF InTop, Inside

LEMMA RelativeToIs ==
  ASSUME NEW top
  PROVE  Relative(top, RelativeTo(top))
<1> DEFINE D == InTop(top)
           Step(f, d) == IF d = top THEN <<>> ELSE Append(f[ParentOf[d]], DirName[d])
           Closed(S) == \A d \in S : d # top => ParentOf[d] \in S
           Solves(f, S) == DOMAIN f = D /\ \A d \in S : f[d] = Step(f, d)
           P == {S \in SUBSET D : Closed(S) => \E f : Solves(f, S)}
<1>1. D \in SUBSET Dirs /\ IsFiniteSet(D)
  <2>1. D \in SUBSET Dirs
    BY DEF InTop
  <2> QED
    BY <2>1, FoldersAssumption, FS_Subset
<1>2. \A d \in D : d # top => ParentOf[d] \in D /\ ParentOf[d] # d
  BY InTopParent
<1> HIDE DEF D
<1>3. ASSUME NEW S \in SUBSET D, \A T \in SUBSET S : T # S => T \in P PROVE S \in P
  <2> SUFFICES ASSUME Closed(S) PROVE \E f : Solves(f, S)
    OBVIOUS
  <2>1. CASE S = {}
    <3>1. Solves([x \in D |-> 0], S)
      BY <2>1
    <3> QED
      BY <3>1
  <2>2. CASE S # {}
    <3>1. S \in SUBSET Dirs /\ IsFiniteSet(S)
      BY <1>1, FS_Subset
    <3>2. PICK d \in S : \A k \in S : ParentOf[k] # d
      BY <2>2, <3>1, HasLeaf
    <3>3. PICK T : T = S \ {d}
      OBVIOUS
    <3>4. T \in SUBSET S /\ T # S /\ Closed(T) /\ S = T \cup {d}
      BY <3>2, <3>3
    <3>5. PICK f : Solves(f, T)
      BY <1>3, <3>4
    <3> DEFINE g == [x \in D |-> IF x = d THEN Step(f, d) ELSE f[x]]
    <3>6. ASSUME NEW e \in S PROVE Step(f, e) = Step(g, e)
      <4>1. e # top => ParentOf[e] \in D /\ ParentOf[e] # d
        BY <1>2, <3>2
      <4>2. e # top => f[ParentOf[e]] = g[ParentOf[e]]
        BY <4>1
      <4> HIDE DEF g
      <4> QED
        BY <4>2
    <3>7. DOMAIN g = D /\ g[d] = Step(f, d) /\ \A e \in T : g[e] = f[e]
      BY <3>3
    <3> HIDE DEF g, Step
    <3>8. \A e \in S : g[e] = Step(g, e)
      BY <3>4, <3>5, <3>6, <3>7
    <3> QED
      BY <3>7, <3>8
  <2> QED
    BY <2>1, <2>2
<1>4. D \in P
  <2> HIDE DEF P
  <2> QED
    BY <1>1, <1>3, SubsetInduction
<1>5. Closed(D)
  BY <1>2
<1>6. PICK f : Solves(f, D)
  BY <1>4, <1>5
<1>7. PICK h : h = [d \in D |-> f[d]]
  OBVIOUS
<1>8. ASSUME NEW d \in D PROVE h[d] = Step(h, d)
  <2>1. d # top => h[ParentOf[d]] = f[ParentOf[d]]
    BY <1>2, <1>7
  <2>2. h[d] = Step(f, d)
    BY <1>6, <1>7
  <2> QED
    BY <2>1, <2>2
<1>9. h = [d \in D |-> Step(h, d)]
  BY <1>7, <1>8
<1>10. Relative(top, h)
  BY <1>9 DEF Relative, D
<1> QED
  BY <1>10 DEF RelativeTo

LEMMA RelativeIs ==
  ASSUME NEW top, NEW d \in InTop(top)
  PROVE  RelativeTo(top)[d] = IF d = top THEN <<>>
                              ELSE Append(RelativeTo(top)[ParentOf[d]], DirName[d])
BY RelativeToIs DEF Relative

\* A relative path is a sequence of names, and tells the folder.
LEMMA RelativeTells ==
  ASSUME NEW top
  PROVE  \A d \in InTop(top) :
           /\ RelativeTo(top)[d] \in Seq(Nat)
           /\ \A e \in InTop(top) : RelativeTo(top)[d] = RelativeTo(top)[e] => d = e
<1> DEFINE rel == RelativeTo(top)
           Q == {d \in Dirs : d \in InTop(top) => rel[d] \in Seq(Nat)}
           P == {d \in Dirs : d \in InTop(top) =>
                                \A e \in InTop(top) : rel[d] = rel[e] => d = e}
<1>0. \A d \in InTop(top) : d \in Dirs /\ DirName[d] \in Nat
  BY TreeAssumption DEF InTop
<1>a. ASSUME NEW d \in InTop(top)
      PROVE  /\ d = top => rel[d] = <<>>
             /\ d # top => /\ rel[d] = Append(rel[ParentOf[d]], DirName[d])
                           /\ ParentOf[d] \in InTop(top) /\ ParentOf[d] # Above
  <2>1. rel[d] = IF d = top THEN <<>> ELSE Append(rel[ParentOf[d]], DirName[d])
    BY RelativeIs
  <2>2. d # top => ParentOf[d] \in InTop(top)
    BY InTopParent
  <2>3. Above \notin InTop(top)
    BY TreeAssumption DEF InTop
  <2> QED
    BY <2>1, <2>2, <2>3
<1>b. <<>> \in Seq(Nat)
  OBVIOUS
<1> HIDE DEF rel
<1>1. ASSUME NEW d \in Dirs, ParentOf[d] # Above => ParentOf[d] \in Q PROVE d \in Q
  <2> SUFFICES ASSUME d \in InTop(top) PROVE rel[d] \in Seq(Nat)
    OBVIOUS
  <2>1. CASE d = top
    BY <1>a, <1>b, <2>1
  <2>2. CASE d # top
    <3>1. rel[ParentOf[d]] \in Seq(Nat) /\ rel[d] = Append(rel[ParentOf[d]], DirName[d])
      BY <1>a, <1>1, <2>2
    <3>2. PICK s \in Seq(Nat) : s = rel[ParentOf[d]]
      BY <3>1
    <3>3. PICK x \in Nat : x = DirName[d]
      BY <1>0
    <3>4. Append(s, x) \in Seq(Nat)
      BY AppendProperties
    <3> QED
      BY <3>1, <3>2, <3>3, <3>4
  <2> QED
    BY <2>1, <2>2
<1>2. Dirs \subseteq Q
  <2> HIDE DEF Q
  <2> QED
    BY <1>1, DownTheTree
<1>3. \A d \in InTop(top) : rel[d] \in Seq(Nat)
  BY <1>0, <1>2
<1>4. ASSUME NEW d \in InTop(top), d # top PROVE rel[d] # <<>>
  <2>1. rel[ParentOf[d]] \in Seq(Nat) /\ rel[d] = Append(rel[ParentOf[d]], DirName[d])
    BY <1>a, <1>3, <1>4
  <2>2. PICK s \in Seq(Nat) : s = rel[ParentOf[d]]
    BY <2>1
  <2>3. PICK x \in Nat : x = DirName[d]
    BY <1>0
  <2>4. PICK u : u = rel[d]
    OBVIOUS
  <2>5. u = Append(s, x)
    BY <2>1, <2>2, <2>3, <2>4
  <2>6. u # <<>>
    BY <2>5, AppendProperties
  <2> QED
    BY <2>4, <2>6
<1>5. ASSUME NEW d \in Dirs, ParentOf[d] # Above => ParentOf[d] \in P PROVE d \in P
  <2> SUFFICES ASSUME d \in InTop(top), NEW e \in InTop(top), rel[d] = rel[e] PROVE d = e
    OBVIOUS
  <2>1. CASE d = top \/ e = top
    BY <1>4, <1>a, <2>1
  <2>2. CASE d # top /\ e # top
    <3>1. /\ rel[d] = Append(rel[ParentOf[d]], DirName[d])
          /\ rel[e] = Append(rel[ParentOf[e]], DirName[e])
          /\ ParentOf[d] \in InTop(top) /\ ParentOf[e] \in InTop(top) /\ ParentOf[d] \in P
      BY <1>a, <1>5, <2>2
    <3>2. rel[ParentOf[d]] \in Seq(Nat) /\ rel[ParentOf[e]] \in Seq(Nat)
      BY <1>3, <3>1
    <3>3. rel[ParentOf[d]] = rel[ParentOf[e]] /\ DirName[d] = DirName[e]
      <4>1. PICK s \in Seq(Nat), t \in Seq(Nat) : s = rel[ParentOf[d]] /\ t = rel[ParentOf[e]]
        BY <3>2
      <4>2. PICK x \in Nat, y \in Nat : x = DirName[d] /\ y = DirName[e]
        BY <1>0
      <4>3. PICK u : u = rel[d]
        OBVIOUS
      <4>4. PICK v : v = rel[e]
        OBVIOUS
      <4>5. u = Append(s, x) /\ v = Append(t, y) /\ u = v
        BY <3>1, <4>1, <4>2, <4>3, <4>4
      <4>6. s = t /\ x = y
        BY <4>5, AppendSame
      <4> QED
        BY <4>1, <4>2, <4>6
    <3>4. ParentOf[d] = ParentOf[e]
      BY <3>1, <3>3
    <3> QED
      BY <1>0, <3>3, <3>4, TreeAssumption
  <2> QED
    BY <2>1, <2>2
<1>6. Dirs \subseteq P
  <2> HIDE DEF P
  <2> QED
    BY <1>5, DownTheTree
<1>7. \A d \in InTop(top) : \A e \in InTop(top) : rel[d] = rel[e] => d = e
  BY <1>0, <1>6
<1> QED
  BY <1>3, <1>7 DEF rel

\* The relative path tells the file.
LEMMA RelPathTells ==
  ASSUME NEW r, DOMAIN r.meta \subseteq Dirs \X Nat, NEW top
  PROVE  \A p, q \in FilesUnder(r, top) : RelPath(p, top) = RelPath(q, top) => p = q
<1> SUFFICES ASSUME NEW p \in FilesUnder(r, top), NEW q \in FilesUnder(r, top),
                    RelPath(p, top) = RelPath(q, top)
             PROVE  p = q
  OBVIOUS
<1>1. /\ p = <<p[1], p[2]>> /\ q = <<q[1], q[2]>> /\ p[2] \in Nat /\ q[2] \in Nat
      /\ p[1] \in InTop(top) /\ q[1] \in InTop(top)
  BY DEF FilesUnder, InTop, Inside
<1>2. PICK s \in Seq(Nat), t \in Seq(Nat) :
        s = RelativeTo(top)[p[1]] /\ t = RelativeTo(top)[q[1]]
  BY <1>1, RelativeTells
<1>3. PICK x \in Nat, y \in Nat : x = p[2] /\ y = q[2]
  BY <1>1
<1>4. RelativeTo(top)[p[1]] = RelativeTo(top)[q[1]] /\ p[2] = q[2]
  <2>1. PICK u : u = RelPath(p, top)
    OBVIOUS
  <2>2. PICK v : v = RelPath(q, top)
    OBVIOUS
  <2>3. u = Append(s, x) /\ v = Append(t, y) /\ u = v
    BY <1>2, <1>3, <2>1, <2>2, RelPathIs
  <2>4. s = t /\ x = y
    BY <2>3, AppendSame
  <2> QED
    BY <1>2, <1>3, <2>4
<1>5. p[1] = q[1]
  BY <1>1, <1>4, RelativeTells
<1> QED
  BY <1>1, <1>4, <1>5

-----------------------------------------------------------------------------
(* The comparison of two folders *)

RelsOf(r, d) == {RelPath(p, d) : p \in FilesUnder(r, d)}

FilesAt(r, d, rel) == {p \in FilesUnder(r, d) : RelPath(p, d) = rel}

FileAt(r, d, rel) == CHOOSE p \in FilesUnder(r, d) : RelPath(p, d) = rel

ClassesIn(r, d) == {r.class[p] : p \in FilesUnder(r, d)}

StatusOf(r, a, b, rel) ==
  IF rel \in RelsOf(r, a) \cap RelsOf(r, b)
  THEN IF r.class[FileAt(r, a, rel)] = r.class[FileAt(r, b, rel)]
       THEN "identical" ELSE "different_content"
  ELSE IF rel \in RelsOf(r, a)
       THEN IF r.class[FileAt(r, a, rel)] \in ClassesIn(r, b)
            THEN "shared_elsewhere" ELSE "only_a"
       ELSE IF r.class[FileAt(r, b, rel)] \in ClassesIn(r, a)
            THEN "shared_elsewhere" ELSE "only_b"

LEMMA ComparisonIs ==
  ASSUME NEW r, NEW a, NEW b
  PROVE  Comparison(r, a, b) =
           [rel \in RelsOf(r, a) \cup RelsOf(r, b) |-> StatusOf(r, a, b, rel)]
BY DEF Comparison, RelsOf, FileAt, ClassesIn, StatusOf

\* There is one file at a relative path, or none.
LEMMA FileAtIs ==
  ASSUME NEW r, DOMAIN r.meta \subseteq Dirs \X Nat, NEW d, NEW rel
  PROVE  /\ rel \in RelsOf(r, d) => /\ FileAt(r, d, rel) \in FilesUnder(r, d)
                                    /\ FilesAt(r, d, rel) = {FileAt(r, d, rel)}
         /\ rel \notin RelsOf(r, d) => FilesAt(r, d, rel) = {}
<1>1. \A p, q \in FilesUnder(r, d) : RelPath(p, d) = RelPath(q, d) => p = q
  BY RelPathTells
<1>2. ASSUME rel \in RelsOf(r, d)
      PROVE  FileAt(r, d, rel) \in FilesUnder(r, d) /\ RelPath(FileAt(r, d, rel), d) = rel
  BY <1>2 DEF RelsOf, FileAt
<1> QED
  BY <1>1, <1>2 DEF RelsOf, FilesAt

-----------------------------------------------------------------------------
(* Similar pairs *)

\* The two folders of every pair share something.
PairsMeet(r) == \A ab \in r.pairs : \A a, b \in ab : a # b => SharedBytes(r, a, b) > 0

LEMMA SharedDepends ==
  ASSUME NEW r, NEW q, q.meta = r.meta, q.class = r.class, NEW a, NEW b
  PROVE  SharedBytes(q, a, b) = SharedBytes(r, a, b)
<1>1. \A d, c : Copies(q, d, c) = Copies(r, d, c)
  BY DEF Copies, FilesUnder, Members
<1>2. Classes(q) = Classes(r)
  BY DEF Classes
<1>3. Least(q, a, b) = Least(r, a, b)
  BY <1>1, <1>2 DEF Least
<1>4. SharedBytes(q, a, b) = SumFunction(Least(q, a, b))
  BY DEF SharedBytes, Least
<1>5. SharedBytes(r, a, b) = SumFunction(Least(r, a, b))
  BY DEF SharedBytes, Least
<1> QED
  BY <1>3, <1>4, <1>5

LEMMA AggregatedPairs ==
  ASSUME NEW r, Shape(r), NEW man, NEW q, q = Aggregated(r, man), q.meta = r.meta,
         q.class = r.class
  PROVE  PairsMeet(q)
<1>1. q = [r EXCEPT !.fileGroups = FileGroups(r), !.dirGroups = DirGroupsOf(man),
                    !.pairs = SimilarPairs(r, man)]
  BY DEF Aggregated
<1>2. q.pairs = SimilarPairs(r, man)
  BY <1>1 DEF Shape
<1>3. \A ab \in SimilarPairs(r, man) : \A a, b \in ab : a # b => SharedBytes(r, a, b) > 0
  BY DEF SimilarPairs
<1> QED
  BY <1>2, <1>3, SharedDepends DEF PairsMeet
=============================================================================
