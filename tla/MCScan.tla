------------------------------- MODULE MCScan -------------------------------
(* Scan on small volumes. *)
EXTENDS Scan

TheDirs   == {"R", "A", "B", "C", "D", "S", "T", "U", "V", "W"}
TheParent == [d \in TheDirs |-> CASE d = "R" -> "/" [] d = "S" -> "A"
                                  [] d = "T" -> "B" [] d = "U" -> "T"
                                  [] d = "V" -> "D" [] d = "W" -> "V"
                                  [] OTHER -> "R"]
TheName   == [d \in TheDirs |-> CASE d = "A" -> 5 [] d = "B" -> 6 [] d = "C" -> 7
                                  [] d = "D" -> 8 [] d = "R" -> 9 [] OTHER -> 3]
TheKind   == [i \in 1..9 |-> CASE i = 5 -> "link" [] i = 6 -> "special"
                               [] i = 7 -> "cloud" [] OTHER -> "file"]
TheSize   == [c \in {"empty", "note", "memo", "film", "cut"} |->
                CASE c = "empty" -> 0 [] c \in {"note", "memo"} -> 1
                  [] OTHER -> 2]
TheProbe  == [c \in DOMAIN TheSize |->
                IF c \in {"film", "cut"} THEN "intro" ELSE c]

Data(f) == [i \in 1..9 |-> IF i \in DOMAIN f THEN f[i] ELSE "note"]

\* A plain scan of R with nothing special about it; the others vary it.
Base ==
  [mode |-> "scan", roots |-> {"R"}, folders |-> {"R", "A", "B"},
   denied |-> {}, skipped |-> {}, filtered |-> {}, cap |-> 3, stops |-> FALSE,
   rows |-> Map0, previous |-> Map0, before |-> Data(Map0),
   entry |-> <<"A", 1>> :> 1 @@ <<"B", 1>> :> 2,
   content |-> Data(Map0)]

Row1(i, n, c) == [id |-> <<i, n>>, digest |-> c]

\* Three large files of which two are the same, or all, in a scan that is also
\* stopped at any moment.
Funnel ==
  {[Base EXCEPT !.entry = @ @@ <<"B", 2>> :> 3, !.stops = (c = "film"),
      !.cap = IF c = "film" THEN 3 ELSE 2,
      !.content = Data(1 :> "film" @@ 2 :> c @@ 3 :> "film")] :
     c \in {"film", "cut"}}

\* A cache with rows of the files as they are and as they were.
Cached ==
  {[Base EXCEPT !.content = Data(1 :> "film" @@ 2 :> "film"),
      !.before = Data(1 :> "film" @@ 2 :> "cut"),
      !.rows = <<<<"A", 1>>, "f">> :> Row1(1, 1, "film")
               @@ <<<<"B", 1>>, "f">> :> Row1(2, 0, "cut")
               @@ <<<<"B", 1>>, "p">> :> Row1(2, 0, "intro")]}

\* Two folders with the same file, and in one of them something the scan does
\* not read: a folder it may not open or is to skip, an entry that is no file,
\* not stored here or filtered.
Unreadable ==
  {[Base EXCEPT !.folders = @ \cup {"S", "C"}, !.denied = {"S"},
      !.entry = @ @@ <<"C", 2>> :> 3 @@ <<"S", 1>> :> 4],
   [Base EXCEPT !.folders = @ \cup {"S"}, !.skipped = {"S"}],
   [Base EXCEPT !.entry = @ @@ <<"A", 2>> :> 3, !.filtered = {<<"A", 2>>},
                !.content = Data(3 :> "memo")]} \cup
  {[Base EXCEPT !.entry = @ @@ <<"A", 2>> :> i] : i \in {5, 6, 7}}

\* Subfolders, empty files, hard links and links on both sides.
Nested ==
  {[Base EXCEPT !.folders = @ \cup {"S", "T"},
      !.entry = @ @@ <<"S", 1>> :> 3 @@ <<"T", 1>> :> 4,
      !.content = Data(3 :> "memo" @@ 4 :> c)] : c \in {"memo", "empty"}} \cup
  {[Base EXCEPT !.content = Data(1 :> "empty" @@ 2 :> "empty")],
   [Base EXCEPT !.entry = <<"A", 1>> :> 1 @@ <<"A", 2>> :> 5 @@
                          <<"B", 1>> :> 1 @@ <<"B", 2>> :> 5],
   [Base EXCEPT !.entry = <<"A", 1>> :> 1 @@ <<"A", 2>> :> 2 @@
                          <<"B", 1>> :> 2 @@ <<"B", 2>> :> 1]}

\* Three folders that share files two by two.
Chained ==
  {[Base EXCEPT !.folders = @ \cup {"C"},
      !.entry = <<"A", 1>> :> 1 @@ <<"A", 2>> :> 2 @@
                <<"B", 1>> :> 3 @@ <<"C", 2>> :> 4,
      !.content = Data(1 :> "note" @@ 3 :> "note" @@
                       2 :> "memo" @@ 4 :> "memo")]}

\* Two folders that hold the same two contents under each other's name.
Swapped ==
  {[Base EXCEPT !.roots = {"A", "B"}, !.cap = 1,
      !.entry = <<"A", 1>> :> 1 @@ <<"A", 2>> :> 2 @@
                <<"B", 1>> :> 3 @@ <<"B", 2>> :> 4,
      !.content = Data(2 :> "memo" @@ 3 :> "memo")]}

\* The refresh of a session whose hashes are current or not, and the scan of
\* two folders before a merge.
Refreshed ==
  {[Base EXCEPT !.mode = "refresh", !.stops = TRUE,
      !.folders = {"R", "A"},
      !.entry = <<"A", 1>> :> 1 @@ <<"A", 2>> :> 2,
      !.content = Data(1 :> "film" @@ 2 :> "film"),
      !.previous = <<<<"A", 1>>, "f">> :> Row1(1, 1, "film")
                   @@ <<<<"A", 2>>, "f">> :> Row1(2, 0, "note")]}

\* Two like folders, B and D, that hold copies of a third, A, and of a fourth, C:
\* those have twins only in there, and are in no group.
Covered ==
  {[Base EXCEPT !.folders = TheDirs, !.entry = Map0]}

\* A root in another, where it is skipped; and what is above the root is.
Rooted2 ==
  {[Base EXCEPT !.roots = {"R", "A"}, !.skipped = {"A"}],
   [Base EXCEPT !.roots = {"A", "B"}, !.skipped = {"R"}]}

\* More links in a folder than a list of a session file may have, and a file from
\* before 1970; Covered has more entries than a session file may have.
Unopenable ==
  {[Base EXCEPT !.roots = {"A"}, !.folders = {"R", "A"},
                !.entry = [p \in {"A"} \X (1..11) |-> 5]],
   [Base EXCEPT !.roots = {"A"}, !.entry = <<"A", 1>> :> 1 @@ <<"A", 2>> :> 9]}

Early1 == {<<9, 1>>}

Paired == {[Base EXCEPT !.mode = "pair", !.roots = {"A", "B"}]}

TheLayouts == Funnel \cup Cached \cup Unreadable \cup Nested \cup Chained
              \cup Refreshed \cup Paired \cup Covered \cup Rooted2 \cup Swapped
              \cup Unopenable
=============================================================================
