--------------------------- MODULE MCFolderMerge ---------------------------
(* FolderMerge on two small folders. *)
EXTENDS FolderMerge

CONSTANTS f, g, x, y

\* Everywhere but between a check and the call that relies on it.
OutsideWindows == ((Points \ {"done"}) \X Sides) \ Windows

Empty == [e \in Entries |-> Absent]

\* Folders where A has the file f, and perhaps g, and B has one of the names,
\* with the same content or another; inodes 3 and 7 are links.
Disks ==
  {[Empty EXCEPT ![<<"A", First(f)>>] = 1, ![<<"B", First(f)>>] = 2],
   [Empty EXCEPT ![<<"A", First(f)>>] = 1, ![<<"A", First(g)>>] = 2,
                 ![<<"B", First(g)>>] = 4],
   [Empty EXCEPT ![<<"A", First(f)>>] = 3, ![<<"B", First(f)>>] = 1],
   [Empty EXCEPT ![<<"A", First(f)>>] = 3, ![<<"B", First(f)>>] = 7]}

FolderLayouts ==
  {[disk |-> d, content |-> [i \in Inodes |-> IF i \in ys THEN y ELSE x],
    scanned |-> {e \in Entries : d[e] \notin Links \cup {Absent} \cup dark}] :
     d \in Disks, ys \in {{}, {1}, {2}}, dark \in {{}, {1, 2}}}
=============================================================================
