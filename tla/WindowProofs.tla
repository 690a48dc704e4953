----------------------------- MODULE WindowProofs -----------------------------
(***************************************************************************)
(* The operations of the window, for any number of them in flight and any  *)
(* number begun by the user.                                               *)
(***************************************************************************)
EXTENDS Window, TLAPS

-----------------------------------------------------------------------------
(* The inductive invariant *)

\* The preparation of a refresh, up to the moment its scan begins.
Preflight == {"roots", "validate", "root"}

\* What goes on behind the operations.
Behind == {"sweep", "recompute", "tables", "photos"}

\* A foreground operation: neither one of those nor a preparation.
Main(i) == /\ proc[i].state # "idle"
           /\ proc[i].at \notin Preflight \union Behind

Stacked(i) == \E n \in 1..Len(dialogs) : dialogs[n] = i

\* The questions are nested, each once.
Nested ==
  /\ dialogs \in Seq(Ids)
  /\ \A m, n \in 1..Len(dialogs) : dialogs[m] = dialogs[n] => m = n

\* On a window that is closing no question is open.
Barrier == closing => dialogs = <<>>

\* A superseded publisher has lost the token.
LateBarred == \A i \in Ids : proc[i].late => proc[i].at \in Publishers /\ ~proc[i].tok

\* What a scan that has ended reports.
Reported == \A i \in Ids : proc[i].at = "scan" /\ proc[i].state = "queued"
                            => proc[i].out \in {"live", "partial", "failed"}

\* What a foreground operation has under it: the flag of its kind, and for what
\* acts on a historical result that result.
OfPast == {"confirm", "refresh", "resolve", "hint", "relink", "relinking", "pairs", "pair"}
Merging == MergeJobs \union {"plan", "source", "told"}

Equipped(i) ==
  /\ proc[i].at \in OfPast => Historical
  /\ proc[i].at \in Merging => flag["merging"]
  /\ proc[i].at \in {"verify", "trash"} => flag["trashing"]

\* One foreground operation at a time, and none while a refresh is prepared.
Alone ==
  ~rushed =>
    /\ \A i, j \in Ids : Main(i) /\ Main(j) => i = j
    /\ \A i \in Ids : Main(i) => Equipped(i) /\ ~flag["checking"]
    /\ flag["checking"] => Historical

\* The window knows every thread that runs, but for a scan of photos.
AllHeld == ~rushed => \A i \in Ids : proc[i].state = "run" /\ proc[i].at # "photos"
                                      => proc[i].held

Inv ==
  /\ TypeOK /\ Nested /\ Barrier
  /\ LateBarred /\ Reported /\ LatestShown
  /\ Alone /\ AllHeld

-----------------------------------------------------------------------------
(* Entries, and the steps on the table *)

Table == [Ids -> Entry]

\* A job of these kinds is kept in a slot of its own.
Slotted == Controlled \union {"load", "recompute", "photos"}

\* What the window does to an operation that it does not handle just now: it may
\* take from it the token and other captured things, and call it late.
Alike(p, q) ==
  /\ q.at = p.at /\ q.state = p.state /\ q.out = p.out
  /\ q.tok => p.tok
  /\ q.late => p.late \/ (p.at \in Publishers /\ ~q.tok)
  /\ p = NoProc => q = NoProc

\* qs is ps after a step of operation i that starts the job, or none: another
\* operation may lose the slot of that job, or of one that has ended.
Near(ps, qs, i, job) ==
  /\ qs \in Table
  /\ \A j \in Ids \ {i} :
       /\ Alike(ps[j], qs[j])
       /\ ps[j].held => \/ qs[j].held \/ ps[j].state = "queued" \/ ps[j].at = "photos"
                        \/ job \in Slotted /\ SameSlot(ps[j].at, job)

LEMMA NoProcIn == NoProc \in Entry
BY DEF NoProc, Entry, Outs

\* An entry keeps its type when its fields change.
LEMMA EntrySet ==
  ASSUME NEW p \in Entry
  PROVE  /\ \A x \in Jobs : [p EXCEPT !.at = x, !.state = "run"] \in Entry
         /\ \A x \in Questions : [p EXCEPT !.at = x, !.state = "asks"] \in Entry
         /\ [p EXCEPT !.out = "none", !.held = TRUE] \in Entry
         /\ [p EXCEPT !.cancel = FALSE, !.pause = "never"] \in Entry
         /\ [p EXCEPT !.held = FALSE] \in Entry /\ [p EXCEPT !.res = FALSE] \in Entry
         /\ [p EXCEPT !.tok = FALSE] \in Entry /\ [p EXCEPT !.ev = FALSE] \in Entry
         /\ [p EXCEPT !.late = TRUE] \in Entry
<1>1. /\ \A x \in Jobs : [p EXCEPT !.at = x, !.state = "run"] \in Entry
      /\ \A x \in Questions : [p EXCEPT !.at = x, !.state = "asks"] \in Entry
  BY DEF Entry
<1>2. [p EXCEPT !.out = "none", !.held = TRUE] \in Entry
  BY ZenonT(60) DEF Entry, Outs
<1>3. [p EXCEPT !.cancel = FALSE, !.pause = "never"] \in Entry
  BY DEF Entry
<1>4. [p EXCEPT !.held = FALSE] \in Entry /\ [p EXCEPT !.res = FALSE] \in Entry
  BY DEF Entry
<1>5. [p EXCEPT !.tok = FALSE] \in Entry /\ [p EXCEPT !.ev = FALSE] \in Entry
  BY DEF Entry
<1>6. [p EXCEPT !.late = TRUE] \in Entry
  BY DEF Entry
<1> QED
  BY <1>1, <1>2, <1>3, <1>4, <1>5, <1>6

\* Taking from an entry what it does not have leaves it as it is.
LEMMA EntrySame ==
  ASSUME NEW p \in Entry
  PROVE  /\ ~p.held => [p EXCEPT !.held = FALSE] = p
         /\ ~p.tok => [p EXCEPT !.tok = FALSE] = p
         /\ ~p.res => [p EXCEPT !.res = FALSE] = p
         /\ ~p.ev => [p EXCEPT !.ev = FALSE] = p
BY DEF Entry

\* The fields of an empty entry.
LEMMA NoProcIs ==
  /\ NoProc.at = "none" /\ NoProc.state = "idle" /\ ~NoProc.held
  /\ ~NoProc.tok /\ ~NoProc.res /\ ~NoProc.ev /\ ~NoProc.late
BY DEF NoProc

LEMMA AlikeSelf == \A p : Alike(p, p)
BY DEF Alike

\* Each thing that is taken leaves an entry alike.
LEMMA AlikeTaken ==
  ASSUME NEW p \in Entry
  PROVE  /\ Alike(p, [p EXCEPT !.held = FALSE]) /\ [p EXCEPT !.held = FALSE].held = FALSE
         /\ Alike(p, [p EXCEPT !.tok = FALSE]) /\ [p EXCEPT !.tok = FALSE].held = p.held
         /\ Alike(p, [p EXCEPT !.res = FALSE]) /\ [p EXCEPT !.res = FALSE].held = p.held
         /\ Alike(p, [p EXCEPT !.ev = FALSE]) /\ [p EXCEPT !.ev = FALSE].held = p.held
<1>1. p = NoProc => /\ [p EXCEPT !.held = FALSE] = p /\ [p EXCEPT !.tok = FALSE] = p
                    /\ [p EXCEPT !.res = FALSE] = p /\ [p EXCEPT !.ev = FALSE] = p
  BY EntrySame, NoProcIs
<1>2. /\ Alike(p, [p EXCEPT !.held = FALSE]) /\ [p EXCEPT !.held = FALSE].held = FALSE
      /\ Alike(p, [p EXCEPT !.tok = FALSE]) /\ [p EXCEPT !.tok = FALSE].held = p.held
  BY <1>1 DEF Alike, Entry
<1>3. /\ Alike(p, [p EXCEPT !.res = FALSE]) /\ [p EXCEPT !.res = FALSE].held = p.held
      /\ Alike(p, [p EXCEPT !.ev = FALSE]) /\ [p EXCEPT !.ev = FALSE].held = p.held
  BY <1>1 DEF Alike, Entry
<1> QED
  BY <1>2, <1>3

\* A step that starts nothing, before or after one that does.
LEMMA NearTrans ==
  ASSUME NEW ps \in Table, NEW qs \in Table, NEW rs, NEW i \in Ids, NEW job, NEW kob,
         Near(ps, qs, i, job), Near(qs, rs, i, kob), job = "none" \/ kob = "none"
  PROVE  Near(ps, rs, i, IF job = "none" THEN kob ELSE job)
<1>1. "none" \notin Slotted
  BY DEF Slotted, Controlled, MergeJobs
<1>2. ASSUME NEW j \in Ids \ {i}
      PROVE  /\ Alike(ps[j], qs[j]) /\ Alike(qs[j], rs[j])
             /\ Alike(ps[j], rs[j])
             /\ qs[j].at = ps[j].at /\ qs[j].state = ps[j].state
  BY DEF Near, Alike
<1>3. rs \in Table
  BY DEF Near
<1> QED
  BY <1>1, <1>2, <1>3 DEF Near

-----------------------------------------------------------------------------
(* The operators on the table *)

LEMMA StartNear ==
  ASSUME NEW ps \in Table, NEW i \in Ids, NEW job \in Jobs
  PROVE  /\ Near(ps, Start(ps, i, job), i, job)
         /\ Start(ps, i, job) \in Table
<1>1. ASSUME NEW p \in Entry
      PROVE  [p EXCEPT !.at = job, !.state = "run", !.out = "none", !.held = TRUE,
                       !.cancel = FALSE, !.pause = "never"] \in Entry
  <2>1. PICK q \in Entry : q = [p EXCEPT !.at = job, !.state = "run"]
    BY EntrySet
  <2>2. PICK r \in Entry : r = [q EXCEPT !.out = "none", !.held = TRUE]
    BY EntrySet
  <2>3. [r EXCEPT !.cancel = FALSE, !.pause = "never"] \in Entry
    BY EntrySet
  <2> QED
    BY <2>1, <2>2, <2>3
<1>2. ASSUME NEW p \in Entry PROVE [p EXCEPT !.held = FALSE] \in Entry
  BY EntrySet
<1>3. Start(ps, i, job) \in Table
  BY <1>1, <1>2 DEF Start, Table
<1>4. ASSUME NEW j \in Ids \ {i}
      PROVE  LET p == Start(ps, i, job)[j] IN
             /\ Alike(ps[j], p)
             /\ ps[j].held => p.held \/ (job \in Slotted /\ SameSlot(ps[j].at, job))
  <2>1. ps[j] \in Entry
    BY DEF Table
  <2>2. CASE Start(ps, i, job)[j] = ps[j]
    <3>1. Alike(ps[j], Start(ps, i, job)[j])
      BY <2>2, AlikeSelf
    <3>2. ps[j].held => Start(ps, i, job)[j].held
      BY <2>2
    <3> QED
      BY <3>1, <3>2
  <2>3. CASE /\ Start(ps, i, job)[j] = [ps[j] EXCEPT !.held = FALSE]
             /\ job \in Slotted /\ SameSlot(ps[j].at, job)
    BY <2>1, <2>3, AlikeTaken
  <2> QED
    BY <2>2, <2>3 DEF Start, Jobs, Slotted
<1> QED
  BY <1>3, <1>4 DEF Near

LEMMA StartSelf ==
  ASSUME NEW ps \in Table, NEW i \in Ids, NEW job \in Jobs
  PROVE  LET p == Start(ps, i, job)[i] IN
         p.at = job /\ p.state = "run" /\ p.held /\ p.late = ps[i].late
<1>1. ps[i] \in Entry
  BY DEF Table
<1>2. Start(ps, i, job)[i] = [ps[i] EXCEPT !.at = job, !.state = "run", !.out = "none",
                                 !.held = TRUE, !.cancel = FALSE,
                                 !.pause = "never"]
  BY DEF Start
<1> QED
  BY <1>1, <1>2 DEF Entry

\* The token, the result and the event are taken from all.
LEMMA TakenNear ==
  ASSUME NEW ps \in Table, NEW i \in Ids
  PROVE  /\ Near(ps, NewToken(ps), i, "none") /\ NewToken(ps) \in Table
         /\ Near(ps, NewResult(ps), i, "none") /\ NewResult(ps) \in Table
         /\ Near(ps, NewEvent(ps), i, "none") /\ NewEvent(ps) \in Table
         /\ Near(ps, FinishedLetGo(ps), i, "none") /\ FinishedLetGo(ps) \in Table
<1>1. \A j \in Ids : ps[j] \in Entry
  BY DEF Table
<1>2. /\ NewToken(ps) \in Table /\ NewResult(ps) \in Table /\ NewEvent(ps) \in Table
  BY <1>1, EntrySet DEF NewToken, NewResult, NewEvent, Table
<1>3. FinishedLetGo(ps) \in Table
  BY <1>1, EntrySet DEF FinishedLetGo, Table
<1>4. \A j \in Ids : /\ Alike(ps[j], NewToken(ps)[j]) /\ NewToken(ps)[j].held = ps[j].held
                     /\ Alike(ps[j], NewResult(ps)[j]) /\ NewResult(ps)[j].held = ps[j].held
                     /\ Alike(ps[j], NewEvent(ps)[j]) /\ NewEvent(ps)[j].held = ps[j].held
  BY <1>1, AlikeTaken DEF NewToken, NewResult, NewEvent
<1>5. \A j \in Ids : /\ Alike(ps[j], FinishedLetGo(ps)[j])
                     /\ FinishedLetGo(ps)[j].held = ps[j].held \/ ps[j].state = "queued"
  BY <1>1, AlikeTaken, AlikeSelf DEF FinishedLetGo
<1> QED
  BY <1>2, <1>3, <1>4, <1>5 DEF Near

\* What they leave of an entry.
LEMMA TakenSelf ==
  ASSUME NEW ps \in Table, NEW j \in Ids
  PROVE  /\ ~NewToken(ps)[j].tok
         /\ NewEvent(ps)[j].at = ps[j].at /\ NewEvent(ps)[j].state = ps[j].state
         /\ NewEvent(ps)[j].held = ps[j].held /\ NewEvent(ps)[j].late = ps[j].late
         /\ NewEvent(ps)[j].tok = ps[j].tok
         /\ NewResult(ps)[j].late = ps[j].late
<1>1. ps[j] \in Entry
  BY DEF Table
<1> QED
  BY <1>1 DEF NewToken, NewEvent, NewResult, Entry

\* Only entry i is set.
LEMMA SetNear ==
  ASSUME NEW ps \in Table, NEW i \in Ids, NEW p \in Entry
  PROVE  LET qs == [ps EXCEPT ![i] = p] IN
         qs \in Table /\ Near(ps, qs, i, "none") /\ qs[i] = p
BY AlikeSelf DEF Near, Table

\* Who publishes after this one has lost the token.
LEMMA SupersedesNear ==
  ASSUME NEW ps \in Table, NEW i \in Ids, \A j \in Ids \ {i} : ~ps[j].tok
  PROVE  LET qs == Supersedes(ps, i) IN
         qs \in Table /\ Near(ps, qs, i, "none") /\ qs[i] = ps[i]
<1>1. \A j \in Ids : ps[j] \in Entry
  BY DEF Table
<1>2. Supersedes(ps, i) \in Table
  BY <1>1, EntrySet DEF Supersedes, Table
<1>3. ASSUME NEW j \in Ids \ {i}
      PROVE  /\ Alike(ps[j], Supersedes(ps, i)[j])
             /\ Supersedes(ps, i)[j].held = ps[j].held
  <2>1. CASE ps[j].at \in Publishers
    <3>1. Supersedes(ps, i)[j] = [ps[j] EXCEPT !.late = TRUE]
      BY <2>1 DEF Supersedes
    <3>2. ps[j] # NoProc
      BY <2>1, NoProcIs DEF Publishers
    <3> QED
      BY <1>1, <2>1, <3>1, <3>2 DEF Alike, Entry
  <2>2. CASE ps[j].at \notin Publishers
    BY <2>2, AlikeSelf DEF Supersedes
  <2> QED
    BY <2>1, <2>2
<1>4. Supersedes(ps, i)[i] = ps[i]
  BY DEF Supersedes
<1> QED
  BY <1>2, <1>3, <1>4 DEF Near

-----------------------------------------------------------------------------
(* The three things that can become of the operation a step handles *)

\* An operation that waits for an answer waits until it has got it.
Waits(i) ==
  \/ proc[i].state # "asks" /\ UNCHANGED dialogs
  \/ proc[i].state = "asks" /\ dialogs # <<>> /\ Head(dialogs) = i /\ dialogs' = Tail(dialogs)

\* It is over.
Over(i) == Near(proc, proc', i, "none") /\ proc'[i] = NoProc /\ Waits(i)

\* What may start on a window that is closing: a look for vanished files, and the
\* tables of a recompute.
Passes(i, job) == job = "sweep" \/ (job = "tables" /\ proc[i].at = "recompute")

\* It runs a job.
Runs(i, job) ==
  /\ Near(proc, proc', i, job)
  /\ proc'[i].at = job /\ proc'[i].state = "run" /\ proc'[i].held /\ ~proc'[i].late
  /\ Waits(i)
  /\ job = "recompute" => ~Running({"recompute"})
  /\ closing => Passes(i, job)

\* It asks a question, on top of those that are open.
Opens(i, question) ==
  /\ Near(proc, proc', i, "none")
  /\ proc'[i].at = question /\ proc'[i].state = "asks" /\ ~proc'[i].late
  /\ proc[i].state # "asks" /\ dialogs' = <<i>> \o dialogs
  /\ ~closing

Moves(i) ==
  \/ Over(i)
  \/ \E job \in Jobs : Runs(i, job)
  \/ \E question \in Questions : Opens(i, question)

\* The rest of the window.
Rest ==
  /\ flag' \in [Flags -> BOOLEAN]
  /\ shown' \in {"none", "live", "partial", "past"}
  /\ ghosts' \subseteq {Finder} \union Ids
  /\ ops' \in 0..MaxOps
  /\ closing' = closing /\ closed' = closed
  /\ rushed => rushed'
  /\ outdated' => outdated

\* An operation in the foreground has the window to itself.
Fore(i) ==
  ~rushed' =>
    /\ Main(i)' => /\ \A j \in Ids \ {i} : ~Main(j)
                   /\ Equipped(i)' /\ ~flag'["checking"]
    /\ (\E j \in Ids \ {i} : Main(j)) =>
         /\ shown' = shown /\ flag'["merging"] = flag["merging"]
         /\ flag'["trashing"] = flag["trashing"]
         /\ flag'["checking"] => flag["checking"]
    /\ flag'["checking"] => Historical'

Good(i) == Moves(i) /\ Rest /\ Fore(i)

LEMMA NoneNotJob ==
  /\ "none" \notin Jobs /\ "none" \notin Questions /\ "none" \notin Slotted
  /\ Jobs \cap Questions = {}
  /\ "recompute" \notin Publishers
  /\ \A q \in Questions : q \notin Publishers
BY DEF Jobs, Questions, Slotted, Background, Helpers, Controlled, MergeJobs, Publishers

\* What the moves have in common.
LEMMA MovesNear ==
  ASSUME NEW i \in Ids, Moves(i)
  PROVE  /\ proc' \in [Ids -> Entry]
         /\ \A j \in Ids \ {i} : Alike(proc[j], proc'[j])
         /\ proc'[i].late => proc'[i] = NoProc
         /\ proc'[i].state = "run" => proc'[i].held /\ proc'[i].at \in Jobs
         /\ proc'[i].state \in {"idle", "run", "asks"}
         /\ proc'[i].state = "idle" <=> Over(i)
         /\ proc'[i].state = "asks" <=> \E question \in Questions : Opens(i, question)
         /\ proc'[i].state = "run" <=> \E job \in Jobs : Runs(i, job)
BY NoProcIs, NoneNotJob DEF Moves, Over, Runs, Opens, Near, Table

-----------------------------------------------------------------------------
(* A good step preserves the invariant *)

LEMMA MovesTyped ==
  ASSUME TypeOK, NEW i \in Ids, Moves(i), Nested
  PROVE  \A j \in Ids : /\ proc'[j].state = "idle" => proc'[j] = NoProc
                        /\ proc'[j].state \in {"run", "queued"} => proc'[j].at \in Jobs
                        /\ proc'[j].state = "asks" <=> proc'[j].at \in Questions
<1> DEFINE Formed(p) == /\ p.state = "idle" => p = NoProc
                        /\ p.state \in {"run", "queued"} => p.at \in Jobs
                        /\ p.state = "asks" <=> p.at \in Questions
<1>1. \A j \in Ids : Formed(proc[j])
  BY DEF TypeOK
<1>2. ASSUME NEW j \in Ids \ {i} PROVE Formed(proc'[j])
  <2>1. Alike(proc[j], proc'[j])
    BY MovesNear
  <2> QED
    BY <1>1, <2>1, NoProcIs, NoneNotJob DEF Alike
<1>3. Formed(proc'[i])
  <2>1. CASE Over(i)
    BY <2>1, NoProcIs, NoneNotJob DEF Over
  <2>2. ASSUME NEW job \in Jobs, Runs(i, job) PROVE Formed(proc'[i])
    BY <2>2, NoneNotJob DEF Runs
  <2>3. ASSUME NEW question \in Questions, Opens(i, question) PROVE Formed(proc'[i])
    BY <2>3 DEF Opens
  <2> QED
    BY <2>1, <2>2, <2>3 DEF Moves
<1> QED
  BY <1>2, <1>3

\* The stack of questions is the set of those that wait for an answer.
LEMMA MovesNested ==
  ASSUME TypeOK, Nested, Barrier, NEW i \in Ids, Moves(i)
  PROVE  /\ dialogs' \in Seq(Ids)
         /\ \A m, n \in 1..Len(dialogs') : dialogs'[m] = dialogs'[n] => m = n
         /\ \A j \in Ids : proc'[j].state = "asks" <=>
                             \E n \in 1..Len(dialogs') : dialogs'[n] = j
         /\ closing => dialogs' = <<>>
<1>1. /\ dialogs \in Seq(Ids)
      /\ \A m, n \in 1..Len(dialogs) : dialogs[m] = dialogs[n] => m = n
      /\ \A j \in Ids : proc[j].state = "asks" <=>
                          \E n \in 1..Len(dialogs) : dialogs[n] = j
  BY DEF TypeOK, Nested
<1>2. \A j \in Ids \ {i} : proc'[j].state = proc[j].state
  BY MovesNear DEF Alike
<1>3. CASE UNCHANGED dialogs /\ proc'[i].state # "asks" /\ proc[i].state # "asks"
  BY <1>1, <1>2, <1>3 DEF Barrier
<1>4. CASE /\ proc[i].state = "asks" /\ proc'[i].state # "asks"
           /\ dialogs # <<>> /\ Head(dialogs) = i /\ dialogs' = Tail(dialogs)
  <2>1. /\ dialogs' \in Seq(Ids) /\ Len(dialogs') = Len(dialogs) - 1
        /\ Len(dialogs) \in Nat /\ Len(dialogs) > 0
        /\ \A n \in 1..Len(dialogs') : dialogs'[n] = dialogs[n + 1]
        /\ dialogs[1] = i
    BY <1>1, <1>4
  <2>2. \A m, n \in 1..Len(dialogs') : dialogs'[m] = dialogs'[n] => m = n
    BY <1>1, <2>1
  <2>3. \A n \in 1..Len(dialogs') : dialogs'[n] # i
    BY <1>1, <2>1
  <2>4. ASSUME NEW j \in Ids \ {i}
        PROVE  proc'[j].state = "asks" <=> \E n \in 1..Len(dialogs') : dialogs'[n] = j
    <3>1. ASSUME NEW n \in 1..Len(dialogs), dialogs[n] = j
          PROVE  n - 1 \in 1..Len(dialogs') /\ dialogs'[n - 1] = j
      BY <2>1, <3>1
    <3>2. ASSUME NEW n \in 1..Len(dialogs'), dialogs'[n] = j
          PROVE  n + 1 \in 1..Len(dialogs) /\ dialogs[n + 1] = j
      BY <2>1, <3>2
    <3> QED
      BY <1>1, <1>2, <3>1, <3>2
  <2> QED
    BY <1>4, <2>1, <2>2, <2>3, <2>4 DEF Barrier
<1>5. CASE /\ proc[i].state # "asks" /\ proc'[i].state = "asks"
           /\ dialogs' = <<i>> \o dialogs /\ ~closing
  <2>1. /\ dialogs' \in Seq(Ids) /\ Len(dialogs') = Len(dialogs) + 1
        /\ Len(dialogs) \in Nat
        /\ dialogs'[1] = i
        /\ \A n \in 1..Len(dialogs) : dialogs'[n + 1] = dialogs[n]
    BY <1>1, <1>5
  <2>2. \A n \in 1..Len(dialogs') : n # 1 => n - 1 \in 1..Len(dialogs) /\ dialogs'[n] = dialogs[n - 1]
    BY <2>1
  <2>3. \A n \in 1..Len(dialogs) : dialogs[n] # i
    BY <1>1, <1>5
  <2>4. ASSUME NEW m \in 1..Len(dialogs'), NEW n \in 1..Len(dialogs'), dialogs'[m] = dialogs'[n]
        PROVE  m = n
    <3>1. CASE m = 1 \/ n = 1
      BY <2>1, <2>2, <2>3, <2>4, <3>1
    <3>2. CASE m # 1 /\ n # 1
      <4>1. m - 1 = n - 1
        BY SMTT(30), <1>1, <2>2, <2>4, <3>2
      <4> QED
        BY <4>1
    <3> QED
      BY <3>1, <3>2
  <2>5. ASSUME NEW j \in Ids \ {i}
        PROVE  proc'[j].state = "asks" <=> \E n \in 1..Len(dialogs') : dialogs'[n] = j
    <3>1. ASSUME NEW n \in 1..Len(dialogs), dialogs[n] = j
          PROVE  n + 1 \in 1..Len(dialogs') /\ dialogs'[n + 1] = j
      BY <2>1, <3>1
    <3>2. ASSUME NEW n \in 1..Len(dialogs'), dialogs'[n] = j
          PROVE  n - 1 \in 1..Len(dialogs) /\ dialogs[n - 1] = j
      BY <2>1, <2>2, <3>2
    <3> QED
      BY <1>1, <1>2, <3>1, <3>2
  <2>6. \E n \in 1..Len(dialogs') : dialogs'[n] = i
    BY <2>1
  <2> QED
    BY <1>5, <2>1, <2>4, <2>5, <2>6
<1>6. \/ Over(i) /\ proc'[i].state # "asks"
      \/ \E job \in Jobs : Runs(i, job) /\ proc'[i].state # "asks"
      \/ \E question \in Questions : Opens(i, question) /\ proc'[i].state = "asks"
  BY NoProcIs DEF Moves, Over, Runs, Opens
<1>7. \/ Waits(i) /\ proc'[i].state # "asks"
      \/ \E question \in Questions : Opens(i, question) /\ proc'[i].state = "asks"
  BY <1>6 DEF Over, Runs
<1> QED
  BY <1>3, <1>4, <1>5, <1>7 DEF Waits, Opens

\* The slot that a job takes was free, when the window knows what runs.
LEMMA MovesHeld ==
  ASSUME TypeOK, AllHeld, NEW i \in Ids, Moves(i), Fore(i), ~rushed, ~rushed'
  PROVE  \A j \in Ids : proc'[j].state = "run" /\ proc'[j].at # "photos" => proc'[j].held
<1>1. proc'[i].state = "run" => proc'[i].held
  BY MovesNear
<1>2. ASSUME NEW j \in Ids \ {i}, proc'[j].state = "run", proc'[j].at # "photos"
      PROVE  proc'[j].held
  <2>1. /\ proc[j].state = "run" /\ proc[j].held /\ proc[j].at \in Jobs
        /\ proc[j].at # "photos"
    BY <1>2, MovesNear DEF Alike, AllHeld, TypeOK
  <2>2. CASE Over(i) \/ \E question \in Questions : Opens(i, question)
    BY <2>1, <2>2, NoneNotJob DEF Over, Opens, Near
  <2>3. ASSUME NEW job \in Jobs, Runs(i, job) PROVE proc'[j].held
    <3>1. SUFFICES ASSUME job \in Slotted, SameSlot(proc[j].at, job) PROVE FALSE
      BY <2>1, <2>3 DEF Runs, Near
    <3>2. CASE job = "recompute"
      <4>1. proc[j].at = "recompute"
        BY <3>1, <3>2 DEF SameSlot, MergeJobs
      <4> QED
        BY <2>1, <2>3, <3>2, <4>1 DEF Runs, Running
    <3>3. CASE job = "photos"
      BY <2>1, <3>1, <3>3 DEF SameSlot, MergeJobs
    <3>4. CASE job \notin {"recompute", "photos"}
      <4>1. Main(i)'
        BY <2>3, <3>1, <3>4 DEF Main, Runs, Preflight, Behind, Slotted, Controlled, MergeJobs
      <4>2. Main(j)
        BY <2>1, <3>1, <3>4 DEF Main, SameSlot, Preflight, Behind, Slotted, Controlled, MergeJobs
      <4> QED
        BY <4>1, <4>2 DEF Fore
    <3> QED
      BY <3>2, <3>3, <3>4
  <2> QED
    BY <2>2, <2>3 DEF Moves
<1> QED
  BY <1>1, <1>2

LEMMA MovesAlone ==
  ASSUME TypeOK, Alone, NEW i \in Ids, Moves(i), Fore(i), Rest
  PROVE  Alone'
<1> SUFFICES ASSUME ~rushed'
             PROVE  /\ \A k, j \in Ids : Main(k)' /\ Main(j)' => k = j
                    /\ \A j \in Ids : Main(j)' => Equipped(j)' /\ ~flag'["checking"]
                    /\ flag'["checking"] => Historical'
  BY DEF Alone
<1>1. ~rushed
  BY DEF Rest
<1>2. \A j \in Ids \ {i} : (Main(j)' <=> Main(j)) /\ proc'[j].at = proc[j].at
  BY MovesNear DEF Alike, Main
<1>3. \A k, j \in Ids : Main(k)' /\ Main(j)' => k = j
  BY <1>1, <1>2 DEF Alone, Fore
<1>4. ASSUME NEW j \in Ids \ {i}, Main(j)' PROVE Equipped(j)' /\ ~flag'["checking"]
  <2>1. Main(j) /\ Equipped(j) /\ ~flag["checking"] /\ proc'[j].at = proc[j].at
    BY <1>1, <1>2, <1>4 DEF Alone
  <2>2. /\ shown' = shown /\ flag'["merging"] = flag["merging"]
        /\ flag'["trashing"] = flag["trashing"]
        /\ flag'["checking"] => flag["checking"]
    BY <2>1 DEF Fore
  <2> QED
    BY <2>1, <2>2 DEF Equipped, Historical
<1>5. Main(i)' => Equipped(i)' /\ ~flag'["checking"]
  BY DEF Fore
<1>6. flag'["checking"] => Historical'
  BY DEF Fore
<1> QED
  BY <1>3, <1>4, <1>5, <1>6

LEMMA MovesLate ==
  ASSUME LateBarred, NEW i \in Ids, Moves(i)
  PROVE  LateBarred'
<1>1. ASSUME NEW j \in Ids \ {i}, proc'[j].late PROVE proc'[j].at \in Publishers /\ ~proc'[j].tok
  <2>1. Alike(proc[j], proc'[j])
    BY MovesNear
  <2> QED
    BY <1>1, <2>1 DEF Alike, LateBarred
<1>2. ~proc'[i].late
  BY MovesNear, NoProcIs
<1> QED
  BY <1>1, <1>2 DEF LateBarred

LEMMA MovesReported ==
  ASSUME Reported, NEW i \in Ids, Moves(i)
  PROVE  Reported'
<1>1. \A j \in Ids \ {i} : Alike(proc[j], proc'[j])
  BY MovesNear
<1>2. proc'[i].state # "queued"
  BY MovesNear
<1> QED
  BY <1>1, <1>2 DEF Reported, Alike

\* A good step preserves the invariant and does not get past the barrier.
LEMMA GoodStep ==
  ASSUME Inv, NEW i \in Ids, Good(i)
  PROVE  /\ Inv'
         /\ closing => /\ dialogs' = <<>>
                       /\ \A j \in Ids : proc'[j].state = "run"
                            => proc[j].state = "run" \/ Passes(j, proc'[j].at)
<1> USE DEF Inv, Good
<1>1. TypeOK'
  BY MovesNear, MovesTyped, MovesNested DEF TypeOK, Rest
<1>2. Nested' /\ Barrier'
  BY MovesNested DEF Nested, Barrier, Rest
<1>3. LateBarred' /\ Reported' /\ LatestShown'
  BY MovesLate, MovesReported DEF LatestShown, Rest
<1>4. Alone'
  BY MovesAlone
<1>5. AllHeld'
  BY MovesHeld DEF AllHeld, Rest
<1>6. closing => dialogs' = <<>>
  BY MovesNested
<1>7. ASSUME closing, NEW j \in Ids, proc'[j].state = "run"
      PROVE  proc[j].state = "run" \/ Passes(j, proc'[j].at)
  <2>1. CASE j = i
    BY <1>7, <2>1, MovesNear DEF Runs
  <2>2. CASE j # i
    BY <1>7, <2>2, MovesNear DEF Alike
  <2> QED
    BY <2>1, <2>2
<1> QED
  BY <1>1, <1>2, <1>3, <1>4, <1>5, <1>6, <1>7

-----------------------------------------------------------------------------
(* How the moves come about *)

LEMMA TableIs ==
  ASSUME Inv, NEW i \in Ids
  PROVE  /\ proc \in Table /\ proc[i] \in Entry
         /\ Near(proc, proc, i, "none")
         /\ proc[i].late => proc[i].at \in Publishers /\ ~proc[i].tok
BY AlikeSelf DEF Inv, TypeOK, Table, Near, LateBarred

LEMMA EndsOver ==
  ASSUME Inv, NEW i \in Ids, NEW ps \in Table, Near(proc, ps, i, "none"),
         proc' = Ends(ps, i), Waits(i)
  PROVE  Moves(i)
<1>1. Near(ps, proc', i, "none") /\ proc'[i] = NoProc
  BY SetNear, NoProcIn DEF Ends
<1>2. Near(proc, proc', i, "none")
  BY <1>1, NearTrans, TableIs
<1> QED
  BY <1>1, <1>2 DEF Moves, Over

\* A job is started in the table ps.
LEMMA StartIs ==
  ASSUME Inv, NEW i \in Ids, NEW ps \in Table, Near(proc, ps, i, "none"),
         NEW job \in Jobs
  PROVE  LET qs == Start(ps, i, job) IN
         /\ qs \in Table /\ Near(proc, qs, i, job)
         /\ qs[i].at = job /\ qs[i].state = "run" /\ qs[i].held
         /\ qs[i].late = ps[i].late
<1>1. Near(ps, Start(ps, i, job), i, job) /\ Start(ps, i, job) \in Table
  BY StartNear
<1>2. Near(proc, Start(ps, i, job), i, job)
  BY <1>1, NearTrans, TableIs
<1> QED
  BY <1>1, <1>2, StartSelf

LEMMA StartRuns ==
  ASSUME Inv, NEW i \in Ids, NEW ps \in Table, Near(proc, ps, i, "none"),
         ~ps[i].late, NEW job \in Jobs, proc' = Start(ps, i, job), Waits(i),
         job = "recompute" => ~Running({"recompute"}),
         closing => Passes(i, job)
  PROVE  Moves(i) /\ proc'[i].at = job
BY StartIs DEF Moves, Runs

\* The entry of the operation is set again once its job has been started.
LEMMA SetAgain ==
  ASSUME Inv, NEW i \in Ids, NEW qs \in Table, NEW job \in Jobs, Near(proc, qs, i, job),
         NEW p \in Entry
  PROVE  LET rs == [qs EXCEPT ![i] = p] IN
         rs \in Table /\ Near(proc, rs, i, job) /\ rs[i] = p
<1>1. /\ [qs EXCEPT ![i] = p] \in Table /\ [qs EXCEPT ![i] = p][i] = p
      /\ Near(qs, [qs EXCEPT ![i] = p], i, "none")
  BY SetNear
<1>2. Near(proc, [qs EXCEPT ![i] = p], i, job)
  BY <1>1, NearTrans, TableIs, NoneNotJob
<1> QED
  BY <1>1, <1>2

LEMMA AskOpens ==
  ASSUME Inv, NEW i \in Ids, NEW question \in Questions, Ask(i, question),
         proc[i].at \notin Publishers, proc[i].state # "asks", ~closing
  PROVE  Moves(i) /\ proc'[i].at = question
<1>1. PICK q \in Entry : q = [proc[i] EXCEPT !.at = question, !.state = "asks"]
  BY TableIs, EntrySet
<1>2. PICK p \in Entry : p = [q EXCEPT !.held = FALSE]
  BY EntrySet
<1>3. p.at = question /\ p.state = "asks" /\ p.late = proc[i].late
  BY <1>1, <1>2, TableIs DEF Entry
<1>4. proc' = [proc EXCEPT ![i] = p]
  BY <1>1, <1>2, TableIs DEF Ask, Table
<1>5. Near(proc, proc', i, "none") /\ proc'[i] = p
  <2>1. proc \in Table
    BY TableIs
  <2> QED
    BY <1>4, <2>1, SetNear
<1> QED
  BY <1>3, <1>5, TableIs DEF Moves, Opens, Ask

-----------------------------------------------------------------------------
(* How the rest comes about *)

LEMMA FlagSet ==
  ASSUME Inv, NEW name \in Flags, NEW value \in BOOLEAN, Flag(name, value)
  PROVE  /\ flag' \in [Flags -> BOOLEAN] /\ flag'[name] = value
         /\ \A f \in Flags \ {name} : flag'[f] = flag[f]
BY DEF Flag, Inv, TypeOK

LEMMA FlagKept ==
  ASSUME Inv, UNCHANGED flag
  PROVE  /\ flag' \in [Flags -> BOOLEAN] /\ flag' = flag
         /\ \A f \in Flags : flag'[f] = flag[f]
BY DEF Inv, TypeOK

LEMMA RestKept ==
  ASSUME Inv, KeepShown, KeepRest, flag' \in [Flags -> BOOLEAN]
  PROVE  Rest /\ shown' = shown /\ rushed' = rushed
BY DEF KeepShown, KeepRest, Rest, Inv, TypeOK

LEMMA RestShown ==
  ASSUME Inv, NEW i \in Ids, NEW what \in {"live", "partial", "past"},
         Publish(i, what), proc[i].tok, KeepRest, flag' \in [Flags -> BOOLEAN]
  PROVE  Rest /\ shown' = what /\ rushed' = rushed
<1>1. proc[i].items \subseteq {Finder} \union Ids /\ ~proc[i].late
  BY TableIs DEF Entry
<1> QED
  BY <1>1 DEF Publish, KeepRest, Rest, Inv, TypeOK

-----------------------------------------------------------------------------
(* How the foreground comes about *)

\* No other operation is in the foreground.
Sole(i) == ~rushed' => \A j \in Ids \ {i} : ~Main(j)

\* Neither the result nor a flag of the foreground changes.
Light == /\ shown' = shown /\ flag'["merging"] = flag["merging"]
         /\ flag'["trashing"] = flag["trashing"]
         /\ flag'["checking"] => flag["checking"]

LEMMA SoleMain ==
  ASSUME Inv, Rest, NEW i \in Ids, Main(i)
  PROVE  Sole(i) /\ (~rushed' => Equipped(i) /\ ~flag["checking"])
BY DEF Inv, Rest, Alone, Sole

LEMMA ForeBehind ==
  ASSUME Inv, Rest, NEW i \in Ids, ~Main(i)', Light
  PROVE  Fore(i)
BY DEF Fore, Inv, Rest, Light, Alone, Historical

LEMMA ForeOver ==
  ASSUME Inv, Rest, NEW i \in Ids, proc'[i] = NoProc,
         Light \/ Main(i), flag'["checking"] => flag["checking"]
  PROVE  Fore(i)
<1>1. ~Main(i)'
  BY NoProcIs DEF Main
<1>2. CASE Light
  BY <1>1, <1>2, ForeBehind
<1>3. CASE Main(i)
  BY <1>1, <1>3, SoleMain DEF Fore, Sole
<1> QED
  BY <1>2, <1>3

LEMMA ForeMain ==
  ASSUME Inv, Rest, NEW i \in Ids, Sole(i),
         ~rushed' => Equipped(i)' /\ ~flag'["checking"]
  PROVE  Fore(i)
BY DEF Fore, Sole

\* An operation of the foreground goes on, and the result is still there.
LEMMA ForeOn ==
  ASSUME Inv, Rest, NEW i \in Ids, Main(i), shown' = shown,
         flag'["checking"] = flag["checking"],
         proc'[i].at \in OfPast => proc[i].at \in OfPast,
         proc'[i].at \in Merging => flag'["merging"] \/ (proc[i].at \in Merging /\ flag'["merging"] = flag["merging"]),
         proc'[i].at \in {"verify", "trash"} => flag'["trashing"]
  PROVE  Fore(i)
BY SoleMain, ForeMain DEF Equipped, Historical

LEMMA AnswersIs ==
  ASSUME Inv, NEW i \in Ids, NEW question \in Questions, Answers(i, question)
  PROVE  /\ Waits(i) /\ ~closing /\ proc[i].state = "asks" /\ proc[i].at = question
         /\ ~proc[i].late
         /\ question # "root" => Main(i)
BY TableIs, NoneNotJob DEF Answers, Inv, TypeOK, Waits, Barrier, Main, Preflight, Behind, Questions

LEMMA QueuedIs ==
  ASSUME NEW i \in Ids, NEW job, Queued(i, job)
  PROVE  /\ proc[i].state # "asks" /\ proc[i].state = "queued" /\ proc[i].at = job
         /\ UNCHANGED dialogs => Waits(i)
         /\ job \notin {"roots", "validate", "root"} \union Behind => Main(i)
BY DEF Queued, Waits, Main, Preflight, Behind

-----------------------------------------------------------------------------
(* Good steps of the usual kinds *)

LEMMA JobNames ==
  /\ {"probe", "sweep", "verify", "trash", "roots", "validate", "resolve", "hint",
      "relink", "scan", "refresh", "pair", "prepare", "copying", "moving", "folder",
      "load", "recompute", "tables", "photos"} \subseteq Jobs
  /\ \A job \in Jobs : job \in Preflight \union Behind <=>
       job \in {"roots", "validate"} \union Behind
BY DEF Jobs, Background, Helpers, Controlled, MergeJobs, Preflight

LEMMA GoodEnds ==
  ASSUME Inv, Rest, NEW i \in Ids, NEW ps \in Table, Near(proc, ps, i, "none"),
         proc' = Ends(ps, i), Waits(i), Light \/ Main(i),
         flag'["checking"] => flag["checking"]
  PROVE  Good(i)
<1>1. Moves(i)
  BY EndsOver
<1>2. proc'[i] = NoProc
  BY DEF Ends, Table
<1> QED
  BY <1>1, <1>2, ForeOver DEF Good

LEMMA GoodEnd ==
  ASSUME Inv, Rest, NEW i \in Ids,
         proc' = Ends(proc, i), Waits(i), Light \/ Main(i),
         flag'["checking"] => flag["checking"]
  PROVE  Good(i)
BY GoodEnds, TableIs

\* What the kind needs for the operation to go on in the foreground as x.
Grows(i, x) ==
  /\ x \in OfPast => proc[i].at \in OfPast
  /\ x \in Merging => flag'["merging"] \/ (proc[i].at \in Merging /\ flag'["merging"] = flag["merging"])
  /\ x \in {"verify", "trash"} => flag'["trashing"]

LEMMA GoodAsk ==
  ASSUME Inv, Rest, NEW i \in Ids, NEW question \in Questions, Ask(i, question),
         Main(i), proc[i].at \notin Publishers, proc[i].state # "asks", ~closing,
         shown' = shown, flag'["checking"] = flag["checking"], Grows(i, question)
  PROVE  Good(i)
BY AskOpens, ForeOn DEF Good, Grows

LEMMA GoodStart ==
  ASSUME Inv, Rest, NEW i \in Ids, NEW job \in Jobs \ {"recompute"},
         proc' = Start(proc, i, job), Waits(i), Main(i), ~proc[i].late, ~closing,
         shown' = shown, flag'["checking"] = flag["checking"], Grows(i, job)
  PROVE  Good(i)
<1>1. Moves(i) /\ proc'[i].at = job
  BY StartRuns, TableIs
<1> QED
  BY <1>1, ForeOn DEF Good, Grows

\* The tables are computed again in the background, or not if they are already.
LEMMA GoodRecompute ==
  ASSUME Inv, Rest, NEW i \in Ids, RecomputeAsync(i), Waits(i), ~closing,
         Light \/ Main(i), flag'["checking"] => flag["checking"]
  PROVE  Good(i)
<1>1. CASE Running({"recompute"})
  BY <1>1, GoodEnd DEF RecomputeAsync
<1>2. CASE ~Running({"recompute"})
  <2> DEFINE p == [By("recompute") EXCEPT !.res = TRUE, !.items = proc[i].items]
             ps == [proc EXCEPT ![i] = p]
  <2>1. p \in Entry /\ p.late = FALSE
    BY ZenonT(60), TableIs, NoProcIn DEF By, Entry, NoProc, Ops
  <2> HIDE DEF p
  <2>2. ps \in Table /\ Near(proc, ps, i, "none") /\ ps[i] = p
    BY <2>1, SetNear, TableIs
  <2>3. proc' = Start(ps, i, "recompute")
    BY <1>2 DEF RecomputeAsync, p
  <2>4. "recompute" \in Jobs
    BY JobNames
  <2> HIDE DEF ps
  <2>5. Moves(i) /\ proc'[i].at = "recompute"
    BY <1>2, <2>1, <2>2, <2>3, <2>4, StartRuns
  <2>6. ~Main(i)'
    BY <2>5 DEF Main, Behind
  <2>7. Fore(i)
    <3>1. CASE Light
      BY <2>6, <3>1, ForeBehind
    <3>2. CASE Main(i)
      BY <2>6, <3>2, SoleMain DEF Fore, Sole
    <3> QED
      BY <3>1, <3>2
  <2> QED
    BY <2>5, <2>7 DEF Good
<1> QED
  BY <1>1, <1>2

-----------------------------------------------------------------------------
(* Jobs started in a table that has been changed *)

LEMMA ByIn ==
  ASSUME NEW op \in Ops
  PROVE  /\ By(op) \in Entry /\ ~By(op).late
         /\ WithToken(By(op)) \in Entry /\ ~WithToken(By(op)).late
         /\ \A x \in BOOLEAN : LET p == [By(op) EXCEPT !.fresh = x] IN p \in Entry /\ ~p.late
<1>1. NoProc \in Entry /\ ~NoProc.late
  BY NoProcIn, NoProcIs
<1>2. By(op) \in Entry /\ ~By(op).late
  BY <1>1 DEF By, Entry
<1>3. WithToken(By(op)) \in Entry /\ ~WithToken(By(op)).late
  BY <1>2 DEF WithToken, Entry
<1>4. ASSUME NEW x \in BOOLEAN
      PROVE  [By(op) EXCEPT !.fresh = x] \in Entry /\ ~[By(op) EXCEPT !.fresh = x].late
  BY <1>2 DEF Entry
<1> QED
  BY <1>2, <1>3, <1>4

LEMMA WithIn ==
  ASSUME NEW p \in Entry
  PROVE  /\ WithResult(p) \in Entry /\ WithResult(p).late = p.late
         /\ \A x \in {"no", "auto", "given"} :
              LET q == [p EXCEPT !.asked = x] IN
              /\ q \in Entry /\ q.late = p.late /\ q.at = p.at
              /\ q.state = p.state /\ q.held = p.held
         /\ LET q == [p EXCEPT !.ev = TRUE] IN
              /\ q \in Entry /\ q.late = p.late /\ q.at = p.at
              /\ q.state = p.state /\ q.held = p.held
         /\ LET q == [p EXCEPT !.tok = TRUE, !.ev = TRUE] IN
              /\ q \in Entry /\ q.late = p.late /\ q.at = p.at
              /\ q.state = p.state /\ q.held = p.held
         /\ LET q == [p EXCEPT !.fresh = TRUE] IN q \in Entry /\ q.late = p.late
         /\ LET q == [p EXCEPT !.res = TRUE] IN q \in Entry /\ q.late = p.late
<1>1. WithResult(p) \in Entry /\ WithResult(p).late = p.late
  BY DEF WithResult, Entry
<1>2. ASSUME NEW x \in {"no", "auto", "given"}
      PROVE  LET q == [p EXCEPT !.asked = x] IN
             /\ q \in Entry /\ q.late = p.late /\ q.at = p.at
             /\ q.state = p.state /\ q.held = p.held
  BY DEF Entry
<1>3. LET q == [p EXCEPT !.tok = TRUE, !.ev = TRUE] IN
      /\ q \in Entry /\ q.late = p.late /\ q.at = p.at
      /\ q.state = p.state /\ q.held = p.held
  BY DEF Entry
<1>4. /\ LET q == [p EXCEPT !.fresh = TRUE] IN q \in Entry /\ q.late = p.late
      /\ LET q == [p EXCEPT !.res = TRUE] IN q \in Entry /\ q.late = p.late
  BY DEF Entry
<1>5. LET q == [p EXCEPT !.ev = TRUE] IN
      /\ q \in Entry /\ q.late = p.late /\ q.at = p.at
      /\ q.state = p.state /\ q.held = p.held
  BY DEF Entry
<1> QED
  BY <1>1, <1>2, <1>3, <1>4, <1>5

\* The entry of the operation is set before its job is started.
LEMMA SetStart ==
  ASSUME Inv, NEW i \in Ids, NEW p \in Entry, ~p.late, NEW job \in Jobs \ {"recompute"},
         proc' = Start([proc EXCEPT ![i] = p], i, job), Waits(i),
         closing => Passes(i, job)
  PROVE  Moves(i) /\ proc'[i].at = job
<1>1. proc \in Table
  BY TableIs
<1>2. /\ [proc EXCEPT ![i] = p] \in Table /\ [proc EXCEPT ![i] = p][i] = p
      /\ Near(proc, [proc EXCEPT ![i] = p], i, "none")
  BY <1>1, SetNear
<1> QED
  BY <1>2, StartRuns

\* What the operation was asked is set once its job has been started.
LEMMA StartSet ==
  ASSUME Inv, NEW i \in Ids, NEW ps \in Table, Near(proc, ps, i, "none"), ~ps[i].late,
         NEW job \in Jobs \ {"recompute"}, NEW p,
         LET q == Start(ps, i, job)[i] IN
           /\ p \in Entry /\ p.late = q.late /\ p.at = q.at /\ p.state = q.state /\ p.held = q.held,
         proc' = [Start(ps, i, job) EXCEPT ![i] = p], Waits(i), ~closing
  PROVE  Moves(i) /\ proc'[i].at = job
<1>1. PICK qs : qs = Start(ps, i, job)
  OBVIOUS
<1>2. /\ qs \in Table /\ Near(proc, qs, i, job)
      /\ qs[i].at = job /\ qs[i].state = "run" /\ qs[i].held /\ ~qs[i].late
  BY <1>1, StartIs
<1>3. Near(proc, proc', i, job) /\ proc'[i] = p
  BY ZenonT(60), <1>1, <1>2, SetAgain
<1> QED
  BY <1>1, <1>2, <1>3 DEF Moves, Runs

\* _begin_scan: the publishers begun before have lost the token.
LEMMA Superseding ==
  ASSUME Inv, NEW i \in Ids, NEW ps \in Table, Near(proc, ps, i, "none"),
         \A j \in Ids : ~ps[j].tok, NEW p \in Entry, ~p.late,
         NEW job \in Jobs \ {"recompute"},
         proc' = Supersedes(Start([ps EXCEPT ![i] = p], i, job), i), Waits(i), ~closing
  PROVE  Moves(i) /\ proc'[i].at = job
<1>1. PICK qs : qs = [ps EXCEPT ![i] = p]
  OBVIOUS
<1>2. qs \in Table /\ Near(ps, qs, i, "none") /\ qs[i] = p
  BY <1>1, SetNear
<1>3. Near(proc, qs, i, "none")
  BY <1>2, NearTrans, TableIs
<1>4. \A j \in Ids \ {i} : ~qs[j].tok
  BY <1>2 DEF Near, Alike
<1>5. PICK rs : rs = Start(qs, i, job)
  OBVIOUS
<1>6. /\ rs \in Table /\ Near(qs, rs, i, job) /\ Near(proc, rs, i, job)
      /\ rs[i].at = job /\ rs[i].state = "run" /\ rs[i].held /\ ~rs[i].late
  BY <1>2, <1>3, <1>5, StartNear, StartIs
<1>7. \A j \in Ids \ {i} : ~rs[j].tok
  BY <1>4, <1>6 DEF Near, Alike
<1>8. proc' = Supersedes(rs, i)
  BY <1>1, <1>5
<1>9. proc' \in Table /\ Near(rs, proc', i, "none") /\ proc'[i] = rs[i]
  BY <1>6, <1>7, <1>8, SupersedesNear
<1>10. Near(proc, proc', i, job)
  BY <1>6, <1>9, NearTrans, TableIs, NoneNotJob
<1> QED
  BY <1>6, <1>9, <1>10 DEF Moves, Runs

LEMMA BeginScanRuns ==
  ASSUME Inv, NEW i \in Ids, BeginScan(i), Waits(i), ~closing
  PROVE  Moves(i) /\ proc'[i].at = "scan"
<1>1. /\ NewToken(proc) \in Table /\ Near(proc, NewToken(proc), i, "none")
      /\ \A j \in Ids : ~NewToken(proc)[j].tok
  BY TableIs, TakenNear, TakenSelf
<1>2. PICK p \in Entry : p = WithToken(By("scan")) /\ ~p.late
  BY ByIn DEF Ops
<1>3. proc' = Supersedes(Start([NewToken(proc) EXCEPT ![i] = p], i, "scan"), i)
  BY <1>2 DEF BeginScan
<1>4. "scan" \in Jobs \ {"recompute"}
  BY JobNames
<1> HIDE DEF BeginScan
<1> QED
  BY <1>1, <1>2, <1>3, <1>4, Superseding

\* _begin_loaded_session_refresh
LEMMA BeginRefreshRuns ==
  ASSUME Inv, NEW i \in Ids, NEW ps \in Table, Near(proc, ps, i, "none"), ~ps[i].late,
         BeginRefresh(ps, i), Waits(i), ~closing
  PROVE  Moves(i) /\ proc'[i].at = "roots"
<1>1. PICK es : es = NewEvent(ps)
  OBVIOUS
<1>2. es \in Table /\ Near(proc, es, i, "none") /\ ~es[i].late
  <2>1. es \in Table /\ Near(ps, es, i, "none")
    BY <1>1, TakenNear
  <2>2. proc \in Table
    BY TableIs
  <2>3. Near(proc, es, i, "none")
    BY <2>1, <2>2, NearTrans
  <2>4. ~es[i].late
    BY <1>1, TakenSelf
  <2> QED
    BY <2>1, <2>3, <2>4
<1>3. PICK qs : qs = Start(es, i, "roots")
  OBVIOUS
<1>4. qs \in Table /\ qs[i] \in Entry
  BY <1>2, <1>3, StartIs, JobNames DEF Table
<1>5. PICK q \in Entry : /\ q = [qs[i] EXCEPT !.tok = TRUE, !.ev = TRUE]
                         /\ q.late = qs[i].late /\ q.at = qs[i].at
                         /\ q.state = qs[i].state /\ q.held = qs[i].held
  BY <1>4, WithIn
<1>6. PICK p \in Entry : /\ p = [q EXCEPT !.asked = "no"]
                         /\ p.late = q.late /\ p.at = q.at
                         /\ p.state = q.state /\ p.held = q.held
  BY WithIn
<1>7. proc' = [qs EXCEPT ![i] = p]
  BY <1>1, <1>3, <1>4, <1>5, <1>6 DEF BeginRefresh, Table
<1>8. "roots" \in Jobs \ {"recompute"}
  BY JobNames
<1>9. /\ p.late = qs[i].late /\ p.at = qs[i].at
      /\ p.state = qs[i].state /\ p.held = qs[i].held
  BY <1>5, <1>6
<1> HIDE DEF BeginRefresh
<1> QED
  BY <1>2, <1>3, <1>7, <1>8, <1>9, StartSet

LEMMA ResolveAgainRuns ==
  ASSUME Inv, NEW i \in Ids, ResolveAgain(i), ~proc[i].late, Waits(i), ~closing
  PROVE  Moves(i) /\ proc'[i].at = "resolve"
<1>1. PICK qs : qs = Start(proc, i, "resolve")
  OBVIOUS
<1>2. qs \in Table /\ qs[i] \in Entry
  BY <1>1, TableIs, StartIs, JobNames DEF Table
<1>3. PICK p \in Entry : /\ p = [qs[i] EXCEPT !.asked = "given"]
                         /\ p.late = qs[i].late /\ p.at = qs[i].at
                         /\ p.state = qs[i].state /\ p.held = qs[i].held
  BY <1>2, WithIn
<1>4. proc' = [qs EXCEPT ![i] = p]
  BY <1>1, <1>2, <1>3 DEF ResolveAgain, Table
<1>5. "resolve" \in Jobs \ {"recompute"}
  BY JobNames
<1> QED
  BY ZenonT(60), <1>1, <1>3, <1>4, <1>5, StartSet, TableIs

LEMMA BeginVerifyRuns ==
  ASSUME Inv, NEW i \in Ids, NEW fresh \in BOOLEAN, BeginVerify(i, fresh), Waits(i), ~closing
  PROVE  Moves(i) /\ proc'[i].at = "verify"
<1>1. PICK p \in Entry : p = [By("remove") EXCEPT !.fresh = fresh] /\ ~p.late
  BY ByIn DEF Ops
<1>2. proc' = Start([proc EXCEPT ![i] = p], i, "verify")
  BY <1>1 DEF BeginVerify
<1>3. "verify" \in Jobs \ {"recompute"}
  BY JobNames
<1> QED
  BY <1>1, <1>2, <1>3, SetStart

\* Cancelling the preparation of a refresh whose operation ends.
LEMMA PreflightEnds ==
  ASSUME Inv, Rest, NEW i \in Ids, CancelPreflight(Ends(proc, i)), Waits(i),
         Light \/ Main(i)
  PROVE  Good(i)
<1>1. proc \in Table
  BY TableIs
<1>2. NewEvent(proc) \in Table /\ Near(proc, NewEvent(proc), i, "none")
  BY <1>1, TakenNear
<1>3. NewEvent(Ends(proc, i)) = Ends(NewEvent(proc), i)
  BY <1>1, EntrySame, NoProcIn, NoProcIs DEF NewEvent, Ends, Table
<1>4. ~flag'["checking"]
  BY FlagSet DEF CancelPreflight, Flags
<1> QED
  BY <1>2, <1>3, <1>4, GoodEnds DEF CancelPreflight

\* An operation that lets the preparation of a refresh begin.
LEMMA ForeRaises ==
  ASSUME Inv, Rest, NEW i \in Ids, Main(i), ~Main(i)', ~rushed' => Historical'
  PROVE  Fore(i)
BY SoleMain DEF Fore, Sole

-----------------------------------------------------------------------------
(* The signals and the answers: removals and merges *)

LEMMA BarredGood ==
  ASSUME Inv, NEW i \in Ids, Barred(i)
  PROVE  Good(i)
<1>1. Rest /\ Light
  BY RestKept, FlagKept DEF Barred, InLine, Light, Flags
<1>2. Waits(i)
  BY DEF Barred, InLine, Waits
<1> QED
  BY <1>1, <1>2, GoodEnd DEF Barred, Light


LEMMA VerifiedGood ==
  ASSUME Inv, NEW i \in Ids, Verified(i)
  PROVE  Good(i)
<1>1. /\ proc[i].at = "verify" /\ proc[i].state = "queued" /\ Main(i) /\ ~closing
      /\ UNCHANGED dialogs => Waits(i)
  BY QueuedIs DEF Verified, Delivers, Background, Behind
<1>2. Rest /\ shown' = shown /\ flag'["checking"] = flag["checking"]
  BY FlagSet, RestKept DEF Verified, Flags
<1>3. CASE Ask(i, "trashing")
  BY <1>1, <1>2, <1>3, GoodAsk DEF Grows, OfPast, Merging, MergeJobs, Questions, Publishers
<1>4. CASE proc' = Ends(proc, i) /\ UNCHANGED dialogs
  BY <1>1, <1>2, <1>4, GoodEnd
<1> QED
  BY <1>3, <1>4 DEF Verified


LEMMA TrashConfirmedGood ==
  ASSUME Inv, NEW i \in Ids, TrashConfirmed(i)
  PROVE  Good(i)
<1>1. /\ proc[i].at = "trashing" /\ Main(i) /\ ~closing /\ Waits(i) /\ ~proc[i].late
  BY AnswersIs DEF TrashConfirmed, Questions
<1>2. CASE proc' = Start(proc, i, "trash") /\ Flag("trashing", TRUE)
  <2>1. /\ Rest /\ shown' = shown /\ flag'["checking"] = flag["checking"]
        /\ flag'["trashing"]
    BY <1>2, FlagSet, RestKept DEF TrashConfirmed, Flags
  <2> QED
    BY <1>1, <1>2, <2>1, GoodStart, JobNames DEF Grows, OfPast, Merging, MergeJobs
<1>3. CASE proc' = Ends(proc, i) /\ UNCHANGED flag
  <2>1. Rest
    BY <1>3, FlagKept, RestKept DEF TrashConfirmed
  <2> QED
    BY <1>1, <1>3, <2>1, GoodEnd
<1> QED
  BY <1>2, <1>3 DEF TrashConfirmed


LEMMA TrashedGood ==
  ASSUME Inv, NEW i \in Ids, Trashed(i)
  PROVE  Good(i)
<1>1. Main(i) /\ ~closing /\ Waits(i)
  BY QueuedIs DEF Trashed, Delivers, Background, InLine, Behind
<1>2. Rest /\ shown' = shown /\ flag'["checking"] = flag["checking"]
  BY FlagSet, RestKept DEF Trashed, Flags, InLine
<1> QED
  BY <1>1, <1>2, GoodEnd, GoodRecompute DEF Trashed


LEMMA SweptGood ==
  ASSUME Inv, NEW i \in Ids, Swept(i)
  PROVE  Good(i)
<1>1. ~closing /\ Waits(i)
  BY QueuedIs DEF Swept, Delivers, Background, InLine, Behind
<1>2. Rest /\ Light
  BY FlagSet, RestKept DEF Swept, Flags, InLine, Light
<1> QED
  BY <1>1, <1>2, GoodEnd, GoodRecompute DEF Swept, Light


LEMMA RecomputedGood ==
  ASSUME Inv, NEW i \in Ids, Recomputed(i)
  PROVE  Good(i)
<1>1. Waits(i) /\ proc[i].at = "recompute"
  BY QueuedIs DEF Recomputed, InLine
<1>2. Rest /\ Light
  BY FlagKept, RestKept DEF Recomputed, Flags, InLine, Light
<1>3. CASE proc' = Ends(proc, i)
  BY <1>1, <1>2, <1>3, GoodEnd DEF Light
<1>4. CASE proc' = Start([proc EXCEPT ![i] = By("recompute")], i, "tables")
  <2>1. PICK p \in Entry : p = By("recompute") /\ ~p.late
    BY ByIn DEF Ops
  <2>2. proc' = Start([proc EXCEPT ![i] = p], i, "tables")
    BY <1>4, <2>1
  <2>3. Moves(i) /\ proc'[i].at = "tables"
    BY <1>1, <2>1, <2>2, SetStart, JobNames DEF Passes
  <2>4. Fore(i)
    BY <1>2, <2>3, ForeBehind DEF Main, Behind
  <2> QED
    BY <1>2, <2>3, <2>4 DEF Good
<1> QED
  BY <1>3, <1>4 DEF Recomputed


LEMMA TablesReadyGood ==
  ASSUME Inv, NEW i \in Ids, TablesReady(i)
  PROVE  Good(i)
<1>1. Waits(i)
  BY QueuedIs DEF TablesReady, Delivers, InLine
<1>2. Rest /\ Light
  BY FlagKept, RestKept DEF TablesReady, Flags, InLine, Light
<1> QED
  BY <1>1, <1>2, GoodEnd DEF TablesReady, Light


\* The scan of photos that is over may let go of another that runs.
LEMMA PhotosDoneGood ==
  ASSUME Inv, NEW i \in Ids, PhotosDone(i)
  PROVE  Good(i)
<1>1. Waits(i)
  BY QueuedIs DEF PhotosDone, InLine
<1>2. Rest /\ Light
  BY FlagKept, RestKept DEF PhotosDone, Flags, InLine, Light
<1> DEFINE ps == [j \in Ids |-> IF proc[j].at = "photos"
                               THEN [proc[j] EXCEPT !.held = FALSE] ELSE proc[j]]
<1>3. proc' = Ends(ps, i)
  BY DEF PhotosDone
<1>4. \A j \in Ids : proc[j] \in Entry
  BY TableIs DEF Table
<1>5. ps \in Table
  BY <1>4, EntrySet DEF Table
<1>6. \A j \in Ids : /\ Alike(proc[j], ps[j])
                     /\ ps[j].held = proc[j].held \/ proc[j].at = "photos"
  BY <1>4, AlikeTaken, AlikeSelf
<1> HIDE DEF ps
<1>7. Near(proc, ps, i, "none")
  BY <1>5, <1>6 DEF Near
<1> QED
  BY <1>1, <1>2, <1>3, <1>5, <1>7, GoodEnds DEF Light


LEMMA UnmanagedGood ==
  ASSUME Inv, NEW i \in Ids, Unmanaged(i)
  PROVE  Good(i)
<1>1. Waits(i)
  BY QueuedIs DEF Unmanaged, InLine, Behind
<1>2. Rest /\ Light
  BY FlagKept, RestKept DEF Unmanaged, Flags, InLine, Light
<1> QED
  BY <1>1, <1>2, GoodEnd DEF Unmanaged, Light


LEMMA CopiedGood ==
  ASSUME Inv, NEW i \in Ids, Copied(i)
  PROVE  Good(i)
<1>1. Main(i) /\ Waits(i)
  BY QueuedIs DEF Copied, Managed, InLine, Behind
<1>2. Rest /\ shown' = shown /\ flag'["checking"] = flag["checking"]
  BY FlagSet, RestKept DEF Copied, Flags, InLine
<1> QED
  BY <1>1, <1>2, GoodEnd DEF Copied


\* _sim_merge_finish lowers the flag of the merge that has the window to itself.
LEMMA FinishGood ==
  ASSUME Inv, NEW i \in Ids, Finish(i), Main(i), ~closing, Waits(i),
         KeepShown, KeepRest
  PROVE  Good(i)
<1>1. Rest /\ shown' = shown /\ flag'["checking"] = flag["checking"]
  BY FlagSet, RestKept DEF Finish, Flags
<1> QED
  BY <1>1, GoodEnd, GoodRecompute DEF Finish

LEMMA MovedGood ==
  ASSUME Inv, NEW i \in Ids, Moved(i)
  PROVE  Good(i)
<1>1. /\ proc[i].at = "moving" /\ proc[i].state = "queued" /\ Main(i) /\ ~closing
      /\ UNCHANGED dialogs => Waits(i)
  BY QueuedIs DEF Moved, Managed, Behind
<1>2. CASE Finish(i) /\ UNCHANGED dialogs
  BY <1>1, <1>2, FinishGood DEF Moved
<1>3. ASSUME NEW question \in {"told", "source"}, Ask(i, question), UNCHANGED flag
      PROVE  Good(i)
  <2>1. Rest /\ shown' = shown /\ flag' = flag
    BY <1>3, FlagKept, RestKept DEF Moved
  <2> QED
    BY <1>1, <1>3, <2>1, GoodAsk DEF Grows, OfPast, Merging, MergeJobs, Questions, Publishers
<1>4. CASE proc' = Ends(proc, i) /\ Flag("merging", FALSE) /\ UNCHANGED dialogs
  <2>1. Rest /\ flag'["checking"] = flag["checking"]
    BY <1>4, FlagSet, RestKept DEF Moved, Flags
  <2> QED
    BY <1>1, <1>4, <2>1, GoodEnd
<1> QED
  BY <1>2, <1>3, <1>4 DEF Moved


LEMMA FolderTrashedGood ==
  ASSUME Inv, NEW i \in Ids, FolderTrashed(i)
  PROVE  Good(i)
<1>1. /\ proc[i].at = "folder" /\ proc[i].state = "queued" /\ Main(i) /\ ~closing
      /\ UNCHANGED dialogs => Waits(i)
  BY QueuedIs DEF FolderTrashed, Managed, Behind
<1>2. CASE Finish(i) /\ UNCHANGED dialogs
  BY <1>1, <1>2, FinishGood DEF FolderTrashed
<1>3. CASE Ask(i, "told") /\ UNCHANGED flag
  <2>1. Rest /\ shown' = shown /\ flag' = flag
    BY <1>3, FlagKept, RestKept DEF FolderTrashed
  <2> QED
    BY <1>1, <1>3, <2>1, GoodAsk DEF Grows, OfPast, Merging, MergeJobs, Questions, Publishers
<1> QED
  BY <1>2, <1>3 DEF FolderTrashed


LEMMA ToldGood ==
  ASSUME Inv, NEW i \in Ids, Told(i)
  PROVE  Good(i)
<1>1. Main(i) /\ ~closing /\ Waits(i)
  BY AnswersIs DEF Told, Questions
<1> QED
  BY <1>1, FinishGood DEF Told


LEMMA SourceAnsweredGood ==
  ASSUME Inv, NEW i \in Ids, SourceAnswered(i)
  PROVE  Good(i)
<1>1. /\ proc[i].at = "source" /\ Main(i) /\ ~closing /\ Waits(i) /\ ~proc[i].late
  BY AnswersIs DEF SourceAnswered, Questions
<1>2. CASE proc' = Start(proc, i, "folder") /\ UNCHANGED flag
  <2>1. Rest /\ shown' = shown /\ flag' = flag
    BY <1>2, FlagKept, RestKept DEF SourceAnswered
  <2> QED
    BY <1>1, <1>2, <2>1, GoodStart, JobNames DEF Grows, OfPast, Merging, MergeJobs
<1>3. CASE Finish(i)
  BY <1>1, <1>3, FinishGood DEF SourceAnswered
<1> QED
  BY <1>2, <1>3 DEF SourceAnswered


LEMMA PlanAnsweredGood ==
  ASSUME Inv, NEW i \in Ids, PlanAnswered(i)
  PROVE  Good(i)
<1>1. /\ proc[i].at = "plan" /\ Main(i) /\ ~closing /\ Waits(i) /\ ~proc[i].late
  BY AnswersIs DEF PlanAnswered, Questions
<1>2. ASSUME NEW job \in {"copying", "moving"}, proc' = Start(proc, i, job), UNCHANGED flag
      PROVE  Good(i)
  <2>1. Rest /\ shown' = shown /\ flag' = flag
    BY <1>2, FlagKept, RestKept DEF PlanAnswered
  <2> QED
    BY <1>1, <1>2, <2>1, GoodStart, JobNames DEF Grows, OfPast, Merging, MergeJobs
<1>3. CASE proc' = Ends(proc, i) /\ Flag("merging", FALSE)
  <2>1. Rest /\ flag'["checking"] = flag["checking"]
    BY <1>3, FlagSet, RestKept DEF PlanAnswered, Flags
  <2> QED
    BY <1>1, <1>3, <2>1, GoodEnd
<1> QED
  BY <1>2, <1>3 DEF PlanAnswered


LEMMA MergePreparedGood ==
  ASSUME Inv, NEW i \in Ids, MergePrepared(i)
  PROVE  Good(i)
<1>1. /\ proc[i].at = "prepare" /\ proc[i].state = "queued" /\ Main(i)
      /\ UNCHANGED dialogs => Waits(i)
  BY QueuedIs DEF MergePrepared, Behind
<1>2. CASE proc' = Ends(proc, i) /\ UNCHANGED <<dialogs, flag>>
  <2>1. Rest /\ flag' = flag
    BY <1>2, FlagKept, RestKept DEF MergePrepared
  <2> QED
    BY <1>1, <1>2, <2>1, GoodEnd
<1>3. CASE proc' = Ends(proc, i) /\ Flag("merging", FALSE) /\ UNCHANGED dialogs
  <2>1. Rest /\ flag'["checking"] = flag["checking"]
    BY <1>3, FlagSet, RestKept DEF MergePrepared, Flags
  <2> QED
    BY <1>1, <1>3, <2>1, GoodEnd
<1>4. ASSUME NEW question \in {"source", "plan"}, Ask(i, question), UNCHANGED flag, ~closing
      PROVE  Good(i)
  <2>1. Rest /\ shown' = shown /\ flag' = flag
    BY <1>4, FlagKept, RestKept DEF MergePrepared
  <2> QED
    BY <1>1, <1>4, <2>1, GoodAsk DEF Grows, OfPast, Merging, MergeJobs, Questions, Publishers
<1> QED
  BY <1>2, <1>3, <1>4 DEF MergePrepared


-----------------------------------------------------------------------------
(* The signals and the answers: scans, sessions, refreshes and pairs *)

LEMMA ProbedGood ==
  ASSUME Inv, NEW i \in Ids, Probed(i)
  PROVE  Good(i)
<1>1. /\ proc[i].at = "probe" /\ proc[i].state = "queued" /\ Main(i) /\ ~closing
      /\ UNCHANGED dialogs => Waits(i)
  BY QueuedIs DEF Probed, Delivers, Background, Behind
<1>2. CASE BeginScan(i) /\ Lowered({"probing", "relinking"}) /\ UNCHANGED dialogs
  <2>1. /\ flag' \in [Flags -> BOOLEAN] /\ flag'["checking"] = flag["checking"]
    BY <1>2 DEF Lowered, Flags, Inv, TypeOK
  <2>2. Rest /\ shown' = shown
    BY <2>1, RestKept DEF Probed
  <2>3. Moves(i) /\ proc'[i].at = "scan"
    BY <1>1, <1>2, BeginScanRuns
  <2>4. Fore(i)
    BY <1>1, <2>1, <2>2, <2>3, ForeOn DEF OfPast, Merging, MergeJobs
  <2> QED
    BY <2>2, <2>3, <2>4 DEF Good
<1>3. CASE Ask(i, "storage") /\ Flag("probing", FALSE)
  <2>1. Rest /\ shown' = shown /\ flag'["checking"] = flag["checking"]
    BY <1>3, FlagSet, RestKept DEF Probed, Flags
  <2> QED
    BY <1>1, <1>3, <2>1, GoodAsk DEF Grows, OfPast, Merging, MergeJobs, Questions, Publishers
<1>4. CASE proc' = Ends(proc, i) /\ Flag("probing", FALSE) /\ UNCHANGED dialogs
  <2>1. Rest /\ flag'["checking"] = flag["checking"]
    BY <1>4, FlagSet, RestKept DEF Probed, Flags
  <2> QED
    BY <1>1, <1>4, <2>1, GoodEnd
<1> QED
  BY <1>2, <1>3, <1>4 DEF Probed


LEMMA ScanAnsweredGood ==
  ASSUME Inv, NEW i \in Ids, ScanAnswered(i)
  PROVE  Good(i)
<1>1. Main(i) /\ ~closing /\ Waits(i) /\ proc[i].at \in {"storage", "picker"}
  BY AnswersIs DEF ScanAnswered, Questions
<1>2. CASE BeginScan(i) /\ Flag("relinking", FALSE)
  <2>1. Rest /\ shown' = shown /\ flag'["checking"] = flag["checking"]
    BY <1>2, FlagSet, RestKept DEF ScanAnswered, Flags
  <2>2. Moves(i) /\ proc'[i].at = "scan"
    BY <1>1, <1>2, BeginScanRuns
  <2>3. Fore(i)
    BY <1>1, <2>1, <2>2, ForeOn DEF OfPast, Merging, MergeJobs
  <2> QED
    BY <2>1, <2>2, <2>3 DEF Good
<1>3. CASE proc' = Ends(proc, i) /\ UNCHANGED flag
  <2>1. Rest /\ flag' = flag
    BY <1>3, FlagKept, RestKept DEF ScanAnswered
  <2> QED
    BY <1>1, <1>3, <2>1, GoodEnd
<1> QED
  BY <1>2, <1>3 DEF ScanAnswered


\* The table without the token and the result.
LEMMA NewBoth ==
  ASSUME Inv, NEW i \in Ids
  PROVE  /\ NewToken(NewResult(proc)) \in Table
         /\ Near(proc, NewToken(NewResult(proc)), i, "none")
<1>1. proc \in Table
  BY TableIs
<1>2. NewResult(proc) \in Table /\ Near(proc, NewResult(proc), i, "none")
  BY <1>1, TakenNear
<1>3. /\ NewToken(NewResult(proc)) \in Table
      /\ Near(NewResult(proc), NewToken(NewResult(proc)), i, "none")
  BY <1>2, TakenNear
<1> QED
  BY <1>1, <1>2, <1>3, NearTrans

LEMMA ScanDoneGood ==
  ASSUME Inv, NEW i \in Ids, ScanDone(i)
  PROVE  Good(i)
<1>1. proc[i].at = "scan" /\ Main(i) /\ Waits(i) /\ proc[i].state = "queued"
  BY QueuedIs DEF ScanDone, Behind
<1>2. CASE /\ proc[i].tok /\ proc' = Ends(NewToken(NewResult(proc)), i)
           /\ proc[i].out # "failed"
           /\ Publish(i, proc[i].out) /\ Flag("relinking", FALSE)
  <2>1. flag' \in [Flags -> BOOLEAN] /\ flag'["checking"] = flag["checking"]
    BY <1>2, FlagSet DEF Flags
  <2>2. proc[i].out \in {"live", "partial", "past"}
    BY <1>1, <1>2 DEF Inv, Reported
  <2>3. Rest
    BY <1>2, <2>1, <2>2, RestShown DEF ScanDone
  <2> QED
    BY <1>1, <1>2, <2>1, <2>3, GoodEnds, NewBoth
<1>3. CASE proc' = Ends(proc, i) /\ KeepShown /\ UNCHANGED flag
  <2>1. Rest /\ flag' = flag
    BY <1>3, FlagKept, RestKept DEF ScanDone
  <2> QED
    BY <1>1, <1>3, <2>1, GoodEnd
<1> QED
  BY <1>2, <1>3 DEF ScanDone


LEMMA RefreshDoneGood ==
  ASSUME Inv, NEW i \in Ids, RefreshDone(i)
  PROVE  Good(i)
<1>1. proc[i].at = "refresh" /\ Main(i) /\ Waits(i) /\ proc[i].state = "queued"
  BY QueuedIs DEF RefreshDone, Behind
<1>2. CASE /\ proc[i].tok /\ proc' = Ends(NewToken(NewResult(proc)), i)
           /\ proc[i].out = "live"
           /\ Publish(i, "live") /\ Flag("relinking", FALSE)
  <2>1. flag' \in [Flags -> BOOLEAN] /\ flag'["checking"] = flag["checking"]
    BY <1>2, FlagSet DEF Flags
  <2>2. "live" \in {"live", "partial", "past"}
    BY <1>1, <1>2 DEF Inv, Reported
  <2>3. Rest
    BY <1>2, <2>1, <2>2, RestShown DEF RefreshDone
  <2> QED
    BY <1>1, <1>2, <2>1, <2>3, GoodEnds, NewBoth
<1>3. CASE proc' = Ends(proc, i) /\ KeepShown /\ UNCHANGED flag
  <2>1. Rest /\ flag' = flag
    BY <1>3, FlagKept, RestKept DEF RefreshDone
  <2> QED
    BY <1>1, <1>3, <2>1, GoodEnd
<1> QED
  BY <1>2, <1>3 DEF RefreshDone


LEMMA SessionLoadedGood ==
  ASSUME Inv, NEW i \in Ids, SessionLoaded(i)
  PROVE  Good(i)
<1>1. proc[i].at = "load" /\ Main(i) /\ Waits(i)
  BY QueuedIs DEF SessionLoaded, Behind
<1>2. CASE /\ LoadActive(i) /\ Publish(i, "past")
           /\ proc' = Ends(NewResult(proc), i) /\ Flag("loading", FALSE)
  <2>1. flag' \in [Flags -> BOOLEAN] /\ flag'["checking"] = flag["checking"]
    BY <1>2, FlagSet DEF Flags
  <2>2. Rest
    BY <1>2, <2>1, RestShown DEF SessionLoaded, LoadActive
  <2>3. NewResult(proc) \in Table /\ Near(proc, NewResult(proc), i, "none")
    BY TableIs, TakenNear
  <2> QED
    BY <1>1, <1>2, <2>1, <2>2, <2>3, GoodEnds
<1>3. CASE /\ LoadActive(i) /\ Publish(i, "past")
           /\ BeginRefresh([NewResult(proc) EXCEPT ![i].res = TRUE], i)
           /\ flag' = [flag EXCEPT !["loading"] = FALSE, !["checking"] = TRUE]
  <2>1. flag' \in [Flags -> BOOLEAN]
    BY <1>3 DEF Flags, Inv, TypeOK
  <2>2. Rest /\ shown' = "past"
    BY <1>3, <2>1, RestShown DEF SessionLoaded, LoadActive
  <2>3. PICK qs : qs = NewResult(proc)
    OBVIOUS
  <2>4. /\ qs \in Table /\ qs[i] \in Entry /\ Near(proc, qs, i, "none")
        /\ qs[i].late = proc[i].late
    BY <2>3, TableIs, TakenNear, TakenSelf DEF Table
  <2>5. PICK p \in Entry : p = [qs[i] EXCEPT !.res = TRUE] /\ p.late = qs[i].late
    BY <2>4, WithIn
  <2>6. PICK ps : ps = [qs EXCEPT ![i] = p]
    OBVIOUS
  <2>7. ps \in Table /\ Near(qs, ps, i, "none") /\ ps[i] = p
    BY ZenonT(60), <2>4, <2>6, SetNear
  <2>8. Near(proc, ps, i, "none")
    BY <2>4, <2>7, NearTrans, TableIs
  <2>9. BeginRefresh(ps, i)
    BY <1>3, <2>3, <2>4, <2>5, <2>6 DEF Table
  <2>10. ~ps[i].late /\ ~closing
    BY <1>3, <2>4, <2>5, <2>7, TableIs DEF LoadActive
  <2>11. Moves(i) /\ proc'[i].at = "roots"
    BY <1>1, <2>7, <2>8, <2>9, <2>10, BeginRefreshRuns
  <2>12. Fore(i)
    BY <1>1, <2>2, <2>11, ForeRaises DEF Main, Preflight, Historical
  <2> QED
    BY <2>2, <2>11, <2>12 DEF Good
<1>4. CASE proc' = Ends(proc, i) /\ Flag("loading", FALSE) /\ KeepShown
  <2>1. Rest /\ flag'["checking"] = flag["checking"]
    BY <1>4, FlagSet, RestKept DEF SessionLoaded, Flags
  <2> QED
    BY <1>1, <1>4, <2>1, GoodEnd
<1>5. CASE proc' = Ends(proc, i) /\ UNCHANGED flag /\ KeepShown
  <2>1. Rest /\ flag' = flag
    BY <1>5, FlagKept, RestKept DEF SessionLoaded
  <2> QED
    BY <1>1, <1>5, <2>1, GoodEnd
<1> HIDE DEF BeginRefresh, LoadActive, Publish
<1> QED
  BY <1>2, <1>3, <1>4, <1>5 DEF SessionLoaded


LEMMA RefreshConfirmedGood ==
  ASSUME Inv, NEW i \in Ids, RefreshConfirmed(i)
  PROVE  Good(i)
<1>1. /\ proc[i].at = "confirm" /\ Main(i) /\ ~closing /\ Waits(i) /\ ~proc[i].late
  BY AnswersIs DEF RefreshConfirmed, Questions
<1>2. CASE BeginRefresh(proc, i) /\ Flag("checking", TRUE)
  <2>1. Rest /\ shown' = shown
    BY <1>2, FlagSet, RestKept DEF RefreshConfirmed, Flags
  <2>2. Moves(i) /\ proc'[i].at = "roots"
    BY <1>1, <1>2, BeginRefreshRuns, TableIs
  <2>3. ~rushed' => Historical'
    BY <1>1, <2>1, SoleMain DEF Equipped, OfPast, Historical
  <2>4. Fore(i)
    BY <1>1, <2>1, <2>2, <2>3, ForeRaises DEF Main, Preflight
  <2> QED
    BY <2>1, <2>2, <2>4 DEF Good
<1>3. CASE proc' = Ends(proc, i) /\ UNCHANGED flag
  <2>1. Rest /\ flag' = flag
    BY <1>3, FlagKept, RestKept DEF RefreshConfirmed
  <2> QED
    BY <1>1, <1>3, <2>1, GoodEnd
<1> QED
  BY <1>2, <1>3 DEF RefreshConfirmed


\* Another look at the roots is started while the refresh is prepared.
LEMMA RootsAgain ==
  ASSUME Inv, Rest, NEW i \in Ids, NEW job \in {"roots", "validate"}, ~proc[i].late,
         NEW p, LET q == Start(proc, i, job)[i] IN
                  /\ p \in Entry /\ p.late = q.late /\ p.at = q.at
                  /\ p.state = q.state /\ p.held = q.held,
         proc' = [Start(proc, i, job) EXCEPT ![i] = p], Waits(i), ~closing, Light
  PROVE  Good(i)
<1>1. job \in Jobs \ {"recompute"}
  BY JobNames
<1>2. Moves(i) /\ proc'[i].at = job
  BY <1>1, StartSet, TableIs
<1>3. Fore(i)
  BY <1>2, ForeBehind DEF Main, Preflight
<1> QED
  BY <1>2, <1>3 DEF Good

LEMMA RootsCheckedGood ==
  ASSUME Inv, NEW i \in Ids, RootsChecked(i)
  PROVE  Good(i)
<1>1. /\ proc[i].at = "roots" /\ proc[i].state = "queued" /\ ~closing /\ ~proc[i].late
      /\ UNCHANGED dialogs => Waits(i)
  BY QueuedIs, TableIs DEF RootsChecked, Delivers, Helpers, Publishers
<1>2. CASE proc' = [Start(proc, i, "roots") EXCEPT ![i].asked = "auto"] /\ UNCHANGED <<dialogs, flag>>
  <2>1. Rest /\ Light
    BY <1>2, FlagKept, RestKept DEF RootsChecked, Light
  <2>2. PICK qs : qs = Start(proc, i, "roots")
    OBVIOUS
  <2>3. qs \in Table /\ qs[i] \in Entry
    BY <2>2, TableIs, StartIs, JobNames DEF Table
  <2>4. PICK p \in Entry : /\ p = [qs[i] EXCEPT !.asked = "auto"]
                           /\ p.late = qs[i].late /\ p.at = qs[i].at
                           /\ p.state = qs[i].state /\ p.held = qs[i].held
    BY <2>3, WithIn
  <2>5. proc' = [qs EXCEPT ![i] = p]
    BY <1>2, <2>2, <2>3, <2>4 DEF Table
  <2>6. /\ p.late = qs[i].late /\ p.at = qs[i].at
        /\ p.state = qs[i].state /\ p.held = qs[i].held
    BY <2>4
  <2> HIDE DEF Light
  <2>7. Waits(i)
    BY <1>1, <1>2
  <2> QED
    BY <1>1, <2>1, <2>2, <2>5, <2>6, <2>7, RootsAgain
<1>3. CASE Ask(i, "root") /\ UNCHANGED flag
  <2>1. Rest /\ Light
    BY <1>3, FlagKept, RestKept DEF RootsChecked, Light
  <2>2. Moves(i) /\ proc'[i].at = "root"
    BY <1>1, <1>3, AskOpens DEF Questions, Publishers
  <2>3. Fore(i)
    BY <2>1, <2>2, ForeBehind DEF Main, Preflight
  <2> QED
    BY <2>1, <2>2, <2>3 DEF Good
<1>4. CASE /\ RefreshWanted(i) /\ proc' = NewEvent(Start(proc, i, "refresh"))
           /\ Flag("checking", FALSE) /\ UNCHANGED dialogs
  <2>1. Rest /\ shown' = shown /\ ~flag'["checking"] /\ rushed' = rushed
    BY <1>4, FlagSet, RestKept DEF RootsChecked, Flags
  <2>2. ~rushed' => Historical' /\ \A j \in Ids : ~Main(j)
    BY <1>4, <2>1 DEF Inv, Alone, RefreshWanted, Historical
  <2>3. PICK qs : qs = Start(proc, i, "refresh")
    OBVIOUS
  <2>4. /\ qs \in Table /\ Near(proc, qs, i, "refresh")
        /\ qs[i].at = "refresh" /\ qs[i].state = "run" /\ qs[i].held /\ ~qs[i].late
    BY <1>1, <2>3, TableIs, StartIs, JobNames
  <2>5. /\ proc' \in Table /\ Near(qs, proc', i, "none")
        /\ proc'[i].at = "refresh" /\ proc'[i].state = "run" /\ proc'[i].held /\ ~proc'[i].late
    BY <1>4, <2>3, <2>4, TakenNear, TakenSelf
  <2>6. Near(proc, proc', i, "refresh")
    BY <2>4, <2>5, NearTrans, TableIs, NoneNotJob
  <2>7. Moves(i)
    BY <1>1, <1>4, <2>5, <2>6, JobNames DEF Moves, Runs
  <2>8. Fore(i)
    BY <2>1, <2>2, <2>5, ForeMain DEF Sole, Equipped, Merging, MergeJobs
  <2> QED
    BY <2>1, <2>7, <2>8 DEF Good
<1>5. CASE CancelPreflight(Ends(proc, i)) /\ UNCHANGED dialogs
  <2>1. Rest /\ Light
    BY <1>5, FlagSet, RestKept DEF RootsChecked, CancelPreflight, Flags, Light
  <2> QED
    BY <1>1, <1>5, <2>1, PreflightEnds
<1>6. CASE proc' = Ends(proc, i) /\ UNCHANGED <<dialogs, flag>>
  <2>1. Rest /\ Light
    BY <1>6, FlagKept, RestKept DEF RootsChecked, Light
  <2> QED
    BY <1>1, <1>6, <2>1, GoodEnd DEF Light
<1> HIDE DEF Ask, CancelPreflight
<1> QED
  BY <1>2, <1>3, <1>4, <1>5, <1>6 DEF RootsChecked


LEMMA RootAnsweredGood ==
  ASSUME Inv, NEW i \in Ids, RootAnswered(i)
  PROVE  Good(i)
<1>1. /\ proc[i].at = "root" /\ ~closing /\ Waits(i) /\ ~proc[i].late
  BY AnswersIs DEF RootAnswered, Questions
<1>2. CASE proc' = Start(proc, i, "validate") /\ UNCHANGED flag
  <2>1. Rest /\ Light
    BY <1>2, FlagKept, RestKept DEF RootAnswered, Light
  <2>2. "validate" \in Jobs \ {"recompute"}
    BY JobNames
  <2>3. Moves(i) /\ proc'[i].at = "validate"
    BY <1>1, <1>2, <2>2, StartRuns, TableIs
  <2>4. Fore(i)
    BY <2>1, <2>3, ForeBehind DEF Main, Preflight
  <2> QED
    BY <2>1, <2>3, <2>4 DEF Good
<1>3. CASE CancelPreflight(Ends(proc, i))
  <2>1. Rest /\ Light
    BY <1>3, FlagSet, RestKept DEF RootAnswered, CancelPreflight, Flags, Light
  <2> QED
    BY <1>1, <1>3, <2>1, PreflightEnds
<1> QED
  BY <1>2, <1>3 DEF RootAnswered


LEMMA RootValidatedGood ==
  ASSUME Inv, NEW i \in Ids, RootValidated(i)
  PROVE  Good(i)
<1>1. /\ proc[i].at = "validate" /\ ~closing /\ ~proc[i].late /\ Waits(i)
  BY QueuedIs, TableIs DEF RootValidated, Delivers, Helpers, Publishers, InLine
<1>2. CASE /\ proc' = [Start(proc, i, "roots") EXCEPT ![i].ev = TRUE, ![i].asked = "given"]
           /\ proc[i].tok /\ UNCHANGED flag
  <2>1. Rest /\ Light
    BY <1>2, FlagKept, RestKept DEF RootValidated, InLine, Light
  <2>2. PICK qs : qs = Start(proc, i, "roots")
    OBVIOUS
  <2>3. qs \in Table /\ qs[i] \in Entry
    BY <2>2, TableIs, StartIs, JobNames DEF Table
  <2>4. PICK q \in Entry : /\ q = [qs[i] EXCEPT !.ev = TRUE]
                           /\ q.late = qs[i].late /\ q.at = qs[i].at
                           /\ q.state = qs[i].state /\ q.held = qs[i].held
    BY <2>3, WithIn
  <2>5. PICK p \in Entry : /\ p = [q EXCEPT !.asked = "given"]
                           /\ p.late = q.late /\ p.at = q.at
                           /\ p.state = q.state /\ p.held = q.held
    BY WithIn
  <2>6. proc' = [qs EXCEPT ![i] = p]
    BY <1>2, <2>2, <2>3, <2>4, <2>5 DEF Table
  <2>7. /\ p.late = qs[i].late /\ p.at = qs[i].at
        /\ p.state = qs[i].state /\ p.held = qs[i].held
    BY <2>4, <2>5
  <2> QED
    BY <1>1, <2>1, <2>2, <2>6, <2>7, RootsAgain
<1>3. CASE CancelPreflight(Ends(proc, i))
  <2>1. Rest /\ Light
    BY <1>3, FlagSet, RestKept DEF RootValidated, CancelPreflight, Flags, Light, InLine
  <2> QED
    BY <1>1, <1>3, <2>1, PreflightEnds
<1>4. CASE proc' = Ends(proc, i) /\ UNCHANGED flag
  <2>1. Rest /\ Light
    BY <1>4, FlagKept, RestKept DEF RootValidated, Light, InLine
  <2> QED
    BY <1>1, <1>4, <2>1, GoodEnd DEF Light
<1> QED
  BY <1>2, <1>3, <1>4 DEF RootValidated, RefreshWanted


LEMMA RemovalAnsweredGood ==
  ASSUME Inv, NEW i \in Ids, RemovalAnswered(i)
  PROVE  Good(i)
<1>1. Main(i) /\ ~closing /\ Waits(i)
  BY AnswersIs DEF RemovalAnswered, Questions
<1>2. ASSUME BeginVerify(i, proc[i].op = "group") PROVE Good(i)
  <2>1. /\ Rest /\ shown' = shown /\ flag'["checking"] = flag["checking"]
        /\ flag'["trashing"]
    BY <1>2, FlagSet, RestKept DEF RemovalAnswered, BeginVerify, Flags
  <2>2. Moves(i) /\ proc'[i].at = "verify"
    BY <1>1, <1>2, BeginVerifyRuns
  <2>3. Fore(i)
    BY <1>1, <2>1, <2>2, ForeOn DEF OfPast, Merging, MergeJobs
  <2> QED
    BY <2>1, <2>2, <2>3 DEF Good
<1>3. CASE proc' = Ends(proc, i) /\ UNCHANGED flag
  <2>1. Rest /\ flag' = flag
    BY <1>3, FlagKept, RestKept DEF RemovalAnswered
  <2> QED
    BY <1>1, <1>3, <2>1, GoodEnd
<1> QED
  BY <1>2, <1>3 DEF RemovalAnswered


\* The paths are looked up again by an operation that acts on a past result.
LEMMA ResolveAgainGood ==
  ASSUME Inv, Rest, NEW i \in Ids, ResolveAgain(i), proc[i].at \in {"hint", "relink"},
         Main(i), Waits(i), ~closing, shown' = shown, flag'["checking"] = flag["checking"]
  PROVE  Good(i)
<1>1. Moves(i) /\ proc'[i].at = "resolve"
  BY ResolveAgainRuns, TableIs DEF Publishers
<1>2. Fore(i)
  BY <1>1, ForeOn DEF OfPast, Merging, MergeJobs
<1> QED
  BY <1>1, <1>2 DEF Good

LEMMA OfferRelinkGood ==
  ASSUME Inv, NEW i \in Ids, OfferRelink(i), proc[i].at \in {"resolve", "hint"},
         Main(i), proc[i].state = "queued", ~closing, KeepShown, KeepRest
  PROVE  Good(i)
<1>1. CASE proc' = Ends(proc, i) /\ UNCHANGED <<dialogs, flag>>
  <2>1. Rest /\ flag' = flag /\ Waits(i)
    BY <1>1, FlagKept, RestKept DEF Waits
  <2> QED
    BY <1>1, <2>1, GoodEnd
<1>2. CASE Ask(i, "relinking") /\ Flag("relinking", TRUE)
  <2>1. Rest /\ shown' = shown /\ flag'["checking"] = flag["checking"]
    BY <1>2, FlagSet, RestKept DEF Flags
  <2> QED
    BY <1>2, <2>1, GoodAsk DEF Grows, OfPast, Merging, MergeJobs, Questions, Publishers
<1> QED
  BY <1>1, <1>2 DEF OfferRelink

LEMMA ResolvedGood ==
  ASSUME Inv, NEW i \in Ids, Resolved(i)
  PROVE  Good(i)
<1>1. /\ proc[i].at = "resolve" /\ proc[i].state = "queued" /\ Main(i) /\ ~closing
      /\ UNCHANGED dialogs => Waits(i)
  BY QueuedIs DEF Resolved, Delivers, Helpers, Behind
<1>2. CASE Ask(i, "pairs") /\ UNCHANGED flag
  <2>1. Rest /\ shown' = shown /\ flag' = flag
    BY <1>2, FlagKept, RestKept DEF Resolved
  <2> QED
    BY <1>1, <1>2, <2>1, GoodAsk DEF Grows, OfPast, Merging, MergeJobs, Questions, Publishers
<1>3. CASE proc' = Start(proc, i, "hint") /\ UNCHANGED <<dialogs, flag>>
  <2>1. Rest /\ shown' = shown /\ flag' = flag
    BY <1>3, FlagKept, RestKept DEF Resolved
  <2>2. ~proc[i].late
    BY <1>1, TableIs DEF Publishers
  <2> QED
    BY <1>1, <1>3, <2>1, <2>2, GoodStart, JobNames DEF Grows, OfPast, Merging, MergeJobs
<1>4. CASE OfferRelink(i)
  BY <1>1, <1>4, OfferRelinkGood DEF Resolved
<1>5. CASE proc' = Ends(proc, i) /\ UNCHANGED <<dialogs, flag>>
  <2>1. Rest /\ flag' = flag
    BY <1>5, FlagKept, RestKept DEF Resolved
  <2> QED
    BY <1>1, <1>5, <2>1, GoodEnd
<1> QED
  BY <1>2, <1>3, <1>4, <1>5 DEF Resolved


LEMMA HintCheckedGood ==
  ASSUME Inv, NEW i \in Ids, HintChecked(i)
  PROVE  Good(i)
<1>1. /\ proc[i].at = "hint" /\ proc[i].state = "queued" /\ Main(i) /\ ~closing
      /\ UNCHANGED dialogs => Waits(i)
  BY QueuedIs DEF HintChecked, Delivers, Helpers, Behind
<1>2. CASE ResolveAgain(i) /\ UNCHANGED <<dialogs, flag>>
  <2>1. Rest /\ shown' = shown /\ flag' = flag
    BY <1>2, FlagKept, RestKept DEF HintChecked
  <2> QED
    BY <1>1, <1>2, <2>1, ResolveAgainGood
<1>3. CASE OfferRelink(i)
  BY <1>1, <1>3, OfferRelinkGood DEF HintChecked
<1>4. CASE proc' = Ends(proc, i) /\ UNCHANGED <<dialogs, flag>>
  <2>1. Rest /\ flag' = flag
    BY <1>4, FlagKept, RestKept DEF HintChecked
  <2> QED
    BY <1>1, <1>4, <2>1, GoodEnd
<1> QED
  BY <1>2, <1>3, <1>4 DEF HintChecked


LEMMA RelinkAnsweredGood ==
  ASSUME Inv, NEW i \in Ids, RelinkAnswered(i)
  PROVE  Good(i)
<1>1. /\ proc[i].at = "relinking" /\ Main(i) /\ ~closing /\ Waits(i) /\ ~proc[i].late
  BY AnswersIs DEF RelinkAnswered, Questions
<1>2. CASE proc' = Start(proc, i, "relink") /\ UNCHANGED flag
  <2>1. Rest /\ shown' = shown /\ flag' = flag
    BY <1>2, FlagKept, RestKept DEF RelinkAnswered
  <2> QED
    BY <1>1, <1>2, <2>1, GoodStart, JobNames DEF Grows, OfPast, Merging, MergeJobs
<1>3. CASE proc' = Ends(proc, i) /\ Flag("relinking", FALSE)
  <2>1. Rest /\ flag'["checking"] = flag["checking"]
    BY <1>3, FlagSet, RestKept DEF RelinkAnswered, Flags
  <2> QED
    BY <1>1, <1>3, <2>1, GoodEnd
<1> QED
  BY <1>2, <1>3 DEF RelinkAnswered


LEMMA RelinkedGood ==
  ASSUME Inv, NEW i \in Ids, Relinked(i)
  PROVE  Good(i)
<1>1. /\ proc[i].at = "relink" /\ Main(i) /\ ~closing /\ Waits(i)
  BY QueuedIs DEF Relinked, Delivers, Helpers, InLine, Behind
<1>2. Rest /\ shown' = shown /\ flag'["checking"] = flag["checking"]
  BY FlagSet, FlagKept, RestKept DEF Relinked, InLine, Flags
<1> QED
  BY <1>1, <1>2, ResolveAgainGood, GoodEnd DEF Relinked


LEMMA PairConfirmedGood ==
  ASSUME Inv, NEW i \in Ids, PairConfirmed(i)
  PROVE  Good(i)
<1>1. /\ proc[i].at = "pairs" /\ Main(i) /\ ~closing /\ Waits(i) /\ ~proc[i].late
  BY AnswersIs DEF PairConfirmed, Questions
<1>2. Rest /\ shown' = shown /\ flag' = flag
  BY FlagKept, RestKept DEF PairConfirmed
<1>3. CASE proc' = Start([proc EXCEPT ![i] = [WithResult(@) EXCEPT !.asked = "no"]],
                         i, "pair")
  <2>1. PICK q \in Entry : q = WithResult(proc[i]) /\ q.late = proc[i].late
    BY TableIs, WithIn
  <2>2. PICK p \in Entry : p = [q EXCEPT !.asked = "no"] /\ p.late = q.late
    BY WithIn
  <2>3. proc' = Start([proc EXCEPT ![i] = p], i, "pair")
    BY <1>3, <2>1, <2>2, TableIs DEF Table
  <2>4. "pair" \in Jobs \ {"recompute"}
    BY JobNames
  <2>5. Moves(i) /\ proc'[i].at = "pair"
    BY <1>1, <2>1, <2>2, <2>3, <2>4, SetStart
  <2>6. Fore(i)
    BY <1>1, <1>2, <2>5, ForeOn DEF OfPast, Merging, MergeJobs
  <2> QED
    BY <1>2, <2>5, <2>6 DEF Good
<1>4. CASE proc' = Ends(proc, i)
  BY <1>1, <1>2, <1>4, GoodEnd
<1> QED
  BY <1>3, <1>4 DEF PairConfirmed


\* A merge begins, of an operation whose entry is set to p first.
LEMMA RunMergeRuns ==
  ASSUME Inv, NEW i \in Ids, NEW p \in Entry, ~p.late,
         RunMerge([proc EXCEPT ![i] = p], i), Waits(i), ~closing
  PROVE  Moves(i) /\ proc'[i].at = "prepare"
<1>1. PICK q \in Entry : q = WithResult(p) /\ q.late = p.late
  BY WithIn
<1>2. [[proc EXCEPT ![i] = p] EXCEPT ![i] = WithResult(@)] = [proc EXCEPT ![i] = q]
  BY <1>1, TableIs DEF Table
<1>3. proc' = Start([proc EXCEPT ![i] = q], i, "prepare")
  BY <1>2 DEF RunMerge
<1>4. "prepare" \in Jobs \ {"recompute"}
  BY JobNames
<1> QED
  BY <1>1, <1>3, <1>4, SetStart

LEMMA PairVerifiedGood ==
  ASSUME Inv, NEW i \in Ids, PairVerified(i)
  PROVE  Good(i)
<1>1. /\ proc[i].at = "pair" /\ Main(i) /\ Waits(i) /\ ~proc[i].late
  BY QueuedIs, TableIs DEF PairVerified, Publishers, Behind
<1>2. CASE PairUsable(i) /\ BeginVerify(i, TRUE)
  <2>1. /\ Rest /\ shown' = shown /\ flag'["checking"] = flag["checking"]
        /\ flag'["trashing"]
    BY <1>2, FlagSet, RestKept DEF PairVerified, BeginVerify, Flags
  <2>2. Moves(i) /\ proc'[i].at = "verify"
    BY <1>1, <1>2, BeginVerifyRuns DEF PairUsable
  <2>3. Fore(i)
    BY <1>1, <2>1, <2>2, ForeOn DEF OfPast, Merging, MergeJobs
  <2> QED
    BY <2>1, <2>2, <2>3 DEF Good
<1>3. CASE PairUsable(i) /\ RunMerge([proc EXCEPT ![i].fresh = TRUE], i)
  <2>1. /\ Rest /\ shown' = shown /\ flag'["checking"] = flag["checking"]
        /\ flag'["merging"]
    BY <1>3, FlagSet, RestKept DEF PairVerified, RunMerge, Flags
  <2>2. PICK p \in Entry : p = [proc[i] EXCEPT !.fresh = TRUE] /\ p.late = proc[i].late
    BY TableIs, WithIn
  <2>3. RunMerge([proc EXCEPT ![i] = p], i)
    BY <1>3, <2>2, TableIs DEF Table
  <2>4. Moves(i) /\ proc'[i].at = "prepare"
    BY <1>1, <1>3, <2>2, <2>3, RunMergeRuns DEF PairUsable
  <2>5. Fore(i)
    BY <1>1, <2>1, <2>4, ForeOn DEF OfPast
  <2> QED
    BY <2>1, <2>4, <2>5 DEF Good
<1>4. CASE proc' = Ends(proc, i) /\ UNCHANGED flag
  <2>1. Rest /\ flag' = flag
    BY <1>4, FlagKept, RestKept DEF PairVerified
  <2> QED
    BY <1>1, <1>4, <2>1, GoodEnd
<1> HIDE DEF RunMerge, BeginVerify, PairUsable
<1> QED
  BY <1>2, <1>3, <1>4 DEF PairVerified


-----------------------------------------------------------------------------
(* The user and the activation of the window *)

LEMMA BegunIs ==
  ASSUME Inv, NEW i \in Ids, NEW gap, Begins(i, gap),
         flag' \in [Flags -> BOOLEAN]
  PROVE  /\ Rest /\ shown' = shown /\ ~closing /\ dialogs = <<>>
         /\ proc[i].state = "idle" /\ proc[i].state # "asks"
         /\ ~rushed' => ~rushed /\ ~gap
<1>1. ops' \in 0..MaxOps
  BY SizesAssumption DEF Begins, UserFree, Inv, TypeOK
<1>2. Rest /\ shown' = shown
  BY <1>1 DEF Begins, KeepShown, Rest, Inv, TypeOK
<1>3. ~closing /\ dialogs = <<>> /\ proc[i].state = "idle"
  BY DEF Begins, UserFree, Free
<1>4. ~rushed' => ~rushed /\ ~gap
  BY DEF Begins
<1> QED
  BY <1>2, <1>3, <1>4

\* An entry that asks.
LEMMA AskedIn ==
  ASSUME NEW p \in Entry, NEW question \in Questions
  PROVE  LET q == [p EXCEPT !.at = question, !.state = "asks"] IN
         q \in Entry /\ q.late = p.late /\ q.at = question /\ q.state = "asks"
<1>1. [p EXCEPT !.at = question, !.state = "asks"] \in Entry
  BY EntrySet
<1>2. LET q == [p EXCEPT !.at = question, !.state = "asks"] IN
      q.late = p.late /\ q.at = question /\ q.state = "asks"
  BY DEF Entry
<1> QED
  BY <1>1, <1>2

LEMMA ResIn ==
  ASSUME NEW p \in Entry, NEW x \in BOOLEAN
  PROVE  LET q == [p EXCEPT !.res = x] IN
         q \in Entry /\ q.late = p.late /\ q.at = p.at /\ q.state = p.state
BY DEF Entry

\* Nothing is in the foreground when no question is open, no signal is on its
\* way, and neither a worker nor a removal runs.
LEMMA Vacant ==
  ASSUME Inv, dialogs = <<>>, ~Rushes, ~rushed,
         \A j \in Ids : proc[j].state = "run" /\ proc[j].held
                          => proc[j].at \notin Controlled \union {"verify", "trash"}
  PROVE  \A j \in Ids : ~Main(j)
<1> SUFFICES ASSUME NEW j \in Ids, Main(j) PROVE FALSE
  OBVIOUS
<1>1. proc[j] \in Entry /\ proc[j].state # "idle" /\ proc[j].state # "asks"
  BY DEF Main, Inv, TypeOK
<1>2. proc[j].state = "run" /\ proc[j].held /\ proc[j].at \in Jobs
  BY <1>1 DEF Entry, Inv, AllHeld, TypeOK, Rushes, Main, Behind
<1>3. proc[j].at \notin Controlled \union {"verify", "trash", "probe", "resolve", "hint", "relink", "load",
                                           "roots", "validate"} \union Behind
  BY <1>2 DEF Main, Preflight, Rushes
<1> QED
  BY <1>2, <1>3 DEF Jobs, Background, Helpers, Behind

LEMMA VacantIdle ==
  ASSUME Inv, dialogs = <<>>, ~Rushes, ~rushed, ~Busy
  PROVE  (\A j \in Ids : ~Main(j)) /\ ~flag["checking"]
BY Vacant DEF Busy, Running, Background

\* An operation that begins in a window that has nothing in the foreground.
LEMMA BegunFore ==
  ASSUME Inv, Rest, NEW i \in Ids, shown' = shown,
         ~rushed' => (\A j \in Ids : ~Main(j)) /\ ~flag'["checking"],
         proc'[i].at \in OfPast => Historical,
         proc'[i].at \in Merging => flag'["merging"],
         proc'[i].at \in {"verify", "trash"} => flag'["trashing"]
  PROVE  Fore(i)
BY ForeMain DEF Sole, Equipped, Historical

\* An operation that begins with a question.
LEMMA BegunAsks ==
  ASSUME Inv, NEW i \in Ids, NEW p \in Entry, ~p.late, p.state = "asks", p.at \in Questions,
         proc' = [proc EXCEPT ![i] = p], dialogs = <<>>, dialogs' = <<i>>,
         proc[i].state = "idle", ~closing
  PROVE  Moves(i) /\ proc'[i].at = p.at
<1>1. proc \in Table
  BY TableIs
<1>2. Near(proc, proc', i, "none") /\ proc'[i] = p
  BY <1>1, SetNear
<1>3. dialogs' = <<i>> \o dialogs
  OBVIOUS
<1> QED
  BY <1>2, <1>3 DEF Moves, Opens

LEMMA StartScanGood ==
  ASSUME Inv, NEW i \in Ids, StartScan(i)
  PROVE  Good(i)
<1>1. /\ flag' \in [Flags -> BOOLEAN]
      /\ flag'["checking"] = flag["checking"]
  BY FlagSet DEF StartScan, Flags
<1>2. /\ Rest /\ shown' = shown /\ ~closing /\ dialogs = <<>> /\ Waits(i)
      /\ ~rushed' => ~rushed /\ ~Rushes
  BY <1>1, BegunIs DEF StartScan, Waits
<1>3. PICK p \in Entry : p = By("scan") /\ ~p.late
  BY ByIn DEF Ops
<1>4. proc' = Start([proc EXCEPT ![i] = p], i, "probe")
  BY <1>3 DEF StartScan
<1>5. Moves(i) /\ proc'[i].at = "probe"
  BY <1>2, <1>3, <1>4, SetStart, JobNames
<1>6. ASSUME ~rushed' PROVE (\A j \in Ids : ~Main(j)) /\ ~flag'["checking"]
  <2>1. \A j \in Ids : proc[j].state = "run" /\ proc[j].held
          => proc[j].at \notin {"scan", "refresh", "pair", "verify", "trash"}
    BY DEF StartScan, ScanBlocked, Running, Background
  <2>2. \A j \in Ids : proc[j].state = "run" => proc[j].at \notin MergeJobs
    BY <1>2, <1>6 DEF StartScan, ScanBlocked, Inv, Alone, Equipped, Merging, Main,
                      MergeJobs, Preflight, Behind
  <2>3. \A j \in Ids : ~Main(j)
    BY <1>2, <1>6, <2>1, <2>2, Vacant DEF Controlled
  <2> QED
    BY <1>1, <2>3 DEF StartScan, ScanBlocked
<1>7. Fore(i)
  BY <1>2, <1>5, <1>6, BegunFore DEF OfPast, Merging, MergeJobs
<1> QED
  BY <1>2, <1>5, <1>7 DEF Good

LEMMA CompareGood ==
  ASSUME Inv, NEW i \in Ids, Compare(i)
  PROVE  Good(i)
<1>1. flag' \in [Flags -> BOOLEAN] /\ flag' = flag
  BY FlagKept DEF Compare
<1>2. /\ Rest /\ shown' = shown /\ ~closing /\ dialogs = <<>> /\ proc[i].state = "idle"
      /\ ~rushed' => ~rushed /\ ~Rushes
  BY <1>1, BegunIs DEF Compare
<1>3. PICK b \in Entry : b = By("compare") /\ ~b.late
  BY ByIn DEF Ops
<1> DEFINE q == [b EXCEPT !.at = "picker", !.state = "asks"]
<1>4. "picker" \in Questions
  BY DEF Questions
<1>5. q \in Entry /\ q.late = b.late /\ q.at = "picker" /\ q.state = "asks"
  BY <1>4, AskedIn
<1>6. proc' = [proc EXCEPT ![i] = q] /\ dialogs' = <<i>>
  BY <1>3 DEF Compare
<1> HIDE DEF q
<1>7. Moves(i) /\ proc'[i].at = "picker"
  BY <1>2, <1>3, <1>4, <1>5, <1>6, BegunAsks
<1>8. Fore(i)
  BY <1>1, <1>2, <1>7, BegunFore, VacantIdle DEF OfPast, Merging, MergeJobs, Compare
<1> QED
  BY <1>2, <1>7, <1>8 DEF Good

LEMMA AsksGood ==
  ASSUME Inv, NEW i \in Ids, NEW op \in Ops,
         NEW question \in {"confirm", "review", "group"}, Asks(i, op, question),
         question = "confirm" => Historical
  PROVE  Good(i)
<1>1. flag' \in [Flags -> BOOLEAN] /\ flag' = flag
  BY FlagKept DEF Asks
<1>2. /\ Rest /\ shown' = shown /\ ~closing /\ dialogs = <<>> /\ proc[i].state = "idle"
      /\ ~rushed' => ~rushed /\ ~Rushes
  BY <1>1, BegunIs DEF Asks
<1>3. PICK b \in Entry : b = By(op) /\ ~b.late
  BY ByIn
<1> DEFINE q == [b EXCEPT !.at = question, !.state = "asks"]
           p == [q EXCEPT !.res = (op = "refresh")]
<1>4. question \in Questions
  BY DEF Questions
<1>5. q \in Entry /\ q.late = b.late /\ q.at = question /\ q.state = "asks"
  BY <1>4, AskedIn
<1>6. proc' = [proc EXCEPT ![i] = p] /\ dialogs' = <<i>>
  BY <1>3 DEF Asks
<1> HIDE DEF q
<1>7. p \in Entry /\ p.late = q.late /\ p.at = q.at /\ p.state = q.state
  BY <1>5, ResIn
<1> HIDE DEF p
<1>8. Moves(i) /\ proc'[i].at = question
  BY <1>2, <1>3, <1>4, <1>5, <1>6, <1>7, BegunAsks
<1>9. Fore(i)
  BY <1>1, <1>2, <1>8, BegunFore, VacantIdle DEF OfPast, Merging, MergeJobs, Asks
<1> QED
  BY <1>2, <1>8, <1>9 DEF Good

\* _load_session: the tables of jobs that have ended and of tokens are cleared.
LEMMA OpenSessionGood ==
  ASSUME Inv, NEW i \in Ids, NEW op \in {"open", "reopen"}, OpenSession(i, op)
  PROVE  Good(i)
<1>1. flag' \in [Flags -> BOOLEAN] /\ flag'["checking"] = flag["checking"]
  BY DEF OpenSession, Flags, Inv, TypeOK
<1>2. /\ Rest /\ shown' = shown /\ ~closing /\ dialogs = <<>> /\ Waits(i)
      /\ ~rushed' => ~rushed /\ ~Rushes
  BY <1>1, BegunIs DEF OpenSession, Waits
<1>3. PICK fs : fs = FinishedLetGo(proc)
  OBVIOUS
<1>4. PICK ts : ts = NewToken(fs)
  OBVIOUS
<1>5. PICK es : es = NewEvent(ts)
  OBVIOUS
<1>6. fs \in Table /\ Near(proc, fs, i, "none")
  BY <1>3, TableIs, TakenNear
<1>7. ts \in Table /\ Near(fs, ts, i, "none")
  BY <1>4, <1>6, TakenNear
<1>8. es \in Table /\ Near(ts, es, i, "none")
  BY <1>5, <1>7, TakenNear
<1>9. Near(proc, ts, i, "none")
  BY <1>6, <1>7, NearTrans, TableIs
<1>10. Near(proc, es, i, "none")
  BY <1>7, <1>8, <1>9, NearTrans, TableIs
<1>11. \A j \in Ids : ~es[j].tok
  BY <1>4, <1>5, <1>6, <1>7, TakenSelf
<1>12. PICK p \in Entry : p = WithToken(By(op)) /\ ~p.late
  BY ByIn DEF Ops
<1>13. proc' = Supersedes(Start([es EXCEPT ![i] = p], i, "load"), i)
  BY <1>3, <1>4, <1>5, <1>12 DEF OpenSession
<1>14. Moves(i) /\ proc'[i].at = "load"
  BY <1>2, <1>8, <1>10, <1>11, <1>12, <1>13, Superseding, JobNames
<1>15. Fore(i)
  BY <1>1, <1>2, <1>14, BegunFore, VacantIdle DEF OfPast, Merging, MergeJobs, OpenSession, RefreshBusy
<1> QED
  BY <1>2, <1>14, <1>15 DEF Good

LEMMA RemoveSharedGood ==
  ASSUME Inv, NEW i \in Ids, RemoveShared(i)
  PROVE  Good(i)
<1>1. /\ flag' \in [Flags -> BOOLEAN] /\ flag'["checking"] = flag["checking"]
      /\ flag'["trashing"]
  BY FlagSet DEF RemoveShared, BeginVerify, Flags
<1>2. /\ Rest /\ shown' = shown /\ ~closing /\ dialogs = <<>> /\ Waits(i)
      /\ ~rushed' => ~rushed /\ ~Rushes
  BY <1>1, BegunIs DEF RemoveShared, Waits
<1>3. Moves(i) /\ proc'[i].at = "verify"
  BY <1>2, BeginVerifyRuns DEF RemoveShared
<1>4. Fore(i)
  BY <1>1, <1>2, <1>3, BegunFore, VacantIdle DEF OfPast, Merging, MergeJobs, RemoveShared
<1> QED
  BY <1>2, <1>3, <1>4 DEF Good

LEMMA LookUpGood ==
  ASSUME Inv, NEW i \in Ids, NEW op \in {"shared", "merge"}, LookUp(i, op)
  PROVE  Good(i)
<1>1. flag' \in [Flags -> BOOLEAN] /\ flag' = flag
  BY FlagKept DEF LookUp
<1>2. /\ Rest /\ shown' = shown /\ ~closing /\ dialogs = <<>> /\ Waits(i)
      /\ ~rushed' => ~rushed /\ ~Rushes /\ ~Busy
  BY <1>1, BegunIs DEF LookUp, Waits
<1>3. PICK p \in Entry : p = WithToken(By(op)) /\ ~p.late
  BY ByIn DEF Ops
<1>4. proc' = Start([proc EXCEPT ![i] = p], i, "resolve")
  BY <1>3 DEF LookUp
<1>5. Moves(i) /\ proc'[i].at = "resolve"
  BY <1>2, <1>3, <1>4, SetStart, JobNames
<1>6. Fore(i)
  BY <1>1, <1>2, <1>5, BegunFore, VacantIdle DEF OfPast, Merging, MergeJobs, LookUp
<1> QED
  BY <1>2, <1>5, <1>6 DEF Good

\* A merge looks only at two flags: that nothing of a past result is in the
\* foreground follows from the result that is shown.
LEMMA MergeGood ==
  ASSUME Inv, NEW i \in Ids, Merge(i)
  PROVE  Good(i)
<1>1. /\ flag' \in [Flags -> BOOLEAN] /\ flag'["checking"] = flag["checking"]
      /\ flag'["merging"]
  BY FlagSet DEF Merge, RunMerge, Flags
<1>2. /\ Rest /\ shown' = shown /\ ~closing /\ dialogs = <<>> /\ Waits(i)
      /\ ~rushed' => ~rushed /\ ~Rushes
  BY <1>1, BegunIs DEF Merge, Waits
<1>3. PICK p \in Entry : p = By("merge") /\ ~p.late
  BY ByIn DEF Ops
<1>4. RunMerge([proc EXCEPT ![i] = p], i)
  BY <1>3 DEF Merge
<1>5. Moves(i) /\ proc'[i].at = "prepare"
  BY <1>2, <1>3, <1>4, RunMergeRuns
<1>6. ASSUME ~rushed' PROVE (\A j \in Ids : ~Main(j)) /\ ~flag'["checking"]
  <2>1. ~Historical
    BY DEF Merge, Fair, Historical
  <2>2. \A j \in Ids : Main(j) => Equipped(j)
    BY <1>2, <1>6 DEF Inv, Alone
  <2>3. ASSUME NEW j \in Ids, proc[j].state = "run"
        PROVE  proc[j].at \notin Controlled \union {"verify", "trash"}
    <3>1. proc[j].at # "scan"
      BY DEF Merge, OnResults
    <3>2. proc[j].at \notin {"refresh", "pair"}
      BY <2>1, <2>2, <2>3 DEF Equipped, OfPast, Main, Preflight, Behind
    <3>3. proc[j].at \notin MergeJobs
      BY <2>2, <2>3 DEF Equipped, Merging, Main, Preflight, Behind, MergeJobs, Merge
    <3>4. proc[j].at \notin {"verify", "trash"}
      BY <2>2, <2>3 DEF Equipped, Main, Preflight, Behind, Merge
    <3> QED
      BY <3>1, <3>2, <3>3, <3>4 DEF Controlled
  <2>4. \A j \in Ids : ~Main(j)
    BY <1>2, <1>6, <2>3, Vacant
  <2>5. ~flag["checking"]
    BY <1>2, <1>6, <2>1 DEF Inv, Alone
  <2> QED
    BY <1>1, <2>4, <2>5
<1>7. Fore(i)
  BY <1>1, <1>2, <1>5, <1>6, BegunFore DEF OfPast
<1> QED
  BY <1>2, <1>5, <1>7 DEF Good

\* The photos of a result are compared, whatever else goes on.
LEMMA PhotosGood ==
  ASSUME Inv, NEW i \in Ids, Photos(i)
  PROVE  Good(i)
<1>1. flag' \in [Flags -> BOOLEAN] /\ flag' = flag
  BY FlagKept DEF Photos
<1>2. Rest /\ shown' = shown /\ ~closing /\ Waits(i)
  BY <1>1, BegunIs DEF Photos, Waits
<1>3. PICK p \in Entry : p = By("photos") /\ ~p.late
  BY ByIn DEF Ops
<1>4. proc' = Start([proc EXCEPT ![i] = p], i, "photos")
  BY <1>3 DEF Photos
<1>5. Moves(i) /\ proc'[i].at = "photos"
  BY <1>2, <1>3, <1>4, SetStart, JobNames
<1>6. Fore(i)
  BY <1>1, <1>2, <1>5, ForeBehind DEF Main, Behind, Light
<1> QED
  BY <1>2, <1>5, <1>6 DEF Good

\* The window is activated, also while a question is open and while it closes.
LEMMA SweepGood ==
  ASSUME Inv, NEW i \in Ids, Sweep(i)
  PROVE  Good(i)
<1>1. Rest /\ Light
  BY FlagSet, RestKept DEF Sweep, InLine, Flags, Light
<1>2. Waits(i)
  BY DEF Sweep, InLine, Free, Waits
<1>3. PICK p \in Entry : p = By("sweep") /\ ~p.late
  BY ByIn DEF Ops
<1>4. proc' = Start([proc EXCEPT ![i] = p], i, "sweep")
  BY <1>3 DEF Sweep
<1>5. Moves(i) /\ proc'[i].at = "sweep"
  BY <1>2, <1>3, <1>4, SetStart, JobNames DEF Passes
<1>6. Fore(i)
  BY <1>1, <1>5, ForeBehind DEF Main, Behind
<1> QED
  BY <1>1, <1>5, <1>6 DEF Good

-----------------------------------------------------------------------------
(* The steps that start nothing and open nothing: jobs end, are stopped or *)
(* paused, files vanish, the window closes.                                *)

StillEntry(p, q) ==
  /\ q \in Entry
  /\ q.at = p.at /\ q.held = p.held /\ q.late = p.late /\ q.tok = p.tok
  /\ \/ q.state = p.state /\ q.out = p.out
     \/ /\ p.state = "run" /\ q.state = "queued"
        /\ p.at = "scan" => q.out \in {"live", "partial", "failed"}
  /\ p = NoProc => q = NoProc

Still ==
  /\ DOMAIN proc' = Ids /\ proc' = [j \in Ids |-> proc'[j]]
  /\ \A j \in Ids : StillEntry(proc[j], proc'[j])
  /\ flag' \in [Flags -> BOOLEAN] /\ Light
  /\ ghosts' \subseteq {Finder} \union Ids
  /\ ops' \in 0..MaxOps
  /\ UNCHANGED <<dialogs, rushed, outdated>>
  /\ closing => closing'
  /\ closing' /\ ~closing => dialogs = <<>>
  /\ closed' => closing'

LEMMA StillTyped ==
  ASSUME Inv, Still
  PROVE  TypeOK'
<1>1. proc' \in [Ids -> Entry]
  BY DEF Still, StillEntry
<1>2. ASSUME NEW j \in Ids
      PROVE  /\ proc'[j].state = "idle" => proc'[j] = NoProc
             /\ proc'[j].state \in {"run", "queued"} => proc'[j].at \in Jobs
             /\ proc'[j].state = "asks" <=> proc'[j].at \in Questions
             /\ proc'[j].state = "asks" <=> \E n \in 1..Len(dialogs') : dialogs'[n] = j
  <2>1. StillEntry(proc[j], proc'[j]) /\ dialogs' = dialogs
    BY DEF Still
  <2>2. /\ proc[j].state = "idle" => proc[j] = NoProc
        /\ proc[j].state \in {"run", "queued"} => proc[j].at \in Jobs
        /\ proc[j].state = "asks" <=> proc[j].at \in Questions
        /\ proc[j].state = "asks" <=> \E n \in 1..Len(dialogs) : dialogs[n] = j
    BY DEF Inv, TypeOK
  <2> QED
    BY <2>1, <2>2, NoneNotJob DEF StillEntry
<1> QED
  BY <1>1, <1>2 DEF Still, Light, Inv, TypeOK

LEMMA StillStep ==
  ASSUME Inv, Still
  PROVE  /\ TypeOK' /\ Nested' /\ Barrier' /\ LateBarred' /\ Reported' /\ LatestShown'
         /\ Alone' /\ AllHeld'
         /\ closing => dialogs' = <<>>
         /\ \A j \in Ids : proc'[j].state = "run" => proc[j].state = "run"
<1>1. TypeOK'
  BY StillTyped
<1>2. Nested' /\ Barrier' /\ (closing => dialogs' = <<>>)
  BY DEF Inv, Still, Nested, Barrier
<1>3. \A j \in Ids : /\ proc'[j].at = proc[j].at /\ proc'[j].held = proc[j].held
                     /\ proc'[j].late = proc[j].late /\ proc'[j].tok = proc[j].tok
                     /\ proc'[j].state = "run" => proc[j].state = "run"
                     /\ proc'[j].state # "idle" => proc[j].state # "idle"
  BY DEF Still, StillEntry
<1>4. LateBarred' /\ LatestShown'
  BY <1>3 DEF Inv, Still, LateBarred, LatestShown
<1>5. Reported'
  BY DEF Inv, Still, StillEntry, Reported
<1>6. AllHeld'
  BY <1>3 DEF Inv, Still, AllHeld
<1>7. Alone'
  <2>1. \A j \in Ids : Main(j)' => Main(j)
    BY <1>3 DEF Main
  <2>2. \A j \in Ids : Equipped(j) => Equipped(j)'
    BY <1>3 DEF Equipped, Still, Light, Historical
  <2> QED
    BY <2>1, <2>2 DEF Inv, Alone, Still, Light, Historical
<1> QED
  BY <1>1, <1>2, <1>3, <1>4, <1>5, <1>6, <1>7

\* What each small change makes of an entry.
LEMMA StillSame ==
  ASSUME NEW p \in Entry
  PROVE  /\ StillEntry(p, p)
         /\ StillEntry(p, [p EXCEPT !.ev = FALSE])
         /\ p.state # "idle" => /\ StillEntry(p, [p EXCEPT !.cancel = TRUE])
                                /\ \A x \in {"now", "over"} : StillEntry(p, [p EXCEPT !.pause = x])
                                /\ StillEntry(p, Stopped(p))
                                /\ StillEntry(p, [Stopped(p) EXCEPT !.ev = FALSE])
                                /\ StillEntry(p, [p EXCEPT !.items = @ \union {Finder}])
<1>1. StillEntry(p, p)
  BY DEF StillEntry
<1>2. StillEntry(p, [p EXCEPT !.ev = FALSE])
  <2>1. p = NoProc => [p EXCEPT !.ev = FALSE] = NoProc
    BY EntrySame, NoProcIs
  <2> QED
    BY <2>1 DEF StillEntry, Entry
<1>3. ASSUME p.state # "idle"
      PROVE  /\ StillEntry(p, [p EXCEPT !.cancel = TRUE])
             /\ \A x \in {"now", "over"} : StillEntry(p, [p EXCEPT !.pause = x])
  BY <1>3, NoProcIs DEF StillEntry, Entry
<1>4. ASSUME p.state # "idle"
      PROVE  /\ StillEntry(p, Stopped(p))
             /\ StillEntry(p, [Stopped(p) EXCEPT !.ev = FALSE])
  <2>1. PICK x \in {"never", "now", "over"} : x = IF p.pause = "now" THEN "over" ELSE p.pause
    BY DEF Entry
  <2>2. Stopped(p) = [p EXCEPT !.cancel = TRUE, !.pause = x]
    BY <2>1 DEF Stopped
  <2>3. StillEntry(p, [p EXCEPT !.cancel = TRUE, !.pause = x])
    BY <1>4, NoProcIs DEF StillEntry, Entry
  <2>4. StillEntry(p, [[p EXCEPT !.cancel = TRUE, !.pause = x] EXCEPT !.ev = FALSE])
    BY <1>4, NoProcIs DEF StillEntry, Entry
  <2> QED
    BY <2>2, <2>3, <2>4
<1>5. ASSUME p.state # "idle"
      PROVE  StillEntry(p, [p EXCEPT !.items = @ \union {Finder}])
  BY <1>5, NoProcIs DEF StillEntry, Entry
<1> QED
  BY <1>1, <1>2, <1>3, <1>4, <1>5

\* One entry is changed, and nothing else but flags that do not matter here.
LEMMA StillOne ==
  ASSUME Inv, NEW i \in Ids, NEW p, proc' = [proc EXCEPT ![i] = p],
         StillEntry(proc[i], p), flag' = flag, ghosts' \subseteq {Finder} \union Ids,
         UNCHANGED <<dialogs, shown, closing, closed, ops, rushed, outdated>>
  PROVE  Still
<1>1. proc \in [Ids -> Entry]
  BY DEF Inv, TypeOK
<1>2. \A j \in Ids : StillEntry(proc[j], proc'[j])
  BY <1>1, StillSame
<1> QED
  BY <1>1, <1>2 DEF Still, Light, Inv, TypeOK

\* What a job reports, and what it removes.
LEMMA OutcomesIn ==
  ASSUME NEW p \in Entry, p.at \in Jobs
  PROVE  /\ Outcomes(p) \subseteq Outs
         /\ p.at = "scan" => Outcomes(p) \subseteq {"live", "partial", "failed"}
<1>1. CASE p.at = "scan"
  BY <1>1 DEF Outcomes, ScanOutcomes, If, Outs
<1>2. CASE p.at \in {"load", "refresh", "sweep", "trash", "verify", "probe", "folder", "copying"}
  BY <1>2 DEF Outcomes, LoadOutcomes, FolderOutcomes, Outs
<1>3. CASE p.at \in {"validate", "hint", "relink"}
  BY <1>3 DEF Outcomes, Outs
<1>4. CASE p.at = "roots"
  BY <1>4 DEF Outcomes, RootsOutcomes, If, Outs
<1>5. CASE p.at \in {"resolve", "pair"}
  BY <1>5 DEF Outcomes, ResolveOutcomes, PairOutcomes, If, Outs
<1>6. CASE p.at \in {"prepare", "moving"}
  BY <1>6 DEF Outcomes, PrepareOutcomes, MoveOutcomes, If, Outs
<1>7. CASE p.at \in {"recompute", "tables", "photos"}
  BY <1>7 DEF Outcomes, Outs
<1> QED
  BY <1>1, <1>2, <1>3, <1>4, <1>5, <1>6, <1>7 DEF Jobs, Background, Helpers, Controlled, MergeJobs

LEMMA RemovedIn ==
  ASSUME Inv, NEW i \in Ids, NEW out \in Outs, NEW items \in Removed(i, out)
  PROVE  /\ items \in SUBSET ({Finder} \union Ids)
         /\ GhostsAfter(i, out, items) \subseteq {Finder} \union Ids
<1>1. ghosts \subseteq {Finder} \union Ids /\ proc[i].items \in SUBSET ({Finder} \union Ids)
  BY TableIs DEF Inv, TypeOK, Entry
<1>2. items \in SUBSET ({Finder} \union Ids)
  BY <1>1 DEF Removed
<1> QED
  BY <1>1, <1>2 DEF GhostsAfter

LEMMA EndStill ==
  ASSUME Inv, NEW i \in Ids, End(i)
  PROVE  Still
<1>1. /\ proc[i].state = "run" /\ proc[i].at \in Jobs /\ proc[i] \in Entry
      /\ proc \in [Ids -> Entry]
  BY TableIs DEF End, Inv, TypeOK
<1>2. PICK out \in Outcomes(proc[i]) : \E items \in Removed(i, out) :
        /\ proc' = [proc EXCEPT ![i].state = "queued", ![i].out = out,
                                ![i].items = items, ![i].cancel = FALSE,
                                ![i].pause = "never"]
        /\ ghosts' = GhostsAfter(i, out, items)
  BY DEF End
<1>3. PICK items \in Removed(i, out) :
        /\ proc' = [proc EXCEPT ![i].state = "queued", ![i].out = out,
                                ![i].items = items, ![i].cancel = FALSE,
                                ![i].pause = "never"]
        /\ ghosts' = GhostsAfter(i, out, items)
  BY <1>2
<1>4. /\ out \in Outs /\ items \in SUBSET ({Finder} \union Ids)
      /\ ghosts' \subseteq {Finder} \union Ids
      /\ proc[i].at = "scan" => out \in {"live", "partial", "failed"}
  BY <1>1, <1>3, OutcomesIn, RemovedIn
<1> DEFINE q == [proc[i] EXCEPT !.state = "queued", !.out = out, !.items = items,
                                !.cancel = FALSE, !.pause = "never"]
<1>5. proc' = [proc EXCEPT ![i] = q]
  BY <1>1, <1>3
<1>6. StillEntry(proc[i], q)
  BY <1>1, <1>4, NoProcIs DEF StillEntry, Entry
<1> HIDE DEF q
<1> QED
  BY <1>4, <1>5, <1>6, StillOne DEF End

LEMMA PauseStill ==
  ASSUME Inv, NEW i \in Ids, Pause(i) \/ Resume(i)
  PROVE  Still
<1>1. proc[i].state = "run" /\ proc[i] \in Entry /\ proc \in [Ids -> Entry]
  BY TableIs DEF Pause, Resume, Worker, Inv, TypeOK
<1>2. PICK x \in {"now", "over"} : proc' = [proc EXCEPT ![i] = [proc[i] EXCEPT !.pause = x]]
  BY <1>1 DEF Pause, Resume
<1>3. StillEntry(proc[i], [proc[i] EXCEPT !.pause = x])
  BY <1>1, StillSame
<1>4. ghosts' \subseteq {Finder} \union Ids
  BY DEF Pause, Resume, InLine, KeepShown, Inv, TypeOK
<1> QED
  BY <1>2, <1>3, <1>4, StillOne DEF Pause, Resume, InLine, KeepShown, KeepRest

LEMMA FinderStill ==
  ASSUME Inv, FinderDelete
  PROVE  Still
<1>1. proc \in [Ids -> Entry]
  BY DEF Inv, TypeOK
<1>2. ASSUME NEW j \in Ids PROVE StillEntry(proc[j], proc'[j])
  <2>1. CASE proc[j].at \in {"scan", "refresh"}
    <3>1. proc[j].state # "idle"
      BY <2>1, NoProcIs DEF Inv, TypeOK
    <3>2. proc'[j] = [proc[j] EXCEPT !.items = @ \union {Finder}]
      BY <2>1 DEF FinderDelete
    <3> QED
      BY <1>1, <3>1, <3>2, StillSame
  <2>2. CASE proc[j].at \notin {"scan", "refresh"}
    BY <1>1, <2>2, StillSame DEF FinderDelete
  <2> QED
    BY <2>1, <2>2
<1>3. DOMAIN proc' = Ids /\ proc' = [j \in Ids |-> proc'[j]]
  BY DEF FinderDelete
<1>4. ops' \in 0..MaxOps
  BY SizesAssumption DEF FinderDelete, Inv, TypeOK
<1> QED
  BY <1>2, <1>3, <1>4 DEF FinderDelete, Still, Light, Inv, TypeOK

LEMMA CancelStill ==
  ASSUME Inv, Cancel
  PROVE  Still
<1>1. proc \in [Ids -> Entry]
  BY DEF Inv, TypeOK
<1>2. /\ UNCHANGED <<dialogs, shown, ghosts, closing, closed, ops, rushed, outdated>>
      /\ ghosts' \subseteq {Finder} \union Ids
  BY DEF Cancel, InLine, KeepShown, KeepRest, Inv, TypeOK
<1>3. ASSUME NEW i \in Ids, proc[i].state = "run", UNCHANGED flag,
             proc' = [proc EXCEPT ![i] = [proc[i] EXCEPT !.cancel = TRUE]]
      PROVE  Still
  BY <1>1, <1>2, <1>3, StillSame, StillOne
<1>4. ASSUME NEW i \in Ids, Worker(i), UNCHANGED flag, proc' = [proc EXCEPT ![i] = Stopped(@)]
      PROVE  Still
  <2>1. proc[i].state = "run"
    BY <1>4 DEF Worker
  <2>2. proc' = [proc EXCEPT ![i] = Stopped(proc[i])]
    BY <1>4
  <2> QED
    BY <1>1, <1>2, <1>4, <2>1, <2>2, StillSame, StillOne
<1>5. CASE CancelPreflight(proc)
  <2>1. flag' \in [Flags -> BOOLEAN] /\ Light
    BY <1>2, <1>5, FlagSet DEF CancelPreflight, Flags, Light
  <2>2. /\ DOMAIN proc' = Ids /\ proc' = [j \in Ids |-> proc'[j]]
        /\ \A j \in Ids : StillEntry(proc[j], proc'[j])
    BY <1>1, <1>5, StillSame DEF CancelPreflight, NewEvent
  <2> QED
    BY <1>2, <2>1, <2>2 DEF Still, Inv, TypeOK
<1>6. \/ CancelPreflight(proc)
      \/ \E i \in Ids : /\ proc[i].state = "run" /\ UNCHANGED flag
                        /\ proc' = [proc EXCEPT ![i] = [proc[i] EXCEPT !.cancel = TRUE]]
      \/ \E i \in Ids : Worker(i) /\ UNCHANGED flag /\ proc' = [proc EXCEPT ![i] = Stopped(@)]
  <2> HIDE DEF Worker, CancelPreflight, Stopped
  <2> QED
    BY <1>1 DEF Cancel
<1> QED
  BY <1>3, <1>4, <1>5, <1>6

LEMMA CloseStill ==
  ASSUME Inv, Close
  PROVE  Still
<1>1. proc \in [Ids -> Entry]
  BY DEF Inv, TypeOK
<1>2. ASSUME NEW j \in Ids PROVE StillEntry(proc[j], proc'[j])
  <2>1. \/ proc'[j] = [proc[j] EXCEPT !.ev = FALSE]
        \/ proc[j].state = "run" /\ proc'[j] = [Stopped(proc[j]) EXCEPT !.ev = FALSE]
    BY DEF Close
  <2> QED
    BY <1>1, <2>1, StillSame
<1>3. DOMAIN proc' = Ids /\ proc' = [j \in Ids |-> proc'[j]]
  BY DEF Close
<1> QED
  BY <1>2, <1>3 DEF Close, KeepShown, Still, Light, Inv, TypeOK

LEMMA PollStill ==
  ASSUME Inv, Poll
  PROVE  Still
<1>1. proc \in [Ids -> Entry]
  BY DEF Inv, TypeOK
<1> QED
  BY <1>1, StillSame DEF Poll, KeepShown, Still, Light, Inv, TypeOK

-----------------------------------------------------------------------------
(* All steps *)

LEMMA OperationGood ==
  ASSUME Inv, NEW i \in Ids, Operation(i)
  PROVE  Good(i)
<1>1. CASE StartScan(i) \/ Compare(i) \/ OpenSession(i, "open") \/ OpenSession(i, "reopen")
  BY <1>1, StartScanGood, CompareGood, OpenSessionGood
<1>2. CASE Refresh(i) \/ RemoveBatch(i) \/ RemoveGroup(i)
  BY <1>2, AsksGood DEF Refresh, RemoveBatch, RemoveGroup, Ops
<1>3. CASE \/ RemoveShared(i) \/ Merge(i)
           \/ LookUp(i, "shared") \/ LookUp(i, "merge")
  BY <1>3, RemoveSharedGood, MergeGood, LookUpGood
<1>4. CASE Photos(i)
  BY <1>4, PhotosGood
<1> QED
  BY <1>1, <1>2, <1>3, <1>4 DEF Operation

LEMMA DeliverGood ==
  ASSUME Inv, NEW i \in Ids, Deliver(i)
  PROVE  Good(i)
<1>1. CASE Barred(i) \/ Probed(i) \/ ScanDone(i) \/ SessionLoaded(i)
  BY <1>1, BarredGood, ProbedGood, ScanDoneGood, SessionLoadedGood
<1>2. CASE RootsChecked(i) \/ RootValidated(i) \/ RefreshDone(i)
  BY <1>2, RootsCheckedGood, RootValidatedGood, RefreshDoneGood
<1>3. CASE \/ Verified(i) \/ Trashed(i) \/ Swept(i) \/ Recomputed(i)
           \/ TablesReady(i) \/ PhotosDone(i)
  BY <1>3, VerifiedGood, TrashedGood, SweptGood, RecomputedGood, TablesReadyGood,
     PhotosDoneGood
<1>4. CASE Resolved(i) \/ HintChecked(i) \/ Relinked(i) \/ PairVerified(i)
  BY <1>4, ResolvedGood, HintCheckedGood, RelinkedGood, PairVerifiedGood
<1>5. CASE MergePrepared(i) \/ Unmanaged(i) \/ Copied(i) \/ Moved(i) \/ FolderTrashed(i)
  BY <1>5, MergePreparedGood, UnmanagedGood, CopiedGood, MovedGood, FolderTrashedGood
<1> QED
  BY <1>1, <1>2, <1>3, <1>4, <1>5 DEF Deliver

LEMMA AnswerGood ==
  ASSUME Inv, NEW i \in Ids, Answer(i)
  PROVE  Good(i)
<1>1. CASE ScanAnswered(i) \/ RefreshConfirmed(i) \/ RootAnswered(i) \/ RemovalAnswered(i)
  BY <1>1, ScanAnsweredGood, RefreshConfirmedGood, RootAnsweredGood, RemovalAnsweredGood
<1>2. CASE TrashConfirmed(i) \/ PairConfirmed(i) \/ RelinkAnswered(i)
  BY <1>2, TrashConfirmedGood, PairConfirmedGood, RelinkAnsweredGood
<1>3. CASE PlanAnswered(i) \/ SourceAnswered(i) \/ Told(i)
  BY <1>3, PlanAnsweredGood, SourceAnsweredGood, ToldGood
<1> QED
  BY <1>1, <1>2, <1>3 DEF Answer

\* A window that has just been opened satisfies the invariant.
LEMMA Initially == Init => Inv
<1> SUFFICES ASSUME Init PROVE Inv
  OBVIOUS
<1>1. \A i \in Ids : proc[i] = NoProc
  BY DEF Init
<1>2. proc \in [Ids -> Entry]
  BY NoProcIn DEF Init
<1>3. flag \in [Flags -> BOOLEAN] /\ \A f \in Flags : ~flag[f]
  BY DEF Init, Flags
<1>4. TypeOK
  BY <1>1, <1>2, <1>3, NoProcIs, NoneNotJob, SizesAssumption DEF Init, TypeOK
<1>5. Nested /\ Barrier /\ LateBarred /\ Reported /\ LatestShown
  BY <1>1, NoProcIs DEF Init, Nested, Barrier, LateBarred, Reported, LatestShown
<1>6. Alone /\ AllHeld
  BY <1>1, <1>3, NoProcIs DEF Init, Alone, AllHeld, Main, Flags
<1> QED
  BY <1>4, <1>5, <1>6 DEF Inv

\* What a step of the window does to the invariant and to a window that closes.
LEMMA EachStep ==
  ASSUME Inv, [Next]_vars
  PROVE  /\ Inv'
         /\ \/ UNCHANGED vars
            \/ closing => /\ dialogs' = <<>>
                          /\ \A j \in Ids : proc'[j].state = "run"
                               => proc[j].state = "run" \/ Passes(j, proc'[j].at)
         /\ closed' /\ ~closed /\ ~rushed =>
              \A j \in Ids : proc'[j].state = "run" => proc'[j].at = "photos"
<1> DEFINE Shut == closing => /\ dialogs' = <<>>
                              /\ \A j \in Ids : proc'[j].state = "run"
                                   => proc[j].state = "run" \/ Passes(j, proc'[j].at)
           Kept == closed' = closed
<1>1. ASSUME NEW i \in Ids, Operation(i) \/ Sweep(i) \/ Deliver(i) \/ Answer(i)
      PROVE  Inv' /\ Shut /\ Kept
  <2>1. Good(i)
    BY <1>1, OperationGood, SweepGood, DeliverGood, AnswerGood
  <2> QED
    BY <2>1, GoodStep DEF Good, Rest
<1>2. ASSUME Still PROVE Inv' /\ Shut
  BY <1>2, StillStep DEF Inv
<1>3. ASSUME NEW i \in Ids, Pause(i) \/ Resume(i) \/ End(i)
      PROVE  Inv' /\ Shut /\ Kept
  <2>1. Still
    BY <1>3, PauseStill, EndStill
  <2>2. closed' = closed
    BY <1>3 DEF Pause, Resume, End, InLine, KeepRest
  <2> QED
    BY <1>2, <2>1, <2>2
<1>4. CASE FinderDelete \/ Cancel \/ Close
  <2>1. Still
    BY <1>4, FinderStill, CancelStill, CloseStill
  <2>2. closed' = closed
    BY <1>4 DEF FinderDelete, Cancel, Close, InLine, KeepRest
  <2> QED
    BY <1>2, <2>1, <2>2
<1>5. CASE Poll
  <2>1. Still
    BY <1>5, PollStill
  <2>2. ASSUME ~rushed, NEW j \in Ids, proc[j].state = "run" PROVE proc[j].at = "photos"
    <3>1. proc[j].at \in Jobs /\ (proc[j].at # "photos" => proc[j].held)
      BY <2>2 DEF Inv, AllHeld, TypeOK
    <3>2. ~(proc[j].at \in Jobs \ {"photos"} /\ proc[j].state = "run" /\ proc[j].held)
      BY <1>5 DEF Poll, Running
    <3> QED
      BY <2>2, <3>1, <3>2
  <2>3. proc' = proc
    BY <1>5 DEF Poll
  <2> QED
    BY <1>2, <2>1, <2>2, <2>3
<1>6. CASE UNCHANGED vars
  <2>1. UNCHANGED <<proc, dialogs, flag, shown, ghosts, closing, closed, ops, rushed, outdated>>
    BY <1>6 DEF vars
  <2> QED
    BY <1>6, <2>1 DEF Inv, TypeOK, Nested, Barrier, LateBarred, Reported, LatestShown,
       Alone, AllHeld, Main, Equipped, Historical
<1> QED
  BY <1>1, <1>3, <1>4, <1>5, <1>6 DEF Next

LEMMA Invariance == Spec => []Inv
<1>1. Init => Inv
  BY Initially
<1>2. Inv /\ [Next]_vars => Inv'
  BY EachStep
<1> QED
  BY <1>1, <1>2, PTL DEF Spec

\* The table of operations, the stack of questions and the flags are well formed
\* whatever the order in which threads end, signals arrive and questions are
\* answered (proc stands for the captured locals of the handlers of ui/app.py).
THEOREM WindowTypeCorrect == Spec => []TypeOK
<1>1. Inv => TypeOK
  BY DEF Inv
<1> QED
  BY <1>1, Invariance, PTL

\* A result asked for before a newer scan or session was begun is never shown,
\* even when the user gets through a gap of the guards (_session_context_token,
\* compared in on_done, _load_session_active and done of a refresh).
THEOREM LatestIsShown == Spec => []LatestShown
<1>1. Inv => LatestShown
  BY DEF Inv
<1> QED
  BY <1>1, Invariance, PTL

\* As long as the user goes through no gap of the guards, a thread that changes
\* files has the window to itself: no other thread scans, proves or changes any
\* (_operation_busy and what each entry looks at).
THEOREM ChangerIsAlone == Spec => []OneChanger
<1>1. Inv => OneChanger
  <2> SUFFICES ASSUME Inv, NEW i \in Ids, NEW j \in Ids, i # j, ~rushed,
                      proc[i].state = "run", proc[j].state = "run",
                      proc[i].at \in {"trash", "copying", "moving", "folder"},
                      proc[j].at \in Controlled \union {"load", "verify", "trash"}
               PROVE  FALSE
    BY DEF OneChanger
  <2>1. Main(i) /\ Main(j)
    BY DEF Main, Preflight, Behind, Controlled, MergeJobs
  <2> QED
    BY <2>1 DEF Inv, Alone
<1> QED
  BY <1>1, Invariance, PTL

\* closeEvent is a barrier: once the window is closing no question opens and no
\* job starts but a look for vanished files and the tables of a recompute that was
\* under way, and it goes only when no thread runs but a scan of photos (_bg_run,
\* _ui_bg_run, _running_workers, _poll_shutdown).
THEOREM ClosesAsABarrier == Spec => ClosesCleanly
<1>1. ASSUME Inv, [Next]_vars
      PROVE  [/\ closing => /\ dialogs' = <<>>
                            /\ \A i \in Ids : proc'[i].state = "run" =>
                                 \/ proc[i].state = "run" \/ proc'[i].at = "sweep"
                                 \/ proc'[i].at = "tables" /\ proc[i].at = "recompute"
              /\ closed' /\ ~closed /\ ~rushed =>
                   \A i \in Ids : proc'[i].state = "run" => proc'[i].at = "photos"]_vars
  <2>1. CASE UNCHANGED vars
    BY <2>1
  <2>2. CASE ~UNCHANGED vars
    BY <1>1, <2>2, EachStep DEF Passes
  <2> QED
    BY <2>1, <2>2
<1> QED
  BY <1>1, Invariance, PTL DEF Spec, ClosesCleanly
=============================================================================
