------------------------------- MODULE Window -------------------------------
(***************************************************************************)
(* The operations of the main window (ui/app.py) and the threads they run  *)
(* (ui/workers.py).                                                        *)
(*                                                                         *)
(* Everything below runs in one GUI thread except the jobs: a handler      *)
(* starts a job, the job ends some time later and queues a signal, and the *)
(* event loop delivers the signal later still.  A question runs the event  *)
(* loop again inside the handler that asks it: while it is open the user   *)
(* can only answer it, but jobs end, signals are delivered, handlers of    *)
(* those signals may open a question on top, and the window may be         *)
(* activated.  What keeps the operations apart is a handful of flags, the  *)
(* slots that hold the current worker of each kind, a token that changes   *)
(* whenever another result takes over, and the identity of the result.     *)
(*                                                                         *)
(* One operation is one entry of proc.  The token, the result, the event   *)
(* that cancels a refresh and the slot are only ever compared with what    *)
(* the operation saw when it captured them, so proc keeps the outcome of   *)
(* the comparison: it is lost when the window changes the other side.      *)
(***************************************************************************)
EXTENDS Naturals, Sequences, FiniteSets

CONSTANTS N,        \* operations in flight at a time
          MaxOps    \* operations and deletions in the Finder by the user

ASSUME SizesAssumption == N \in Nat \ {0} /\ MaxOps \in Nat

VARIABLES proc,     \* the operations
          dialogs,  \* the operations with an open question, the topmost first
          flag,     \* _trashing, _merging, _loading, _sweeping, ...
          shown,    \* what self.result is
          ghosts,   \* what it lists that is gone from the disk
          closing, closed,
          ops,      \* operations begun by the user (bounded by MaxOps)
          rushed,   \* an operation was begun in a gap the guards do not see
          outdated  \* a result was shown after a newer operation had begun

vars == <<proc, dialogs, flag, shown, ghosts, closing, closed, ops,
          rushed, outdated>>

Ids == 1..N
Finder == 0         \* the id of what a deletion outside the window removes

Background == {"probe", "sweep", "verify", "trash"}           \* self._bg
Helpers == {"roots", "validate", "resolve", "hint", "relink", \* self._ui_bg
            "tables"}
MergeJobs == {"prepare", "copying", "moving", "folder"}       \* merge_worker
Controlled == {"scan", "refresh", "pair"} \union MergeJobs
Publishers == {"scan", "load", "refresh"}
Jobs == Background \union Helpers \union Controlled
          \union {"load", "recompute", "photos"}
Questions == {"storage", "picker", "confirm", "root", "review", "group",
              "pairs", "relinking", "trashing", "plan", "source", "told"}
Ops == {"scan", "compare", "open", "reopen", "refresh", "batch", "group",
        "shared", "remove", "merge", "sweep", "recompute", "photos"}

NoProc == [at |-> "none", state |-> "idle", op |-> "none", out |-> "none",
           held |-> FALSE, cancel |-> FALSE, pause |-> "never",
           tok |-> FALSE, res |-> FALSE, ev |-> FALSE, late |-> FALSE,
           fresh |-> FALSE, asked |-> "no", items |-> {}]

Running(kinds) ==
  \E i \in Ids : /\ proc[i].at \in kinds /\ proc[i].state = "run"
                 /\ proc[i].held

\* Mutant: the worker of a pair is forgotten.
BusyWithoutPair ==
  \/ flag["loading"] \/ flag["trashing"] \/ flag["merging"]
  \/ flag["checking"]
  \/ Running({"scan", "refresh", "recompute"} \union MergeJobs \union Background)

\* _operation_busy; without selecting marks and preparing the tables, during
\* which the program refuses more.
Busy ==
  \/ flag["loading"] \/ flag["trashing"] \/ flag["merging"]
  \/ flag["checking"]
  \/ Running(Controlled \union Background \union {"recompute"})

\* _session_refresh_busy: also while a moved volume is looked for
RefreshBusy == Busy \/ flag["relinking"]

\* What start_scan refuses to start over; it does not look at merge_worker.
ScanBlocked ==
  \/ flag["trashing"] \/ flag["merging"] \/ flag["loading"]
  \/ flag["probing"] \/ flag["checking"]
  \/ Running({"scan", "refresh", "pair", "recompute"} \union Background)

\* The gaps the guards do not see: a click falls between the end of a job and
\* the delivery of its signal, or comes while the paths of a pair are looked
\* up; a merge looks only at _merging and _trashing.
Rushes ==
  \E i \in Ids : \/ proc[i].at \in {"probe", "resolve", "hint", "relink", "load"}
                 \/ /\ proc[i].state = "queued"
                    /\ proc[i].at \notin {"sweep", "recompute", "tables", "photos"}

---------------------------------------------------------------------------
(* Steps on the table of operations.                                       *)

SameSlot(j, k) == j = k \/ {j, k} \subseteq MergeJobs

\* A worker is started and kept in its slot; what the slot held is let go.
Start(ps, i, job) ==
  [j \in Ids |->
     IF j = i THEN [ps[i] EXCEPT !.at = job, !.state = "run", !.out = "none",
                                 !.held = TRUE, !.cancel = FALSE,
                                 !.pause = "never"]
     ELSE IF job \notin Background \union Helpers /\ SameSlot(ps[j].at, job)
          THEN [ps[j] EXCEPT !.held = FALSE]
          ELSE ps[j]]

Ends(ps, i) == [ps EXCEPT ![i] = NoProc]

\* self._session_context_token += 1
NewToken(ps) == [j \in Ids |-> [ps[j] EXCEPT !.tok = FALSE]]

\* self.result = another one
NewResult(ps) == [j \in Ids |-> [ps[j] EXCEPT !.res = FALSE]]

\* Another cancel event, or none, is the one of the refresh.
NewEvent(ps) == [j \in Ids |-> [ps[j] EXCEPT !.ev = FALSE]]

By(op) == [NoProc EXCEPT !.op = op]

\* The operation captures the token, or the token and the result, as they
\* are now.
WithToken(p) == [p EXCEPT !.tok = TRUE]
WithResult(p) == [p EXCEPT !.tok = TRUE, !.res = TRUE]

\* Another result is being made: one asked for earlier comes too late.
Supersedes(ps, i) ==
  [j \in Ids |-> IF j # i /\ ps[j].at \in Publishers
                 THEN [ps[j] EXCEPT !.late = TRUE] ELSE ps[j]]

Queued(i, job) == proc[i].at = job /\ proc[i].state = "queued"
Flag(name, value) == flag' = [flag EXCEPT ![name] = value]
Lowered(names) == flag' = [f \in DOMAIN flag |-> flag[f] /\ f \notin names]

\* Mutant: the question does not hold the window.
AskModeless(i, question) ==
  /\ proc' = [proc EXCEPT ![i].at = question, ![i].state = "asks", ![i].held = FALSE]
  /\ UNCHANGED dialogs

\* A modal question: the handler that asks it waits, the event loop goes on.
Ask(i, question) ==
  /\ proc' = [proc EXCEPT ![i].at = question, ![i].state = "asks", ![i].held = FALSE]
  /\ dialogs' = <<i>> \o dialogs

Answers(i, question) ==
  /\ dialogs # <<>> /\ Head(dialogs) = i /\ proc[i].at = question
  /\ dialogs' = Tail(dialogs)

\* The result of i takes the place of the one shown.
Publish(i, what) ==
  /\ shown' = what /\ ghosts' = proc[i].items
  /\ outdated' = (outdated \/ proc[i].late)

KeepShown == UNCHANGED <<shown, ghosts, outdated>>
KeepRest == UNCHANGED <<closing, closed, ops, rushed>>
InLine == UNCHANGED dialogs /\ KeepShown /\ KeepRest

---------------------------------------------------------------------------
(* The user.                                                               *)

UserFree == dialogs = <<>> /\ ~closing /\ ops < MaxOps
Free(i) == proc[i].state = "idle" /\ \A j \in 1..(i - 1) : proc[j].state # "idle"
Fair == shown = "live"                 \* live and not partial
Historical == shown \in {"past", "partial"}

\* The page of the results cannot be reached while a scan is shown.
OnResults == \A i \in Ids : proc[i].at # "scan"

Begins(i, gap) ==
             /\ UserFree /\ Free(i)
             /\ ops' = ops + 1 /\ rushed' = (rushed \/ gap)
             /\ UNCHANGED <<closing, closed>> /\ KeepShown

StartScan(i) ==
  /\ ~ScanBlocked /\ Begins(i, Rushes)
  /\ proc' = Start([proc EXCEPT ![i] = By("scan")], i, "probe")
  /\ Flag("probing", TRUE)
  /\ UNCHANGED dialogs

Compare(i) ==
  /\ ~Busy /\ Begins(i, Rushes)
  /\ proc' = [proc EXCEPT ![i] = [By("compare") EXCEPT !.at = "picker",
                                                       !.state = "asks"]]
  /\ dialogs' = <<i>>
  /\ UNCHANGED flag

\* The workers that have ended lose their slots, so that signals they have
\* queued are not taken for those of the session that is loaded now.
FinishedLetGo(ps) ==
  [j \in Ids |-> IF ps[j].at \in Controlled \union {"load"} /\ ps[j].state = "queued"
                 THEN [ps[j] EXCEPT !.held = FALSE] ELSE ps[j]]

OpenSession(i, op) ==
  /\ ~RefreshBusy /\ Begins(i, Rushes)
  /\ \E ps \in {NewEvent(NewToken(FinishedLetGo(proc)))} :
       proc' = Supersedes(Start([ps EXCEPT ![i] = WithToken(By(op))], i, "load"), i)
  /\ flag' = [flag EXCEPT !["loading"] = TRUE, !["relinking"] = FALSE]
  /\ UNCHANGED dialogs

Asks(i, op, question) ==
  /\ ~Busy /\ Begins(i, Rushes)
  /\ proc' = [proc EXCEPT ![i] = [By(op) EXCEPT !.at = question, !.state = "asks",
                                                !.res = (op = "refresh")]]
  /\ dialogs' = <<i>>
  /\ UNCHANGED flag

Refresh(i) == Historical /\ ~RefreshBusy /\ Asks(i, "refresh", "confirm")
RemoveBatch(i) == Fair /\ OnResults /\ Asks(i, "batch", "review")
RemoveGroup(i) == Historical /\ OnResults /\ Asks(i, "group", "group")

BeginVerify(i, fresh) ==
  /\ proc' = Start([proc EXCEPT ![i] = [By("remove") EXCEPT !.fresh = fresh]], i, "verify")
  /\ Flag("trashing", TRUE)

RemoveShared(i) ==
  /\ Fair /\ OnResults /\ ~Busy /\ Begins(i, Rushes)
  /\ BeginVerify(i, FALSE)
  /\ UNCHANGED dialogs

\* A pair of a historical result is looked up first, whatever runs.
LookUp(i, op) ==
  /\ Historical /\ OnResults /\ Begins(i, Rushes \/ Busy)
  /\ op = "merge" => ~flag["merging"] /\ ~flag["trashing"]
  /\ proc' = Start([proc EXCEPT ![i] = WithToken(By(op))], i, "resolve")
  /\ UNCHANGED <<dialogs, flag>>

\* _run_sim_merge: ps is the table when it is called.
RunMerge(ps, i) ==
  /\ proc' = Start([ps EXCEPT ![i] = WithResult(@)], i, "prepare")
  /\ Flag("merging", TRUE)

Merge(i) ==
  /\ Fair /\ OnResults /\ ~flag["merging"] /\ ~flag["trashing"]
  /\ Begins(i, Rushes)
  /\ RunMerge([proc EXCEPT ![i] = By("merge")], i)
  /\ UNCHANGED dialogs

\* PerceptualTabController.scan: looks only at its own worker.
Photos(i) ==
  /\ shown \in {"live", "partial"} /\ OnResults /\ ~Running({"photos"})
  /\ Begins(i, FALSE)
  /\ proc' = Start([proc EXCEPT ![i] = By("photos")], i, "photos")
  /\ UNCHANGED <<dialogs, flag>>

\* Files that the result lists are deleted outside the window.
FinderDelete ==
  /\ ~closing /\ ops < MaxOps
  /\ shown \in {"live", "partial"} /\ Finder \notin ghosts
  /\ ops' = ops + 1
  /\ ghosts' = ghosts \union {Finder}
  /\ proc' = [j \in Ids |-> IF proc[j].at \in {"scan", "refresh"}
                            THEN [proc[j] EXCEPT !.items = @ \union {Finder}]
                            ELSE proc[j]]
  /\ UNCHANGED <<dialogs, flag, shown, closing, closed, rushed, outdated>>

\* cancel_scan
CancelPreflight(ps) == /\ proc' = NewEvent(ps)
                       /\ Flag("checking", FALSE)

\* _controlled_scan_worker: the first that runs, in this order
Worker(i) ==
  LET runs(j, kinds) == /\ proc[j].at \in kinds /\ proc[j].state = "run"
                        /\ proc[j].held
  IN \/ runs(i, {"refresh"})
     \/ runs(i, {"pair"}) /\ ~Running({"refresh"})
     \/ runs(i, MergeJobs) /\ ~Running({"refresh", "pair"})
     \/ runs(i, {"scan"}) /\ ~Running({"refresh", "pair"} \union MergeJobs)

\* Mutant: a paused thread is not woken.
StoppedAsleep(p) == [p EXCEPT !.cancel = TRUE]

Stopped(p) == [p EXCEPT !.cancel = TRUE,
                        !.pause = IF @ = "now" THEN "over" ELSE @]

Cancel ==
  /\ dialogs = <<>> /\ ~closing
  /\ \/ \E i \in Ids :
          /\ flag["loading"] /\ proc[i].at = "load" /\ proc[i].state = "run"
          /\ proc[i].held /\ ~proc[i].cancel
          /\ proc' = [proc EXCEPT ![i].cancel = TRUE]
          /\ UNCHANGED flag
     \/ /\ ~(flag["loading"] /\ Running({"load"})) /\ flag["checking"]
        /\ CancelPreflight(proc)
     \/ /\ ~(flag["loading"] /\ Running({"load"})) /\ ~flag["checking"]
        /\ \E i \in Ids : /\ Worker(i) /\ ~proc[i].cancel
                          /\ proc' = [proc EXCEPT ![i] = Stopped(@)]
        /\ UNCHANGED flag
  /\ InLine

\* toggle_pause; once per job
Pause(i) ==
  /\ dialogs = <<>> /\ ~closing /\ Worker(i) /\ proc[i].pause = "never"
  /\ proc' = [proc EXCEPT ![i].pause = "now"]
  /\ UNCHANGED flag /\ InLine

Resume(i) ==
  /\ dialogs = <<>> /\ ~closing /\ Worker(i) /\ proc[i].pause = "now"
  /\ proc' = [proc EXCEPT ![i].pause = "over"]
  /\ UNCHANGED flag /\ InLine

\* The window is activated: _on_app_state looks for what has vanished.
Sweep(i) ==
  /\ Free(i) /\ shown \in {"live", "partial"} /\ ~closed
  /\ ~Busy /\ ~flag["sweeping"]
  /\ proc' = Start([proc EXCEPT ![i] = By("sweep")], i, "sweep")
  /\ Flag("sweeping", TRUE)
  /\ InLine

---------------------------------------------------------------------------
(* The jobs.                                                               *)

If(condition, outs) == IF condition THEN outs ELSE {}

\* What a worker of each kind may report; a failure that has the effect of
\* another outcome is not told apart from it.
ScanOutcomes(p) == {"live", "failed"} \union If(p.cancel, {"partial"})
LoadOutcomes(p) == {"past", "failed"}
RootsOutcomes(p) == {"whole", "failed"} \union If(p.asked # "given", {"ask"})
                      \union If(p.asked = "no", {"auto"})
ResolveOutcomes(p) == {"there", "missing"} \union If(p.asked = "no", {"known", "moved"})
PairOutcomes(p) == {"unfit"} \union If(~p.cancel, {"whole"})
PrepareOutcomes(p) == {"failed"} \union If(p.cancel, {"none"})
                        \union If(~p.cancel, {"empty", "near", "far"})
MoveOutcomes(p) == {"all", "some", "failed"} \union If(p.cancel, {"stopped"})
FolderOutcomes(p) == {"left", "abort", "gone"}

Outcomes(p) ==
  CASE p.at = "scan" -> ScanOutcomes(p)
    [] p.at = "load" -> LoadOutcomes(p)
    [] p.at = "refresh" -> {"live", "failed"}
    [] p.at = "roots" -> RootsOutcomes(p)
    [] p.at \in {"validate", "hint", "relink"} -> {"fits", "unfit", "failed"}
    [] p.at = "resolve" -> ResolveOutcomes(p)
    [] p.at = "pair" -> PairOutcomes(p)
    [] p.at = "prepare" -> PrepareOutcomes(p)
    [] p.at = "copying" -> {"copied"}
    [] p.at = "moving" -> MoveOutcomes(p)
    [] p.at = "folder" -> FolderOutcomes(p)
    [] p.at = "probe" -> {"enough", "low", "no"}
    [] p.at = "verify" -> {"proven", "none"}
    [] p.at = "trash" -> {"moved", "broken"}
    [] p.at = "sweep" -> {"swept"}
    [] p.at \in {"tables", "photos"} -> {"ready"}
    [] p.at = "recompute" -> {IF p.cancel THEN "cancelled" ELSE "recomputed"}

\* What the job has taken off the disk, or found off it, when it ends.
Removed(i, out) ==
  CASE out \in {"all", "gone"} -> {{i}}
    [] \/ out \in {"moved", "broken", "some", "stopped"}
       \/ proc[i].at = "moving" /\ out = "failed" -> {{}, {i}}
    [] out = "swept" -> {ghosts}
    [] OTHER -> {proc[i].items}

\* A recompute works in the place of the result it was started for; what the
\* other jobs remove is listed by a result of the present, not by a loaded one.
GhostsAfter(i, out, items) ==
  CASE out = "recomputed" -> IF proc[i].res THEN ghosts \ items ELSE ghosts
    [] shown # "past" /\ proc[i].at \in {"trash", "moving", "folder"} -> ghosts \union items
    [] OTHER -> ghosts

End(i) ==
  /\ proc[i].state = "run" /\ proc[i].pause # "now"
  /\ \E out \in Outcomes(proc[i]) : \E items \in Removed(i, out) :
       /\ proc' = [proc EXCEPT ![i].state = "queued", ![i].out = out,
                               ![i].items = items, ![i].cancel = FALSE,
                               ![i].pause = "never"]
       /\ ghosts' = GhostsAfter(i, out, items)
  /\ UNCHANGED <<dialogs, flag, shown, closing, closed, ops, rushed, outdated>>

---------------------------------------------------------------------------
(* The signals and the answers.                                            *)

\* _bg_run and _ui_bg_run: nothing is done on a window that is closing.
Barred(i) ==
  /\ proc[i].state = "queued" /\ proc[i].at \in Background \union Helpers
  /\ closing
  /\ proc' = Ends(proc, i) /\ UNCHANGED flag /\ InLine

\* Mutant: the handlers do not look at _closing.
DeliversAnyway(i, job) == Queued(i, job)

Delivers(i, job) == Queued(i, job) /\ ~(closing /\ job \in Background \union Helpers)

\* _begin_scan
BeginScan(i) ==
  proc' = Supersedes(Start([NewToken(proc) EXCEPT ![i] = WithToken(By("scan"))],
                           i, "scan"), i)

\* _preflight_storage_then_scan.finish; "no" is a critical lack of space or
\* sources that changed meanwhile
Probed(i) ==
  /\ Delivers(i, "probe")
  /\ \/ /\ proc[i].out = "enough"
        /\ BeginScan(i) /\ Lowered({"probing", "relinking"}) /\ UNCHANGED dialogs
     \/ proc[i].out = "low" /\ Ask(i, "storage") /\ Flag("probing", FALSE)
     \/ /\ proc[i].out = "no"
        /\ proc' = Ends(proc, i) /\ Flag("probing", FALSE) /\ UNCHANGED dialogs
  /\ KeepShown /\ KeepRest

\* The warning about space, or the choice of two folders to compare: the scan
\* begins without another look at what runs.
ScanAnswered(i) ==
  /\ \E question \in {"storage", "picker"} : Answers(i, question)
  /\ \/ BeginScan(i) /\ Flag("relinking", FALSE)
     \/ proc' = Ends(proc, i) /\ UNCHANGED flag
  /\ KeepShown /\ KeepRest

\* on_done, on_scan_failed
ScanDone(i) ==
  /\ Queued(i, "scan")
  /\ \/ /\ proc[i].held /\ proc[i].tok /\ ~closing /\ proc[i].out # "failed"
        /\ proc' = Ends(NewToken(NewResult(proc)), i)
        /\ Publish(i, proc[i].out) /\ Flag("relinking", FALSE)
     \/ /\ ~(proc[i].held /\ proc[i].tok) \/ closing \/ proc[i].out = "failed"
        /\ proc' = Ends(proc, i) /\ KeepShown /\ UNCHANGED flag
  /\ UNCHANGED dialogs /\ KeepRest

\* Mutant: the token is not compared.
LoadActiveAnyToken(i) == proc[i].held /\ ~closing

LoadActive(i) == proc[i].held /\ proc[i].tok /\ ~closing

\* _begin_loaded_session_refresh: ps is the table when it is called.
BeginRefresh(ps, i) ==
  \E qs \in {Start(NewEvent(ps), i, "roots")} :
     proc' = [qs EXCEPT ![i].tok = TRUE, ![i].ev = TRUE, ![i].asked = "no"]

\* _load_session_ok, _err, _cancelled
SessionLoaded(i) ==
  /\ Queued(i, "load")
  /\ \/ /\ LoadActive(i) /\ proc[i].out = "past"
        /\ Publish(i, "past")
        /\ \/ /\ proc[i].op = "open"
              /\ proc' = Ends(NewResult(proc), i)
              /\ Flag("loading", FALSE)
           \/ /\ proc[i].op = "reopen"
              /\ BeginRefresh([NewResult(proc) EXCEPT ![i].res = TRUE], i)
              /\ flag' = [flag EXCEPT !["loading"] = FALSE, !["checking"] = TRUE]
     \/ /\ LoadActive(i) /\ proc[i].out = "failed"
        /\ proc' = Ends(proc, i) /\ Flag("loading", FALSE) /\ KeepShown
     \/ ~LoadActive(i) /\ proc' = Ends(proc, i) /\ UNCHANGED flag /\ KeepShown
  /\ UNCHANGED dialogs /\ KeepRest

\* refresh_loaded_session goes on with the result it saw before it asked.
RefreshConfirmed(i) ==
  /\ Answers(i, "confirm")
  /\ \/ /\ BeginRefresh(proc, i) /\ Flag("checking", TRUE)
     \/ proc' = Ends(proc, i) /\ UNCHANGED flag
  /\ KeepShown /\ KeepRest

\* _preflight_session_refresh: checked, failed
RefreshWanted(i) == proc[i].tok /\ proc[i].res /\ flag["checking"]

RootsChecked(i) ==
  /\ Delivers(i, "roots")
  /\ \/ /\ proc[i].ev /\ RefreshWanted(i) /\ proc[i].out = "auto"
        /\ proc' = [Start(proc, i, "roots") EXCEPT ![i].asked = "auto"]
        /\ UNCHANGED <<dialogs, flag>>
     \/ /\ proc[i].ev /\ RefreshWanted(i) /\ proc[i].out = "ask"
        /\ Ask(i, "root") /\ UNCHANGED flag
     \/ /\ proc[i].ev /\ RefreshWanted(i) /\ proc[i].out = "whole"
        /\ proc' = NewEvent(Start(proc, i, "refresh"))
        /\ Flag("checking", FALSE) /\ UNCHANGED dialogs
     \/ /\ proc[i].ev /\ proc[i].tok /\ proc[i].out = "failed"
        /\ CancelPreflight(Ends(proc, i)) /\ UNCHANGED dialogs
     \/ /\ \/ ~proc[i].ev \/ ~proc[i].tok
           \/ ~RefreshWanted(i) /\ proc[i].out # "failed"
        /\ proc' = Ends(proc, i) /\ UNCHANGED <<dialogs, flag>>
  /\ KeepShown /\ KeepRest

\* _offer_session_refresh_root
RootAnswered(i) ==
  /\ Answers(i, "root")
  /\ \/ proc' = Start(proc, i, "validate") /\ UNCHANGED flag
     \/ CancelPreflight(Ends(proc, i))
  /\ KeepShown /\ KeepRest

RootValidated(i) ==
  /\ Delivers(i, "validate")
  /\ \/ /\ RefreshWanted(i) /\ proc[i].out = "fits"
        /\ proc' = [Start(proc, i, "roots") EXCEPT ![i].ev = TRUE, ![i].asked = "given"]
        /\ UNCHANGED flag
     \/ /\ \/ RefreshWanted(i) /\ proc[i].out = "unfit"
           \/ proc[i].tok /\ proc[i].out = "failed"
        /\ CancelPreflight(Ends(proc, i))
     \/ /\ \/ ~RefreshWanted(i) /\ proc[i].out # "failed"
           \/ ~proc[i].tok
        /\ proc' = Ends(proc, i) /\ UNCHANGED flag
  /\ InLine

\* _start_session_refresh: done, cancelled, failed
RefreshDone(i) ==
  /\ Queued(i, "refresh")
  /\ \/ /\ proc[i].held /\ proc[i].tok /\ proc[i].res /\ ~closing
        /\ proc[i].out = "live"
        /\ proc' = Ends(NewToken(NewResult(proc)), i)
        /\ Publish(i, "live") /\ Flag("relinking", FALSE)
     \/ /\ \/ ~(proc[i].held /\ proc[i].tok /\ proc[i].res) \/ closing
           \/ proc[i].out = "failed"
        /\ proc' = Ends(proc, i) /\ KeepShown /\ UNCHANGED flag
  /\ UNCHANGED dialogs /\ KeepRest

---------------------------------------------------------------------------
(* Removal.                                                                *)

\* The review of the marks, or the question of the fresh check.
RemovalAnswered(i) ==
  /\ \E question \in {"review", "group"} : Answers(i, question)
  /\ \/ BeginVerify(i, proc[i].op = "group")
     \/ proc' = Ends(proc, i) /\ UNCHANGED flag
  /\ KeepShown /\ KeepRest

\* after_verify; also a verification that failed
Verified(i) ==
  /\ Delivers(i, "verify")
  /\ Flag("trashing", FALSE)
  /\ \/ proc[i].out = "proven" /\ Ask(i, "trashing")
     \/ proc[i].out = "none" /\ proc' = Ends(proc, i) /\ UNCHANGED dialogs
  /\ KeepShown /\ KeepRest

TrashConfirmed(i) ==
  /\ Answers(i, "trashing")
  /\ \/ proc' = Start(proc, i, "trash") /\ Flag("trashing", TRUE)
     \/ proc' = Ends(proc, i) /\ UNCHANGED flag
  /\ KeepShown /\ KeepRest

\* _recompute_async: dropped while another recompute runs
RecomputeAsync(i) ==
  IF Running({"recompute"})
  THEN proc' = Ends(proc, i)
  ELSE proc' = Start([proc EXCEPT ![i] = [By("recompute") EXCEPT
                        !.res = TRUE, !.items = proc[i].items]], i, "recompute")

\* ok and err of the four flows
Trashed(i) ==
  /\ Delivers(i, "trash")
  /\ Flag("trashing", FALSE)
  /\ \/ proc[i].out = "moved" /\ ~proc[i].fresh /\ RecomputeAsync(i)
     \/ (proc[i].out = "broken" \/ proc[i].fresh) /\ proc' = Ends(proc, i)
  /\ InLine

\* The sweep does not look again at what runs by now.
Swept(i) ==
  /\ Delivers(i, "sweep")
  /\ Flag("sweeping", FALSE)
  /\ \/ proc[i].items # {} /\ RecomputeAsync(i)
     \/ proc[i].items = {} /\ proc' = Ends(proc, i)
  /\ InLine

\* _refresh_models, which does not look at _closing: a large result gets its
\* tables from a thread.  The other handlers that come to it have looked.
Recomputed(i) ==
  /\ Queued(i, "recompute")
  /\ \/ /\ proc[i].out = "recomputed"
        /\ proc' = Start([proc EXCEPT ![i] = By("recompute")], i, "tables")
     \/ proc' = Ends(proc, i)
  /\ UNCHANGED flag /\ InLine

TablesReady(i) ==
  /\ Delivers(i, "tables")
  /\ proc' = Ends(proc, i) /\ UNCHANGED flag /\ InLine

\* done, failed: the slot is emptied, whoever is in it by now.
PhotosDone(i) ==
  /\ Queued(i, "photos")
  /\ \E ps \in {[j \in Ids |-> IF proc[j].at = "photos"
                              THEN [proc[j] EXCEPT !.held = FALSE] ELSE proc[j]]} :
       proc' = Ends(ps, i)
  /\ UNCHANGED flag /\ InLine

---------------------------------------------------------------------------
(* Pairs and merges.                                                       *)

\* _offer_session_relink asks where a volume or a root has moved, one at a time.
OfferRelink(i) ==
  \/ flag["relinking"] /\ proc' = Ends(proc, i) /\ UNCHANGED <<dialogs, flag>>
  \/ ~flag["relinking"] /\ Ask(i, "relinking") /\ Flag("relinking", TRUE)

\* The paths are looked up again under the root that was found.
ResolveAgain(i) == proc' = [Start(proc, i, "resolve") EXCEPT ![i].asked = "given"]

\* checked; then _verify_session_pair_then_action asks, unless something runs.
Resolved(i) ==
  /\ Delivers(i, "resolve")
  /\ \/ /\ proc[i].tok /\ proc[i].out = "there" /\ ~Busy
        /\ Ask(i, "pairs") /\ UNCHANGED flag
     \/ /\ proc[i].tok /\ proc[i].out = "known" /\ shown = "past"
        /\ proc' = Start(proc, i, "hint") /\ UNCHANGED <<dialogs, flag>>
     \/ /\ proc[i].tok /\ proc[i].out = "moved" /\ shown = "past"
        /\ OfferRelink(i)
     \/ /\ \/ ~proc[i].tok
           \/ IF proc[i].out = "there" THEN Busy
              ELSE proc[i].out = "missing" \/ shown # "past"
        /\ proc' = Ends(proc, i) /\ UNCHANGED <<dialogs, flag>>
  /\ KeepShown /\ KeepRest

\* _try_session_relink_hint: an earlier choice of the user is checked first.
HintChecked(i) ==
  /\ Delivers(i, "hint")
  /\ \/ /\ proc[i].tok /\ proc[i].out = "fits"
        /\ ResolveAgain(i) /\ UNCHANGED <<dialogs, flag>>
     \/ proc[i].tok /\ proc[i].out # "fits" /\ OfferRelink(i)
     \/ ~proc[i].tok /\ proc' = Ends(proc, i) /\ UNCHANGED <<dialogs, flag>>
  /\ KeepShown /\ KeepRest

RelinkAnswered(i) ==
  /\ Answers(i, "relinking")
  /\ \/ proc' = Start(proc, i, "relink") /\ UNCHANGED flag
     \/ proc' = Ends(proc, i) /\ Flag("relinking", FALSE)
  /\ KeepShown /\ KeepRest

Relinked(i) ==
  /\ Delivers(i, "relink")
  /\ \/ /\ proc[i].tok /\ Flag("relinking", FALSE)
        /\ \/ proc[i].out = "fits" /\ ResolveAgain(i)
           \/ proc[i].out # "fits" /\ proc' = Ends(proc, i)
     \/ ~proc[i].tok /\ proc' = Ends(proc, i) /\ UNCHANGED flag
  /\ InLine

PairConfirmed(i) ==
  /\ Answers(i, "pairs")
  /\ \/ /\ proc' = Start([proc EXCEPT ![i] = [WithResult(@) EXCEPT !.asked = "no"]],
                         i, "pair")
     \/ proc' = Ends(proc, i)
  /\ UNCHANGED flag /\ KeepShown /\ KeepRest

\* verified, failed; then _sim_trash_flow or _run_sim_merge of a fresh proof
PairUsable(i) == /\ proc[i].held /\ proc[i].tok /\ proc[i].res /\ ~closing
                 /\ proc[i].out = "whole"

PairVerified(i) ==
  /\ Queued(i, "pair")
  /\ \E ps \in {[proc EXCEPT ![i].fresh = TRUE]} :
       \/ /\ PairUsable(i) /\ proc[i].op = "shared" /\ ~Busy
          /\ BeginVerify(i, TRUE)
       \/ /\ PairUsable(i) /\ proc[i].op = "merge"
          /\ ~flag["merging"] /\ ~flag["trashing"]
          /\ RunMerge(ps, i)
       \/ /\ \/ ~PairUsable(i)
             \/ proc[i].op = "shared" /\ Busy
             \/ proc[i].op = "merge" /\ (flag["merging"] \/ flag["trashing"])
          /\ proc' = Ends(proc, i) /\ UNCHANGED flag
  /\ UNCHANGED dialogs /\ KeepShown /\ KeepRest

MergeActive(i) == proc[i].held /\ proc[i].tok /\ proc[i].res

\* _sim_merge_finish
Finish(i) ==
  /\ Flag("merging", FALSE)
  /\ IF proc[i].items # {} /\ ~proc[i].fresh
     THEN RecomputeAsync(i) ELSE proc' = Ends(proc, i)

\* _sim_merge_prepared, _sim_merge_preparation_failed
MergePrepared(i) ==
  /\ Queued(i, "prepare")
  /\ \/ /\ ~MergeActive(i)
        /\ proc' = Ends(proc, i) /\ UNCHANGED <<dialogs, flag>>
     \/ /\ MergeActive(i)
        /\ closing \/ proc[i].out \in {"none", "failed"}
        /\ proc' = Ends(proc, i) /\ Flag("merging", FALSE) /\ UNCHANGED dialogs
     \/ /\ MergeActive(i) /\ ~closing
        /\ \/ proc[i].out = "empty" /\ Ask(i, "source")
           \/ proc[i].out \in {"near", "far"} /\ Ask(i, "plan")
        /\ UNCHANGED flag
  /\ KeepShown /\ KeepRest

\* _sim_merge_on_plan: a move between two volumes is refused
PlanAnswered(i) ==
  /\ Answers(i, "plan")
  /\ \/ proc' = Start(proc, i, "copying") /\ UNCHANGED flag
     \/ proc[i].out = "near" /\ proc' = Start(proc, i, "moving") /\ UNCHANGED flag
     \/ proc' = Ends(proc, i) /\ Flag("merging", FALSE)
  /\ KeepShown /\ KeepRest

\* managed_done, managed_failed
Managed(i, job) == Queued(i, job) /\ MergeActive(i) /\ ~closing

Unmanaged(i) ==
  /\ \E job \in MergeJobs \ {"prepare"} : Queued(i, job)
  /\ ~MergeActive(i) \/ closing
  /\ proc' = Ends(proc, i) /\ UNCHANGED flag /\ InLine

Copied(i) ==
  /\ Managed(i, "copying")
  /\ proc' = Ends(proc, i) /\ Flag("merging", FALSE) /\ InLine

\* _sim_merge_on_moved; of a move that failed nobody knows what it moved
Moved(i) ==
  /\ Managed(i, "moving")
  /\ \/ proc[i].out = "stopped" /\ Finish(i) /\ UNCHANGED dialogs
     \/ /\ proc[i].out = "failed"
        /\ proc' = Ends(proc, i) /\ Flag("merging", FALSE) /\ UNCHANGED dialogs
     \/ proc[i].out = "some" /\ Ask(i, "told") /\ UNCHANGED flag
     \/ proc[i].out = "all" /\ Ask(i, "source") /\ UNCHANGED flag
  /\ KeepShown /\ KeepRest

SourceAnswered(i) ==
  /\ Answers(i, "source")
  /\ \/ proc' = Start(proc, i, "folder") /\ UNCHANGED flag
     \/ Finish(i)
  /\ KeepShown /\ KeepRest

\* _sim_merge_on_trash_step
FolderTrashed(i) ==
  /\ Managed(i, "folder")
  /\ \/ proc[i].out = "abort" /\ Ask(i, "told") /\ UNCHANGED flag
     \/ proc[i].out # "abort" /\ Finish(i) /\ UNCHANGED dialogs
  /\ KeepShown /\ KeepRest

Told(i) ==
  /\ Answers(i, "told")
  /\ Finish(i)
  /\ KeepShown /\ KeepRest

---------------------------------------------------------------------------
(* The end of the window.                                                  *)

\* closeEvent: a window with an open question cannot be closed
Close ==
  /\ dialogs = <<>> /\ ~closing
  /\ closing' = TRUE
  /\ proc' = [j \in Ids |->
       IF /\ proc[j].held /\ proc[j].state = "run"
          /\ proc[j].at \in Controlled \union {"load", "recompute"}
       THEN [Stopped(proc[j]) EXCEPT !.ev = FALSE]
       ELSE [proc[j] EXCEPT !.ev = FALSE]]
  /\ UNCHANGED <<dialogs, flag, closed, ops, rushed>> /\ KeepShown

\* closeEvent again, _poll_shutdown: none of _running_workers runs; the scan of
\* photos is not among them.
Poll ==
  /\ closing /\ ~closed /\ ~Running(Jobs \ {"photos"})
  /\ closed' = TRUE
  /\ UNCHANGED <<proc, dialogs, flag, closing, ops, rushed>> /\ KeepShown

---------------------------------------------------------------------------
\* A window in which nothing is under way: it has just been opened, or what
\* was done in it so far is over.
Init ==
  /\ proc = [i \in Ids |-> NoProc]
  /\ dialogs = <<>>
  /\ flag = [f \in {"trashing", "merging", "loading", "sweeping", "probing",
                    "checking", "relinking"} |-> FALSE]
  /\ shown \in {"none", "live", "partial", "past"} /\ ghosts = {}
  /\ closing = FALSE /\ closed = FALSE /\ ops = 0
  /\ rushed = FALSE /\ outdated = FALSE

Operation(i) ==
  \/ StartScan(i) \/ Compare(i) \/ OpenSession(i, "open")
  \/ OpenSession(i, "reopen") \/ Refresh(i) \/ RemoveBatch(i)
  \/ RemoveGroup(i) \/ RemoveShared(i) \/ Merge(i)
  \/ LookUp(i, "shared") \/ LookUp(i, "merge") \/ Photos(i)

Deliver(i) ==
  \/ Barred(i) \/ Probed(i) \/ ScanDone(i) \/ SessionLoaded(i)
  \/ RootsChecked(i) \/ RootValidated(i) \/ RefreshDone(i)
  \/ Verified(i) \/ Trashed(i) \/ Swept(i) \/ Recomputed(i)
  \/ TablesReady(i) \/ PhotosDone(i)
  \/ Resolved(i) \/ HintChecked(i) \/ Relinked(i) \/ PairVerified(i) \/ MergePrepared(i) \/ Unmanaged(i)
  \/ Copied(i) \/ Moved(i) \/ FolderTrashed(i)

Answer(i) ==
  \/ ScanAnswered(i) \/ RefreshConfirmed(i) \/ RootAnswered(i)
  \/ RemovalAnswered(i) \/ TrashConfirmed(i) \/ PairConfirmed(i)
  \/ RelinkAnswered(i)
  \/ PlanAnswered(i) \/ SourceAnswered(i) \/ Told(i)

\* A signal that was queued before the window went is still delivered.
Next ==
  \/ \E i \in Ids : ~closed /\ (Operation(i) \/ Sweep(i) \/ Pause(i) \/ Resume(i)
                                \/ End(i) \/ Answer(i))
  \/ \E i \in Ids : Deliver(i)
  \/ FinderDelete \/ Cancel \/ Close \/ Poll
  \/ closed /\ UNCHANGED vars

\* Jobs end unless they are paused and signals are delivered; a question is
\* answered, a paused job is resumed, the window is activated now and then.
Fairness ==
  /\ \A i \in Ids : /\ WF_vars(~closed /\ End(i)) /\ WF_vars(~closed /\ Deliver(i))
                    /\ WF_vars(~closed /\ Answer(i)) /\ WF_vars(~closed /\ Resume(i))
                    /\ WF_vars(~closed /\ Sweep(i))
  /\ WF_vars(Poll)

Spec == Init /\ [][Next]_vars /\ Fairness

---------------------------------------------------------------------------
(* What must hold.                                                         *)

Outs == {"none", "live", "partial", "past", "failed", "whole", "ask", "auto",
         "there", "missing", "known", "moved", "unfit", "fits", "empty", "near",
         "far", "all", "some", "stopped", "copied", "left", "abort", "gone",
         "enough", "low", "no", "proven", "broken", "swept", "cancelled",
         "recomputed", "ready"}

Entry == [at : Jobs \union Questions \union {"none"},
          state : {"idle", "run", "queued", "asks"},
          op : Ops \union {"none"}, out : Outs,
          held : BOOLEAN, cancel : BOOLEAN, pause : {"never", "now", "over"},
          tok : BOOLEAN, res : BOOLEAN, ev : BOOLEAN, late : BOOLEAN,
          fresh : BOOLEAN, asked : {"no", "auto", "given"},
          items : SUBSET ({Finder} \union Ids)]

Flags == {"trashing", "merging", "loading", "sweeping", "probing", "checking",
          "relinking"}

\* The table is well formed: an operation waits for an answer exactly while its
\* question is in the stack of nested event loops, and an idle entry is empty.
TypeOK ==
  /\ proc \in [Ids -> Entry]
  /\ \A i \in Ids : /\ proc[i].state = "idle" => proc[i] = NoProc
                    /\ proc[i].state \in {"run", "queued"} => proc[i].at \in Jobs
                    /\ proc[i].state = "asks" <=> proc[i].at \in Questions
                    /\ proc[i].state = "asks" <=>
                         \E n \in 1..Len(dialogs) : dialogs[n] = i
  /\ flag \in [Flags -> BOOLEAN]
  /\ shown \in {"none", "live", "partial", "past"}
  /\ ghosts \subseteq {Finder} \union Ids
  /\ closed => closing
  /\ ops \in 0..MaxOps

\* Once a scan or the load of a session has begun, no result of an operation
\* begun before it takes the place of a result (worker, session_load_worker and
\* _session_context_token in on_done, _load_session_active and done): whatever
\* the order in which threads end and their signals are delivered.
LatestShown == ~outdated

\* While a thread changes files no other thread scans, proves or changes any
\* (_operation_busy and its like at every entry), however the questions are
\* nested: a look at the flags taken before a question still holds after it.
\* Except where the user gets through a gap of the guards.
OneChanger ==
  \A i, j \in Ids :
    /\ i # j /\ ~rushed
    /\ proc[i].state = "run" /\ proc[j].state = "run"
    /\ proc[i].at \in {"trash", "copying", "moving", "folder"}
    => proc[j].at \notin Controlled \union {"load", "verify", "trash"}

\* closeEvent is a barrier: afterwards no question opens, no job starts but a
\* look for vanished files and the tables of a recompute that was under way, and
\* the window goes only when no thread runs but a scan of photos, for which it
\* does not wait.
ClosesCleanly ==
  [][/\ closing => /\ dialogs' = <<>>
                   /\ \A i \in Ids : proc'[i].state = "run" =>
                        \/ proc[i].state = "run" \/ proc'[i].at = "sweep"
                        \/ proc'[i].at = "tables" /\ proc[i].at = "recompute"
     /\ closed' /\ ~closed /\ ~rushed =>
          \A i \in Ids : proc'[i].state = "run" => proc'[i].at = "photos"]_vars

\* Nothing is under way, no flag is left behind, and a result that can be acted
\* on lists nothing that is gone.
AtRest ==
  /\ \A i \in Ids : proc[i].state = "idle"
  /\ \A f \in DOMAIN flag : ~flag[f]
  /\ ghosts = {} \/ shown = "past"

\* The window comes to rest again and again, or closes: no flag is left set by
\* an operation that was superseded, declined, cancelled or failed, no thread
\* sleeps on when the window waits for it, and what a removal has moved away,
\* or what has vanished, leaves the tables even when _recompute_async drops it.
Settles == []<>(rushed \/ IF closing THEN closed ELSE AtRest)

=============================================================================
