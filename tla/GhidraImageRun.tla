---------------------------- MODULE GhidraImageRun ----------------------------
(***************************************************************************)
(* One image of `decompile --run': run_report_impl's loop body over the    *)
(* RAII GhidraExportAttempt, the tighten watch with its datamark retry     *)
(* (unix build), and the processes it starts: a shell launcher and the JVM *)
(* it forks, which hold the project lock and move the export's files into  *)
(* place one by one, the completion marker last.                           *)
(*                                                                         *)
(* The supervisor (pc), the JVMs, their launchers and the clock interleave.*)
(* Ordinary log lines are left out: a poll that times out does the same.   *)
(***************************************************************************)
EXTENDS Integers, Sequences

CONSTANTS
    Lines,      \* kinds of stdout line a JVM may print: "repair" (counted by
                \* the watch), "flood" (crosses the capture ceiling), "bad"
                \* (not UTF-8)
    MaxLines,   \* bound: such lines a run prints
    SpamMax,    \* TightenBudget.log_spam_max
    MaxFaults   \* bound: failing file and spawn operations

ASSUME ConstantsAssumption ==
    /\ Lines \subseteq {"repair", "flood", "bad"}
    /\ MaxLines \in Nat /\ SpamMax \in Nat /\ MaxFaults \in Nat

VARIABLES
    tree,       \* the owned export files and the marker: who wrote each
    thumb,      \* thumb_functions.json: absent, of an earlier run, of this one
    startup,    \* the kit's startup.json, likewise
    lock,       \* holder of Ghidra's project lock
    jvm,        \* phase of each JVM
    jsig,       \* SIGKILL to each JVM: not sent, sent, its last call returned
    launcher, exit,
    chan,       \* lines read from the pipe and not yet received
    printed,    \* lines printed so far
    over,       \* the wall-clock budget has elapsed
    repairs,    \* repair_lines
    \* --- supervisor ---
    mode, dense,         \* inputs: first mode, whether the image has dense Thumb
    pc, cur,             \* cur: the process last spawned
    reason,              \* why cur is being killed
    scrubbed, scrubErr, after,   \* progress, result and use of invalidate()
    fellBack,            \* tighten_error is Some: retried as datamark
    thumbOk, current, outcome,
    faults

diskVars == <<tree, thumb, startup>>
procVars == <<lock, jvm, jsig, launcher, exit, chan, printed>>
watchVars == <<over, repairs>>
scrubVars == <<scrubbed, scrubErr, after>>
resultVars == <<fellBack, thumbOk, current, outcome>>
inputVars == <<mode, dense>>
vars == <<tree, thumb, startup, lock, jvm, jsig, launcher, exit, chan, printed,
          over, repairs, mode, dense, pc, cur, reason, scrubbed, scrubErr,
          after, fellBack, thumbOk, current, outcome, faults>>

\* This image's tighten run and its datamark run.
Procs == {"t", "d"}

\* Publication order of ExportDecomp.java, and the order invalidate() scrubs in.
PublishOrder == <<"functions", "disasm", "decompiled", "marker">>
MutScrubOrderMarker == <<"functions", "disasm", "decompiled">>
ScrubOrder   == <<"marker", "functions", "disasm", "decompiled">>
Owned == {PublishOrder[i] : i \in DOMAIN PublishOrder}
Trio  == Owned \ {"marker"}

\* Phases of a JVM. In phase Analyzing + k it is about to move the k-th file.
Absent == 0
Booting == 1
Analyzing == 2
Leaving == 7
Dead == 8
Alive(p) == jvm[p] \in Booting..Leaving

TypeOK ==
    /\ tree \in [Owned -> Procs \cup {"none", "old"}]
    /\ thumb \in {"none", "old", "new"} /\ startup \in {"none", "old", "new"}
    /\ lock \in Procs \cup {"free"}
    /\ jvm \in [Procs -> Absent..Dead]
    /\ jsig \in [Procs -> {"no", "sent", "spent"}]
    /\ launcher \in [Procs -> {"absent", "running", "doomed", "zombie", "reaped"}]
    /\ exit \in [Procs -> {"none", "ok", "bad"}]
    /\ chan \in Seq(Lines) /\ Len(chan) <= MaxLines
    /\ printed \in 0..MaxLines
    /\ over \in BOOLEAN /\ repairs \in 0..MaxLines
    /\ mode \in Procs /\ dense \in BOOLEAN
    /\ pc \in {"scrub", "gate", "spawn", "watch", "collect", "await", "kill",
               "killpg", "reap", "validate", "thumb", "terminal", "startup",
               "done"}
    /\ cur \in Procs
    /\ reason \in {"none", "budget", "io"}
    /\ scrubbed \in 0..4 /\ scrubErr \in BOOLEAN
    /\ after \in {"gate", "retry", "drop"}
    /\ fellBack \in BOOLEAN /\ thumbOk \in BOOLEAN /\ current \in BOOLEAN
    /\ outcome \in {"none", "failed", "skipped", "invalid", "analyzed",
                    "aborted"}
    /\ faults \in 0..MaxFaults

\* An earlier run may have left a complete export, a trio cut short, or none.
\* Its processes are gone: see `Not modelled' in the README.
Init ==
    /\ tree \in {[f \in Owned |-> "none"], [f \in Owned |-> "old"],
                 [f \in Owned |-> IF f = "functions" THEN "old" ELSE "none"]}
    /\ thumb \in {"none", "old"} /\ startup \in {"none", "old"}
    /\ lock = "free"
    /\ jvm = [p \in Procs |-> Absent]
    /\ jsig = [p \in Procs |-> "no"]
    /\ launcher = [p \in Procs |-> "absent"]
    /\ exit = [p \in Procs |-> "none"]
    /\ chan = <<>> /\ printed = 0 /\ over = FALSE /\ repairs = 0
    /\ mode \in Procs /\ dense \in BOOLEAN
    /\ pc = "scrub" /\ cur = mode /\ reason = "none"
    /\ scrubbed = 0 /\ scrubErr = FALSE /\ after = "gate"
    /\ fellBack = FALSE /\ thumbOk = FALSE /\ current = FALSE
    /\ outcome = "none" /\ faults = 0

-----------------------------------------------------------------------------
(* The processes.  A JVM that SIGKILL was sent to may still complete the   *)
(* one system call it is in; its death, which releases the lock, comes     *)
(* later and is not what waiting for the launcher waits for.               *)

\* p makes a step of its own: at most one once the signal was sent.
Acts(p) ==
    /\ Alive(p)
    /\ jsig[p] # "spent"
    /\ jsig' = [jsig EXCEPT ![p] = IF @ = "sent" THEN "spent" ELSE @]

SetExit(p, codes) == \E c \in codes : exit' = [exit EXCEPT ![p] = c]

OpenProject(p) ==
    /\ jvm[p] = Booting
    /\ Acts(p)
    /\ \/ /\ lock = "free"
          /\ lock' = p
          /\ jvm' = [jvm EXCEPT ![p] = Analyzing]
          /\ UNCHANGED exit
       \/ /\ lock # "free"                       \* LockException
          /\ jvm' = [jvm EXCEPT ![p] = Leaving]
          /\ SetExit(p, {"bad"})
          /\ UNCHANGED lock
    /\ UNCHANGED <<tree, launcher, chan, printed>>

PrintLine(p) ==
    /\ jvm[p] = Analyzing /\ jsig[p] = "no"
    /\ printed < MaxLines
    /\ \E line \in Lines : chan' = Append(chan, line)
    /\ printed' = printed + 1
    /\ UNCHANGED <<tree, lock, jvm, jsig, launcher, exit>>

\* All three files are staged before the first is moved.
StageExport(p) ==
    /\ jvm[p] = Analyzing /\ Acts(p)
    /\ jvm' = [jvm EXCEPT ![p] = Analyzing + 1]
    /\ UNCHANGED <<tree, lock, launcher, exit, chan, printed>>

MoveNext(p) ==
    /\ jvm[p] \in (Analyzing + 1)..(Leaving - 1) /\ Acts(p)
    /\ tree' = [tree EXCEPT ![PublishOrder[jvm[p] - Analyzing]] = p]
    /\ jvm' = [jvm EXCEPT ![p] = @ + 1]
    /\ IF jvm[p] = Leaving - 1 THEN SetExit(p, {"ok", "bad"}) ELSE UNCHANGED exit
    /\ UNCHANGED <<lock, launcher, chan, printed>>

\* A script that throws ends the export where it stands; analyzeHeadless logs
\* it and may still exit with success.
ScriptFails(p) ==
    /\ jvm[p] \in Analyzing..(Leaving - 1) /\ Acts(p)
    /\ jvm' = [jvm EXCEPT ![p] = Leaving]
    /\ SetExit(p, {"ok", "bad"})
    /\ UNCHANGED <<tree, lock, launcher, chan, printed>>

JvmDies(p) ==
    /\ Alive(p)
    /\ jvm[p] = Leaving \/ jsig[p] # "no"
    /\ jvm' = [jvm EXCEPT ![p] = Dead]
    /\ lock' = IF lock = p THEN "free" ELSE lock
    /\ UNCHANGED <<tree, jsig, launcher, exit, chan, printed>>

\* The launcher waits for the JVM and exits with its status, unless killed.
LauncherExits(p) ==
    /\ \/ /\ launcher[p] = "running" /\ jvm[p] = Dead
          /\ exit' = [exit EXCEPT ![p] = IF jsig[p] = "no" THEN @ ELSE "bad"]
       \/ /\ launcher[p] = "doomed"
          /\ exit' = [exit EXCEPT ![p] = "bad"]
    /\ launcher' = [launcher EXCEPT ![p] = "zombie"]
    /\ UNCHANGED <<tree, lock, jvm, jsig, chan, printed>>

ProcessStep ==
    /\ \E p \in Procs : \/ OpenProject(p) \/ PrintLine(p) \/ StageExport(p)
                        \/ MoveNext(p) \/ ScriptFails(p) \/ JvmDies(p)
                        \/ LauncherExits(p)
    /\ UNCHANGED <<thumb, startup, over, repairs, mode, dense, pc, cur, reason,
                   scrubbed, scrubErr, after, fellBack, thumbOk, current,
                   outcome, faults>>

\* The pipe's write end is closed: launcher and JVM are gone.
EOF == ~Alive(cur) /\ launcher[cur] \in {"zombie", "reaped"}

Clock ==
    /\ ~over /\ launcher["t"] \in {"running", "doomed"}
    /\ over' = TRUE
    /\ UNCHANGED <<tree, thumb, startup, lock, jvm, jsig, launcher, exit, chan,
                   printed, repairs, mode, dense, pc, cur, reason, scrubbed,
                   scrubErr, after, fellBack, thumbOk, current, outcome, faults>>

-----------------------------------------------------------------------------
(* The supervisor.                                                         *)

Fault == /\ faults < MaxFaults
         /\ faults' = faults + 1

MutInvalidate(use) ==
    IF use = "drop"
      THEN pc' = "done" /\ UNCHANGED <<scrubbed, scrubErr, after>>
      ELSE pc' = "scrub" /\ scrubbed' = 0 /\ scrubErr' = FALSE /\ after' = use

\* GhidraExportRun::invalidate is entered.
Invalidate(use) ==
    /\ pc' = "scrub" /\ scrubbed' = 0 /\ scrubErr' = FALSE /\ after' = use

\* remove_file_if_present on the next owned name: every name is tried, the
\* first error is kept.
ScrubOne ==
    /\ pc = "scrub" /\ scrubbed < Len(ScrubOrder)
    /\ scrubbed' = scrubbed + 1
    /\ \/ /\ tree' = [tree EXCEPT ![ScrubOrder[scrubbed + 1]] = "none"]
          /\ UNCHANGED <<scrubErr, faults>>
       \/ Fault /\ scrubErr' = TRUE /\ UNCHANGED tree
    /\ UNCHANGED <<thumb, startup, procVars, watchVars, inputVars, pc, cur,
                   reason, after, resultVars>>

\* invalidate() returned. A failed begin never builds the attempt, so nothing
\* is dropped; a failed retry leaves no status, which is Failed(-1).
ScrubDone ==
    /\ pc = "scrub" /\ scrubbed = Len(ScrubOrder)
    /\ \/ /\ after = "gate"
          /\ pc' = IF scrubErr THEN "done" ELSE "gate"
          /\ outcome' = IF scrubErr THEN "failed" ELSE outcome
          /\ UNCHANGED cur
       \/ /\ after = "retry"
          /\ pc' = IF scrubErr THEN "thumb" ELSE "spawn"
          /\ outcome' = IF scrubErr THEN "failed" ELSE outcome
          /\ cur' = "d"
       \/ /\ after = "drop" /\ pc' = "done" /\ UNCHANGED <<outcome, cur>>
    /\ UNCHANGED <<diskVars, procVars, watchVars, inputVars, reason, scrubVars,
                   fellBack, thumbOk, current, faults>>

\* The opaque gate: no process is started; a startup manifest is cleared.
OpaqueGate ==
    /\ pc = "gate"
    /\ \/ /\ outcome' = "skipped"
          /\ \/ startup' = "none" /\ UNCHANGED faults
             \/ Fault /\ UNCHANGED startup
          /\ Invalidate("drop")
       \/ pc' = "spawn" /\ UNCHANGED <<outcome, startup, scrubVars, faults>>
    /\ UNCHANGED <<tree, thumb, procVars, watchVars, inputVars, cur, reason,
                   fellBack, thumbOk, current>>

\* Command::spawn. A failure propagates out of the whole run.
Spawn ==
    /\ pc = "spawn"
    /\ \/ /\ launcher' = [launcher EXCEPT ![cur] = "running"]
          /\ jvm' = [jvm EXCEPT ![cur] = Booting]
          /\ chan' = <<>>
          /\ pc' = IF cur = "t" THEN "watch" ELSE "collect"
          /\ UNCHANGED <<scrubVars, outcome, faults>>
       \/ /\ Fault /\ outcome' = "aborted"
          /\ Invalidate("drop")
          /\ UNCHANGED <<launcher, jvm, chan>>
    /\ UNCHANGED <<diskVars, lock, jsig, exit, printed, watchVars, inputVars,
                   cur, reason, fellBack, thumbOk, current>>

BeginKill(why) == pc' = "kill" /\ reason' = why
ReadToEnd == pc' = "await" /\ UNCHANGED reason

MutShouldKillTighten(n) == n > SpamMax
ShouldKillTighten(n) == over \/ n > SpamMax

\* One turn of the tighten watch: recv_timeout, then the budget.
Watch ==
    /\ pc = "watch"
    /\ \/ /\ chan # <<>> /\ Head(chan) = "repair"
          /\ repairs' = repairs + 1
          /\ IF ShouldKillTighten(repairs + 1)
               THEN BeginKill("budget") ELSE UNCHANGED <<pc, reason>>
       \/ /\ chan # <<>> /\ Head(chan) = "flood"
          /\ BeginKill("io") /\ UNCHANGED repairs
       \/ /\ chan # <<>> /\ Head(chan) = "bad"
          /\ ReadToEnd /\ UNCHANGED repairs
       \/ /\ chan = <<>> /\ EOF
          /\ ReadToEnd /\ UNCHANGED repairs
       \/ /\ chan = <<>> /\ ~EOF /\ ShouldKillTighten(repairs)
          /\ BeginKill("budget") /\ UNCHANGED repairs
    /\ chan' = IF chan = <<>> THEN chan ELSE Tail(chan)
    /\ UNCHANGED <<diskVars, lock, jvm, jsig, launcher, exit, printed, over,
                   inputVars, cur, scrubVars, resultVars, faults>>

\* headless_stdout_status: no budget; a read error or a flood kills the tree.
Collect ==
    /\ pc = "collect"
    /\ \/ /\ chan # <<>> /\ Head(chan) = "repair" /\ UNCHANGED <<pc, reason>>
       \/ /\ chan # <<>> /\ Head(chan) # "repair" /\ BeginKill("io")
       \/ /\ chan = <<>> /\ EOF /\ ReadToEnd
    /\ chan' = IF chan = <<>> THEN chan ELSE Tail(chan)
    /\ UNCHANGED <<diskVars, lock, jvm, jsig, launcher, exit, printed, watchVars,
                   inputVars, cur, scrubVars, resultVars, faults>>

\* child.wait() with no kill before it: as long as the child takes.
Await ==
    /\ pc = "await" /\ launcher[cur] = "zombie"
    /\ launcher' = [launcher EXCEPT ![cur] = "reaped"]
    /\ IF exit[cur] = "ok" THEN pc' = "validate" /\ UNCHANGED outcome
                           ELSE pc' = "thumb" /\ outcome' = "failed"
    /\ UNCHANGED <<diskVars, lock, jvm, jsig, exit, chan, printed, watchVars,
                   inputVars, cur, reason, scrubVars, fellBack, thumbOk,
                   current, faults>>

Doom(p) == IF launcher[p] = "running"
             THEN [launcher EXCEPT ![p] = "doomed"] ELSE launcher

\* child.kill()
KillChild ==
    /\ pc = "kill" /\ pc' = "killpg"
    /\ launcher' = Doom(cur)
    /\ UNCHANGED <<diskVars, lock, jvm, jsig, exit, chan, printed, watchVars,
                   inputVars, cur, reason, scrubVars, resultVars, faults>>

MutSignalled(p) == {}

\* Who kill_process_group(child) reaches: the group holds launcher and JVM.
Signalled(p) == IF Alive(p) /\ jsig[p] = "no" THEN {p} ELSE {}

KillGroup ==
    /\ pc = "killpg" /\ pc' = "reap"
    /\ launcher' = Doom(cur)
    /\ jsig' = [p \in Procs |-> IF p \in Signalled(cur) THEN "sent" ELSE jsig[p]]
    /\ UNCHANGED <<diskVars, lock, jvm, exit, chan, printed, watchVars,
                   inputVars, cur, reason, scrubVars, resultVars, faults>>

\* child.wait() after the kill; then the datamark retry, or the error.
Reap ==
    /\ pc = "reap" /\ launcher[cur] = "zombie"
    /\ launcher' = [launcher EXCEPT ![cur] = "reaped"]
    /\ reason' = "none"
    /\ IF reason = "budget"
         THEN fellBack' = TRUE /\ Invalidate("retry") /\ UNCHANGED outcome
         ELSE outcome' = "aborted" /\ Invalidate("drop") /\ UNCHANGED fellBack
    /\ UNCHANGED <<diskVars, lock, jvm, jsig, exit, chan, printed, watchVars,
                   inputVars, cur, thumbOk, current, faults>>

\* validate_current, then the application summaries of the captured stdout,
\* which may be missing or malformed.
Complete == \A f \in Owned : tree[f] # "none"

ValidateCurrent ==
    /\ pc = "validate" /\ pc' = "thumb"
    /\ \/ Complete /\ outcome' = "analyzed"
       \/ outcome' = "invalid"
    /\ UNCHANGED <<diskVars, procVars, watchVars, inputVars, cur, reason,
                   scrubVars, fellBack, thumbOk, current, faults>>

\* The Thumb route runs whatever became of Ghidra's; an error leaves the
\* sidecar as it was.
AnalyzeThumb ==
    /\ pc = "thumb" /\ pc' = "terminal"
    /\ \/ ~dense /\ UNCHANGED <<thumb, thumbOk>>
       \/ dense /\ thumb' = "new" /\ thumbOk' = TRUE
       \/ dense /\ UNCHANGED <<thumb, thumbOk>>
    /\ UNCHANGED <<tree, startup, procVars, watchVars, inputVars, cur, reason,
                   scrubVars, fellBack, current, outcome, faults>>

\* The sidecar is there exactly when this run's analyzer produced one.
ThumbExpected == (thumb # "none") <=> thumbOk

\* Terminal validation of functions.json and the sidecar, then mark_current.
Terminal ==
    /\ pc = "terminal"
    /\ \/ /\ outcome = "analyzed" /\ ThumbExpected /\ tree["functions"] # "none"
          /\ current' = TRUE /\ pc' = "startup"
          /\ UNCHANGED <<outcome, scrubVars>>
       \/ /\ outcome' = IF outcome = "analyzed" THEN "invalid" ELSE outcome
          /\ Invalidate("drop") /\ UNCHANGED current
    /\ UNCHANGED <<diskVars, procVars, watchVars, inputVars, cur, reason,
                   fellBack, thumbOk, faults>>

MutPublishStartup ==
    /\ pc = "startup" /\ Invalidate("drop")
    /\ startup' \in {"none", "new", startup}
    /\ UNCHANGED <<tree, thumb, procVars, watchVars, inputVars, cur, reason,
                   resultVars, faults>>

\* publish_kit_startup_metadata; its failure is only logged. Dropping an
\* attempt that is current scrubs nothing.
PublishStartup ==
    /\ pc = "startup" /\ pc' = "done"
    /\ startup' \in {"none", "new", startup}
    /\ UNCHANGED <<tree, thumb, procVars, watchVars, inputVars, cur, reason,
                   scrubVars, resultVars, faults>>

Supervisor ==
    \/ ScrubOne \/ ScrubDone \/ OpaqueGate \/ Spawn \/ Watch \/ Collect
    \/ Await \/ KillChild \/ KillGroup \/ Reap \/ ValidateCurrent
    \/ AnalyzeThumb \/ Terminal \/ PublishStartup

Next == ProcessStep \/ Clock \/ Supervisor

Spec == Init /\ [][Next]_vars

\* The supervisor thread is scheduled, time passes, and the kernel carries out
\* a SIGKILL. A JVM owes nothing: it may hang.
KernelStep ==
    /\ \/ \E p \in Procs : jsig[p] # "no" /\ JvmDies(p)
       \/ \E p \in Procs : launcher[p] \in {"doomed", "running"} /\ LauncherExits(p)
    /\ UNCHANGED <<thumb, startup, over, repairs, mode, dense, pc, cur, reason,
                   scrubbed, scrubErr, after, fellBack, thumbOk, current,
                   outcome, faults>>

FairSpec == /\ Spec
            /\ WF_vars(Supervisor) /\ WF_vars(Clock) /\ WF_vars(KernelStep)

-----------------------------------------------------------------------------
\* The process whose export the report describes: thumb_tighten_error and the
\* thumb_decompiled override are set exactly when the retry replaced the first.
Reported == IF mode = "t" /\ ~fellBack THEN "t" ELSE "d"

\* An image reported analyzed, with a current export, has all three files from
\* the one process its report row describes: neither what an earlier run left
\* nor what a killed tighten run got as far as moving is among them, and the
\* marker is this run's.
AcceptedIsThisRuns ==
    current => /\ \A f \in Trio : tree[f] = Reported
               /\ tree["marker"] \in Procs

\* However the image ends, if it did not become current and the scrub met no
\* error then what remains is not a complete marked export that a later
\* validate_current would take, even though a killed JVM may still be finishing
\* a move.
NotCurrentIsIncomplete ==
    pc = "done" /\ ~current /\ ~scrubErr => ~Complete

\* No launcher is left unreaped when the image is done, and no JVM of this run
\* is left that was not at least sent SIGKILL.
TreeTornDown ==
    pc = "done" =>
        \A p \in Procs : /\ launcher[p] \in {"absent", "reaped"}
                        /\ Alive(p) => jsig[p] # "no"

\* The above over well-typed states, while the run goes on as when it is done.
ProcessesOK == TypeOK /\ TreeTornDown

\* A current export stands beside the Thumb sidecar this run's analyzer made,
\* or beside none: an older sidecar, which a failing analyzer and an image
\* without dense Thumb both leave in place, is never certified with it.
SidecarMatches ==
    current => thumb = IF thumbOk THEN "new" ELSE "none"

\* Nothing that stands certified is of another run: export, marker, sidecar.
CertifiedIsThisRuns == AcceptedIsThisRuns /\ SidecarMatches

\* What was certified stays: once current, no step of any process replaces or
\* removes an owned file.
CurrentIsStable == [][current => UNCHANGED tree]_vars

\* Once the wall-clock budget of the tighten run has elapsed, that run ends
\* by itself or is killed, unless the supervisor has already stopped watching
\* it and waits for the launcher: a silent JVM does not block the watch.
HangIsKilledWhileWatched == over ~> (launcher["t"] = "reaped" \/ pc = "await")

\* The retry's comment: killpg and child.wait() "reap the JVM at the kernel
\* level", so the datamark run opens a project nobody holds.
RetryFindsLockFree == jvm["d"] = Booting => lock = "free"
=============================================================================
