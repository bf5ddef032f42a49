--------------------------- MODULE AnalyzerAttempt ---------------------------
(***************************************************************************)
(* One supervised analyzer attempt: run_backend_capture and                *)
(* supervise_spawned_analyzer of src/thumb_analysis/stream.rs, with the    *)
(* AnalyzerProcess it owns (unix build), the drain thread that copies the  *)
(* child's stdout to a capture file, and the operating system's side of    *)
(* the story: the child, its process group, the pipe and pid reuse.        *)
(*                                                                         *)
(* Four actors interleave: the supervisor (variable pc), the drain thread  *)
(* (variable drain), the processes (leader, member, writers) and the clock.*)
(* System calls that may fail do so at the price of one unit of `faults'.  *)
(***************************************************************************)
EXTENDS Integers

CONSTANTS
    Cap,            \* stdout_cap: bytes the drain may copy
    MaxOut,         \* bound: bytes the processes may write
    IdleLimit,      \* pipe_finalization_idle, in ticks
    AbsoluteLimit,  \* pipe_finalization_absolute, in ticks
    MaxFaults       \* bound: failing system calls per attempt

ASSUME LimitsAssumption ==
    /\ Cap \in Nat /\ MaxOut \in Nat
    /\ IdleLimit \in Nat \ {0} /\ AbsoluteLimit \in Nat \ {0}
    /\ MaxFaults \in Nat

VARIABLES
    \* --- operating system ---
    leader,        \* the immediate child
    exit,          \* how the child ended
    member,        \* the other members of its process group, as one
    writers,       \* who holds the write end of the stdout pipe
    killPending,   \* processes SIGKILL was sent to and that still exist
    produced,      \* bytes written to the pipe so far
    reused,        \* the child's pid now names an unrelated process group
    stray,         \* history: a terminating signal hit an unrelated group
    \* --- drain thread ---
    drain, cancelled,
    written,       \* DrainControl.bytes: copied to the capture file
    file,          \* the capture file: absent, stale (of an earlier run), own
    \* --- AnalyzerProcess ---
    exitObserved, reapAttempted, status,
    handle,        \* process.drain is Some(_)
    \* --- supervisor ---
    producer, pc,
    after,         \* what terminate_and_reap returns to
    state,         \* SupervisionState
    window,        \* its clocks: ticks since started and last_progress, and
                   \* observed_bytes
    expired,       \* the rizin deadline has passed
    capture,       \* the CaptureRecord held: its byte count, or NoCapture
    cleanupErr,    \* terminate_and_reap's first_error is Some(_)
    terminal,      \* the failure under construction is marked terminal
    outcome,
    faults

processVars == <<leader, exit, member, writers, killPending, produced>>
osVars      == <<leader, exit, member, writers, killPending, produced,
                 reused, stray>>
drainVars   == <<drain, cancelled, written, file>>
childVars   == <<exitObserved, reapAttempted, status, handle>>
loopVars    == <<producer, state, window, expired>>
resultVars  == <<after, capture, cleanupErr, terminal, outcome>>
vars == <<leader, exit, member, writers, killPending, produced, reused, stray,
          drain, cancelled, written, file,
          exitObserved, reapAttempted, status, handle,
          producer, pc, after, state, window, expired, capture, cleanupErr,
          terminal, outcome, faults>>

NoCapture == -1
Exits     == {"ok", "bad"}
Producers == {"radare2", "rizin"}
InLoop    == pc \in {"limits", "join", "observe"}

Steps == {"spawn", "configure", "create", "start", "limits", "join",
          "observe", "tBegin", "tGrace", "tKill", "tKillChild", "tObserve",
          "tReap", "tVerify", "return", "remove", "natural", "stop", "sWait",
          "sJoin", "drop", "done"}

OSTypeOK ==
    /\ leader \in {"absent", "running", "zombie", "reaped"}
    /\ exit \in Exits \cup {"none"}
    /\ member \in {"none", "alive", "zombie"}
    /\ writers \subseteq {"leader", "member", "escaped"}
    /\ killPending \subseteq {"leader", "member"}
    /\ produced \in 0..MaxOut
    /\ reused \in BOOLEAN /\ stray \in BOOLEAN

DrainTypeOK ==
    /\ drain \in {"none", "check", "read", "ok", "err"}
    /\ cancelled \in BOOLEAN
    /\ written \in 0..Cap
    /\ file \in {"absent", "stale", "own"}

ChildTypeOK ==
    /\ exitObserved \in BOOLEAN /\ reapAttempted \in BOOLEAN
    /\ status \in Exits \cup {"none"}
    /\ handle \in BOOLEAN

LoopTypeOK ==
    /\ producer \in Producers
    /\ state \in {"Running", "FinalizingStdout"}
    /\ window \in [elapsed : 0..AbsoluteLimit, idle : 0..AbsoluteLimit,
                   seen : 0..Cap]
    /\ window.idle <= window.elapsed
    /\ expired \in BOOLEAN

ControlTypeOK ==
    /\ pc \in Steps
    /\ after \in {"return", "remove", "natural", "stop", "done"}
    /\ cleanupErr \in BOOLEAN /\ terminal \in BOOLEAN
    /\ outcome \in {"none", "ok", "failed", "terminal"}

CountTypeOK ==
    /\ capture \in 0..Cap \cup {NoCapture}
    /\ faults \in 0..MaxFaults

TypeOK ==
    /\ OSTypeOK /\ DrainTypeOK /\ ChildTypeOK /\ LoopTypeOK
    /\ ControlTypeOK /\ CountTypeOK

Init ==
    /\ leader = "absent" /\ exit = "none" /\ member = "none"
    /\ writers = {} /\ killPending = {} /\ produced = 0
    /\ reused = FALSE /\ stray = FALSE
    /\ drain = "none" /\ cancelled = FALSE /\ written = 0
    /\ file \in {"absent", "stale"}
    /\ exitObserved = FALSE /\ reapAttempted = FALSE
    /\ status = "none" /\ handle = FALSE
    /\ producer \in Producers
    /\ pc = "spawn" /\ after = "return"
    /\ state = "Running"
    /\ window = [elapsed |-> 0, idle |-> 0, seen |-> 0]
    /\ expired = FALSE
    /\ capture = NoCapture /\ cleanupErr = FALSE /\ terminal = FALSE
    /\ outcome = "none"
    /\ faults = 0

-----------------------------------------------------------------------------
(* Processes and the pipe (external: the operating system).                *)

Held(p) == p \notin killPending       \* p still runs its own instructions

LeaderExit ==
    /\ leader = "running"
    /\ leader' = "zombie"
    /\ exit' \in IF Held("leader") THEN Exits ELSE {"bad"}
    /\ writers' = writers \ {"leader"}
    /\ killPending' = killPending \ {"leader"}
    /\ UNCHANGED <<member, produced, reused>>

Fork ==
    /\ leader = "running" /\ Held("leader") /\ member = "none"
    /\ member' = "alive"
    /\ writers' = IF "leader" \in writers
                  THEN writers \cup {"member"} ELSE writers
    /\ UNCHANGED <<leader, exit, killPending, produced, reused>>

MemberExit ==
    /\ member = "alive"
    /\ member' = "zombie"
    /\ writers' = writers \ {"member"}
    /\ killPending' = killPending \ {"member"}
    /\ UNCHANGED <<leader, exit, produced, reused>>

MemberReaped ==     \* by its parent, or by init once the leader is gone
    /\ member = "zombie"
    /\ member' = "none"
    /\ UNCHANGED <<leader, exit, writers, killPending, produced, reused>>

Escape ==           \* setsid or setpgid: it leaves the leader's group
    /\ member = "alive" /\ Held("member")
    /\ member' = "none"
    /\ writers' = IF "member" \in writers
                  THEN (writers \ {"member"}) \cup {"escaped"} ELSE writers
    /\ UNCHANGED <<leader, exit, killPending, produced, reused>>

CloseStdout ==
    /\ \E w \in writers : Held(w) /\ writers' = writers \ {w}
    /\ UNCHANGED <<leader, exit, member, killPending, produced, reused>>

Write ==            \* a write after the read end closes only kills the writer
    /\ \E w \in writers : Held(w)
    /\ drain \in {"none", "check", "read"}
    /\ produced < MaxOut
    /\ produced' = produced + 1
    /\ UNCHANGED <<leader, exit, member, writers, killPending, reused>>

PidReuse ==         \* a pid is free once nothing in its group can be waited for
    /\ leader = "reaped" /\ member = "none" /\ ~reused
    /\ reused' = TRUE
    /\ UNCHANGED processVars

Processes ==
    /\ \/ LeaderExit
       \/ Fork
       \/ MemberExit
       \/ MemberReaped
       \/ Escape
       \/ CloseStdout
       \/ Write
       \/ PidReuse
    /\ UNCHANGED <<stray, drainVars, childVars, loopVars, resultVars, pc,
                   faults>>

Fault == faults < MaxFaults /\ faults' = faults + 1
NoFault == UNCHANGED faults
-----------------------------------------------------------------------------
(* The drain thread: capture_to_cap_cancellable.                           *)

Pipe == produced - written

DrainCheck ==
    /\ drain = "check"
    /\ drain' = IF cancelled THEN "ok" ELSE "read"
    /\ UNCHANGED <<written, faults>>

\* Mutant: the cap check is off by one.
MutDrainChunk ==
    \E n \in 1..Pipe :
        IF n > Cap - written + 1
        THEN drain' = "err" /\ UNCHANGED <<written, faults>>
        ELSE written' = written + n /\ drain' = "check" /\ UNCHANGED faults

\* n bytes of the pipe arrive in one chunk; the chunk that would pass the cap
\* is the error the caller reports as "capped to prevent OOM".
DrainChunk ==
    \E n \in 1..Pipe :
        IF n > Cap - written
        THEN drain' = "err" /\ UNCHANGED <<written, faults>>
        ELSE \/ /\ written' = written + n /\ drain' = "check"
                /\ UNCHANGED faults
             \/ /\ Fault                       \* write_all fails
                /\ drain' = "err" /\ UNCHANGED written

\* Mutant: WouldBlock is taken for end of file.
MutDrainEmpty == Pipe = 0 /\ drain' = "ok" /\ UNCHANGED <<written, faults>>

DrainEmpty ==               \* end of file, or WouldBlock
    /\ Pipe = 0
    /\ drain' = IF writers = {} THEN "ok" ELSE "check"
    /\ UNCHANGED <<written, faults>>

DrainReadFails ==
    /\ Fault
    /\ drain' = IF cancelled THEN "ok" ELSE "err"
    /\ UNCHANGED written

DrainRead ==
    /\ drain = "read"
    /\ DrainChunk \/ DrainEmpty \/ DrainReadFails

Drain ==
    /\ DrainCheck \/ DrainRead
    /\ UNCHANGED <<osVars, cancelled, file, childVars, loopVars, resultVars,
                   pc>>

-----------------------------------------------------------------------------
(* The clock: the finalization window and the rizin deadline.              *)

Tick ==
    /\ InLoop /\ state = "FinalizingStdout"
    /\ window.elapsed < AbsoluteLimit
    /\ window' = [window EXCEPT !.elapsed = @ + 1, !.idle = @ + 1]
    /\ UNCHANGED <<osVars, drainVars, childVars, producer, state, expired,
                   resultVars, pc, faults>>

DeadlineExpires ==
    /\ producer = "rizin" /\ pc \notin {"spawn", "done"} /\ ~expired
    /\ expired' = TRUE
    /\ UNCHANGED <<osVars, drainVars, childVars, producer, state, window,
                   resultVars, pc, faults>>

-----------------------------------------------------------------------------
(* AnalyzerProcess::terminate_and_reap, entered with Terminate(k) and      *)
(* returning to pc = k with its error in cleanupErr.                       *)

Terminate(k) == pc' = "tBegin" /\ after' = k /\ cleanupErr' = FALSE

Exited == exitObserved \/ leader = "zombie"

\* Mutant: waitid without WNOWAIT reaps the child it observes.
MutWaitid == "reaped"

\* waitid(WEXITED | WNOHANG | WNOWAIT): the exited leader stays a zombie.
Waitid == "zombie"
ObserveExit ==
    /\ exitObserved' = TRUE
    /\ leader' = IF exitObserved THEN leader ELSE Waitid

\* kill(-pid, signal), refused after a reap attempt. SIGKILL is recorded for
\* the processes it will end; SIGTERM may be ignored, and a process may exit
\* at any time, so it needs no record.
Alive == (IF leader = "running" THEN {"leader"} ELSE {})
         \cup (IF member = "alive" THEN {"member"} ELSE {})

SignalTo(targets) ==
    \/ /\ stray' = (stray \/ (reused /\ ~reapAttempted))
       /\ killPending' = IF reapAttempted THEN killPending
                         ELSE killPending \cup targets
       /\ cleanupErr' = (cleanupErr \/ reapAttempted)
       /\ NoFault
    \/ /\ Fault /\ cleanupErr' = TRUE
       /\ UNCHANGED <<stray, killPending>>

\* Mutant: the error is logged and not returned.
MutTFinishErr == pc' = after /\ UNCHANGED cleanupErr

\* The whole call fails, or gives up on an identity it can no longer trust.
TFinishErr == cleanupErr' = TRUE /\ pc' = after

\* The two early returns for a child already reaped, or whose reap failed, are
\* left out: EntersUnreaped below says no caller reaches them.
TBegin ==
    /\ pc = "tBegin"
    /\ \/ /\ ~exitObserved
          /\ Fault /\ TFinishErr               \* waitid fails
          /\ UNCHANGED <<leader, killPending, stray, exitObserved>>
       \/ /\ Exited /\ ObserveExit
          /\ SignalTo(Alive)                   \* SIGKILL
          /\ pc' = "tReap"
       \/ /\ ~Exited
          /\ SignalTo({})                      \* SIGTERM
          /\ pc' = "tGrace"
          /\ UNCHANGED <<leader, exitObserved>>
    /\ UNCHANGED <<reapAttempted, status>>

TGrace ==       \* polls; an unsuccessful poll changes nothing
    /\ pc = "tGrace"
    /\ \/ /\ Exited /\ ObserveExit
          /\ pc' = "tKill" /\ UNCHANGED <<cleanupErr, faults>>
       \/ /\ pc' = "tKill"                     \* the grace period is over
          /\ UNCHANGED <<leader, exitObserved, cleanupErr, faults>>
       \/ /\ Fault /\ TFinishErr
          /\ UNCHANGED <<leader, exitObserved>>
    /\ UNCHANGED <<killPending, stray, reapAttempted, status>>

\* Mutant: a leader that exits within the grace period spares its group.
MutTKill ==
    /\ pc = "tKill"
    /\ IF exitObserved THEN UNCHANGED <<stray, killPending, cleanupErr, faults>>
       ELSE SignalTo(Alive)
    /\ pc' = IF exitObserved THEN "tReap" ELSE "tKillChild"
    /\ UNCHANGED <<leader, exitObserved, reapAttempted, status>>

TKill ==
    /\ pc = "tKill"
    /\ SignalTo(Alive)
    /\ pc' = IF exitObserved THEN "tReap" ELSE "tKillChild"
    /\ UNCHANGED <<leader, exitObserved, reapAttempted, status>>

TKillChild ==   \* kill_child: the child alone
    /\ pc = "tKillChild"
    /\ SignalTo(Alive \cap {"leader"})
    /\ pc' = "tObserve"
    /\ UNCHANGED <<leader, exitObserved, reapAttempted, status>>

TObserve ==     \* observe_exit_within
    /\ pc = "tObserve"
    /\ \/ /\ Exited /\ ObserveExit
          /\ pc' = "tReap" /\ UNCHANGED <<cleanupErr, faults>>
       \/ /\ leader = "running"                \* child_completion_limit
          /\ TFinishErr /\ UNCHANGED <<leader, exitObserved, faults>>
       \/ /\ Fault /\ TFinishErr
          /\ UNCHANGED <<leader, exitObserved>>
    /\ UNCHANGED <<killPending, stray, reapAttempted, status>>

TReap ==        \* reap_observed_child
    /\ pc = "tReap"
    /\ reapAttempted' = TRUE
    /\ \/ /\ leader' = "reaped" /\ status' = exit
          /\ pc' = "tVerify" /\ UNCHANGED <<cleanupErr, faults>>
       \/ /\ Fault /\ TFinishErr /\ UNCHANGED <<leader, status>>
    /\ UNCHANGED <<killPending, stray, exitObserved>>

\* kill(-pid, 0) until the group is gone or the verification limit passes; a
\* reused number reads as a group that still exists.
GroupExists == member # "none" \/ reused

TVerify ==
    /\ pc = "tVerify"
    /\ \/ /\ ~GroupExists
          /\ pc' = after /\ UNCHANGED <<cleanupErr, faults>>
       \/ /\ GroupExists
          /\ TFinishErr /\ UNCHANGED faults
       \/ /\ Fault /\ TFinishErr
    /\ UNCHANGED <<leader, killPending, stray, exitObserved, reapAttempted,
                   status>>

TerminateAndReap ==
    /\ TBegin \/ TGrace \/ TKill \/ TKillChild \/ TObserve \/ TReap \/ TVerify
    /\ UNCHANGED <<exit, member, writers, produced, reused, drainVars, handle,
                   loopVars, after, capture, terminal, outcome>>

-----------------------------------------------------------------------------
(* run_backend_capture and supervise_spawned_analyzer.                     *)

\* remove_stale_output(stdout_path); an error marks the failure terminal.
RemoveFile ==
    \/ file' = "absent" /\ UNCHANGED <<terminal, faults>>
    \/ Fault /\ terminal' = TRUE /\ UNCHANGED file

\* The FailedRegion returned: terminal when marked or when cleanup failed.
Fail(marked) ==
    /\ outcome' = IF marked \/ cleanupErr THEN "terminal" ELSE "failed"
    /\ pc' = "drop"

Spawn ==
    /\ pc = "spawn"
    /\ \/ /\ leader' = "running" /\ writers' = {"leader"}
          /\ pc' = "configure" /\ UNCHANGED <<outcome, faults>>
       \/ /\ Fault                     \* no AnalyzerProcess to drop
          /\ outcome' = "failed" /\ pc' = "done"
          /\ UNCHANGED <<leader, writers>>
    /\ UNCHANGED <<exit, member, killPending, produced, reused, stray,
                   drainVars, childVars, loopVars, after, capture, cleanupErr,
                   terminal>>

Configure ==        \* make_analyzer_pipe_cancellable
    /\ pc = "configure"
    /\ \/ pc' = "create" /\ UNCHANGED <<after, cleanupErr, faults>>
       \/ Fault /\ Terminate("return")
    /\ UNCHANGED <<osVars, drainVars, childVars, loopVars, capture, terminal,
                   outcome>>

Create ==           \* File::create truncates what an earlier run left
    /\ pc = "create"
    /\ \/ file' = "own" /\ pc' = "start"
          /\ UNCHANGED <<after, cleanupErr, faults>>
       \/ Fault /\ Terminate("return") /\ UNCHANGED file
    /\ UNCHANGED <<osVars, drain, cancelled, written, childVars, loopVars,
                   capture, terminal, outcome>>

StartDrain ==
    /\ pc = "start"
    /\ drain' = "check" /\ handle' = TRUE /\ pc' = "limits"
    /\ UNCHANGED <<osVars, cancelled, written, file, exitObserved,
                   reapAttempted, status, loopVars, resultVars, faults>>

StartDrainFails ==
    /\ pc = "start"
    /\ faults < MaxFaults
    /\ \/ /\ file' = "absent" /\ faults' = faults + 1 /\ UNCHANGED terminal
       \/ /\ faults + 1 < MaxFaults /\ faults' = faults + 2
          /\ terminal' = TRUE /\ UNCHANGED file
    /\ Terminate("return")
    /\ UNCHANGED <<osVars, drain, cancelled, written, childVars, loopVars,
                   capture, outcome>>

Return ==           \* FailedRegion::after_cleanup(None, ..)
    /\ pc = "return"
    /\ Fail(terminal)
    /\ UNCHANGED <<osVars, drainVars, childVars, loopVars, after, capture,
                   cleanupErr, terminal, faults>>

\* Mutant: pipe finalization has no limit.
MutLimits ==
    /\ pc = "limits" /\ pc' = "join"
    /\ UNCHANGED <<osVars, drainVars, childVars, loopVars, resultVars, faults>>

\* Top of the loop: progress restarts the idle clock, never the absolute one.
Limits ==
    /\ pc = "limits"
    /\ LET idle == IF written # window.seen THEN 0 ELSE window.idle
       IN  /\ window' = IF state = "Running" THEN window
                        ELSE [window EXCEPT !.idle = idle, !.seen = written]
           /\ IF state # "Running"
                 /\ (window.elapsed >= AbsoluteLimit \/ idle >= IdleLimit)
              THEN Terminate("stop")
              ELSE pc' = "join" /\ UNCHANGED <<after, cleanupErr>>
    /\ UNCHANGED <<osVars, drainVars, childVars, producer, state, expired,
                   capture, terminal, outcome, faults>>

\* The drain is joined as soon as it has finished; its error ends the attempt.
DrainFinished == handle /\ drain \in {"ok", "err"}

Join ==
    /\ pc = "join"
    /\ IF capture = NoCapture /\ DrainFinished
       THEN /\ handle' = FALSE
            /\ IF drain = "ok"
               THEN capture' = written /\ pc' = "observe"
                    /\ UNCHANGED <<after, cleanupErr>>
               ELSE Terminate("remove") /\ UNCHANGED capture
       ELSE pc' = "observe" /\ UNCHANGED <<handle, capture, after, cleanupErr>>
    /\ UNCHANGED <<osVars, drainVars, exitObserved, reapAttempted, status,
                   loopVars, terminal, outcome, faults>>

Remove ==           \* after a drain error: the unfinalized file goes
    /\ pc = "remove"
    /\ RemoveFile
    /\ Fail(terminal')
    /\ UNCHANGED <<osVars, drain, cancelled, written, childVars, loopVars,
                   after, capture, cleanupErr>>

\* classify_running_observation: an expired deadline outranks completion.
Classify(exited, complete, late) ==
    CASE late -> "DeadlineExpired"
      [] ~late /\ exited /\ complete -> "Complete"
      [] ~late /\ exited /\ ~complete -> "BeginStdoutFinalization"
      [] OTHER -> "Pending"

ObserveRunning ==
    /\ pc = "observe" /\ state = "Running"
    /\ exitObserved' = Exited
    /\ leader' = IF leader = "zombie" THEN Waitid ELSE leader
    /\ LET seen == Classify(Exited, capture # NoCapture, expired)
       IN  /\ CASE seen = "DeadlineExpired" -> Terminate("stop")
                [] seen = "Complete" -> Terminate("natural")
                [] OTHER -> pc' = "limits" /\ UNCHANGED <<after, cleanupErr>>
           /\ IF seen = "BeginStdoutFinalization"
              THEN /\ state' = "FinalizingStdout"
                   /\ window' = [elapsed |-> 0, idle |-> 0, seen |-> written]
              ELSE UNCHANGED <<state, window>>
    /\ UNCHANGED <<exit, member, writers, killPending, produced, reused, stray,
                   drainVars, reapAttempted, status, handle, producer, expired,
                   capture, terminal, outcome, faults>>

ObserveFails ==
    /\ pc = "observe" /\ state = "Running"
    /\ Fault /\ Terminate("stop")
    /\ UNCHANGED <<osVars, drainVars, childVars, loopVars, capture, terminal,
                   outcome>>

ObserveFinalizing ==
    /\ pc = "observe" /\ state = "FinalizingStdout"
    /\ IF capture # NoCapture THEN Terminate("natural")
       ELSE pc' = "limits" /\ UNCHANGED <<after, cleanupErr>>
    /\ UNCHANGED <<osVars, drainVars, childVars, loopVars, capture, terminal,
                   outcome, faults>>

\* finalize_natural_analyzer_capture: the capture is kept either way.
Natural ==
    /\ pc = "natural"
    /\ IF status = "ok" /\ ~cleanupErr
       THEN outcome' = "ok" /\ pc' = "drop"
       ELSE Fail(FALSE)
    /\ UNCHANGED <<osVars, drainVars, childVars, loopVars, after, capture,
                   cleanupErr, terminal, faults>>

\* stop_and_finalize_capture: cancel the drain, wait for it within the
\* cancellation limit (or detach it), then join it or remove its file.
StopCancel ==
    /\ pc = "stop"
    /\ cancelled' = TRUE
    /\ pc' = "sWait"
    /\ UNCHANGED <<osVars, drain, written, file, childVars, loopVars,
                   resultVars, faults>>

StopWait ==
    /\ pc = "sWait"
    /\ pc' = "sJoin"
    /\ \/ /\ DrainFinished \/ ~handle
          /\ UNCHANGED <<handle, terminal>>
       \/ /\ handle /\ ~DrainFinished           \* drain_cancellation limit
          /\ handle' = FALSE /\ terminal' = TRUE
    /\ UNCHANGED <<osVars, drainVars, exitObserved, reapAttempted, status,
                   loopVars, after, capture, cleanupErr, outcome, faults>>

\* join_drain succeeds: the reader was not detached and finished without error.
JoinedOk == handle /\ drain = "ok"

StopJoin ==
    /\ pc = "sJoin"
    /\ handle' = FALSE
    /\ \/ /\ capture # NoCapture
          /\ UNCHANGED <<capture, file, terminal, faults>>
       \/ /\ capture = NoCapture /\ JoinedOk
          /\ capture' = written
          /\ UNCHANGED <<file, terminal, faults>>
       \/ /\ capture = NoCapture /\ ~JoinedOk
          /\ RemoveFile /\ UNCHANGED capture
    /\ Fail(terminal')
    /\ UNCHANGED <<osVars, drain, cancelled, written, exitObserved,
                   reapAttempted, status, loopVars, after, cleanupErr>>

\* Drop for AnalyzerProcess: one more cleanup when no reap was attempted; its
\* error is discarded. The drain half is left out: DropHoldsNoDrain.
Drop ==
    /\ pc = "drop"
    /\ IF status = "none" /\ ~reapAttempted
       THEN Terminate("done")
       ELSE pc' = "done" /\ UNCHANGED <<after, cleanupErr>>
    /\ UNCHANGED <<osVars, drainVars, childVars, loopVars, capture, terminal,
                   outcome, faults>>

Supervisor ==
    \/ Spawn \/ Configure \/ Create \/ StartDrain \/ StartDrainFails \/ Return
    \/ Limits \/ Join \/ Remove
    \/ ObserveRunning \/ ObserveFails \/ ObserveFinalizing
    \/ Natural \/ StopCancel \/ StopWait \/ StopJoin \/ Drop
    \/ TerminateAndReap

Next == Processes \/ Drain \/ Tick \/ DeadlineExpires \/ Supervisor

\* The supervisor's thread runs, time passes, and the kernel ends a process
\* that has a SIGKILL pending and has init reap orphaned zombies. Nothing is
\* assumed of the drain thread, nor of processes that were sent no SIGKILL.
Kernel == \/ LeaderExit /\ ~Held("leader")
          \/ MemberExit /\ ~Held("member")
          \/ MemberReaped /\ leader # "running"
KernelStep == Kernel /\ Processes

Fairness == /\ WF_vars(Supervisor)
            /\ WF_vars(Tick)
            /\ WF_vars(DeadlineExpires)
            /\ WF_vars(KernelStep)

Spec == Init /\ [][Next]_vars /\ Fairness
-----------------------------------------------------------------------------
(* Properties.                                                             *)

\* No SIGTERM or SIGKILL ever reaches a process group that merely reuses the
\* analyzer's pid: waitid's WNOWAIT keeps the exited leader a zombie until
\* terminate_and_reap has sent its last signal.
NoStraySignal == ~stray

\* An attempt whose failure is not marked terminal, and a success, left
\* nothing behind: the child was reaped, its process group was seen empty and
\* no drain thread can still write the capture file. The coordinator starts
\* the rizin fallback and later regions on the strength of this.
CleanUnlessTerminal ==
    outcome \in {"ok", "failed"} =>
        /\ leader \in {"absent", "reaped"}
        /\ member = "none"
        /\ drain \notin {"check", "read"}

\* A recorded capture describes the file on disk: it is this attempt's file,
\* of exactly the recorded length and no longer than the cap, and its writer
\* has finished.
RetainedCaptureIsFinal ==
    capture # NoCapture =>
        file = "own" /\ drain = "ok" /\ capture = written /\ written <= Cap

\* `stdout: null' is recorded only once the partial file is provably gone
\* (the StoppedCapture comment), unless the failure is terminal.
NullCaptureLeavesNoPartial ==
    outcome = "failed" /\ capture = NoCapture => file # "own"

\* A success holds every byte any process wrote to stdout, of a child that
\* exited with status 0, and it is never the result of a cut-off drain.
SuccessIsComplete ==
    outcome = "ok" =>
        status = "ok" /\ capture = produced /\ writers = {} /\ ~cancelled

\* terminate_and_reap is entered only while the child is unreaped, so no
\* caller (the second call from Drop above all) meets its early returns.
EntersUnreaped == pc = "tBegin" => status = "none" /\ ~reapAttempted

\* Drop never finds a drain to join: every return took or detached it, so an
\* unstoppable reader is always reported, never discarded by Drop.
DropHoldsNoDrain == outcome # "none" => ~handle

\* Once the analyzer has exited, or rizin's deadline has passed, the attempt
\* ends: no stuck drain, escaped pipe holder or unkillable child can hold the
\* supervisor forever.
AttemptEnds == (leader \in {"zombie", "reaped"} \/ expired) ~> pc = "done"

\* When no system call failed, an attempt that ended leaves no process of its
\* group in the long run, terminal or not: SIGKILL follows the grace period.
GroupDies == (pc = "done" /\ faults = 0) ~> (leader # "running"
                                             /\ member = "none")

\* No caller reaches the branches that the steps above leave out.
OmittedUnreachable == EntersUnreaped /\ DropHoldsNoDrain

\* The attempt implements its contract: what it leaves behind is a live or
\* unreaped process of its group, a running drain, or a partial file that no
\* capture record describes.
Residue == \/ leader \in {"running", "zombie"} \/ member # "none"
           \/ drain \in {"check", "read"}
           \/ file = "own" /\ capture = NoCapture
Contract == INSTANCE AttemptContract
                WITH captured <- capture # NoCapture, residue <- Residue

\* Every step of the supervisor, the drain and the processes maps to a step of
\* AttemptContract: an outcome is final, and only a terminal one has residue.
MeetsContract == Contract!Spec
=============================================================================
