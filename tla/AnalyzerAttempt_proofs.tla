------------------------ MODULE AnalyzerAttempt_proofs ------------------------
(***************************************************************************)
(* Proofs about AnalyzerAttempt for every cap, window and fault budget.    *)
(* Type correctness is proved one group of variables at a time: first      *)
(* which actions touch the group, then that each of them keeps its type.   *)
(* The safety properties and the refinement of AttemptContract follow from *)
(* one inductive invariant, AttemptInv, with one lemma for each of its     *)
(* parts.                                                                  *)
(***************************************************************************)
EXTENDS AnalyzerAttempt, TLAPS

\* Of all steps, only these touch the finalization window and the deadline.
LEMMA LoopFrame ==
    [Next]_vars => \/ UNCHANGED loopVars
                   \/ Tick \/ DeadlineExpires \/ Limits \/ ObserveRunning
  BY DEF Next, vars, loopVars, Processes, Drain, Supervisor, TerminateAndReap,
         Spawn, Configure, Create, StartDrain, StartDrainFails, Return, Join,
         Remove, ObserveFails, ObserveFinalizing, Natural, StopCancel,
         StopWait, StopJoin, Drop

\* The window's clocks stay within the absolute limit, the idle clock behind
\* the elapsed one.
LEMMA LoopTypeStep == TypeOK /\ [Next]_vars => LoopTypeOK'
  <1> SUFFICES ASSUME TypeOK, [Next]_vars PROVE LoopTypeOK'
    OBVIOUS
  <1> USE LimitsAssumption DEF LoopTypeOK
  <1>1. LoopTypeOK /\ written \in 0..Cap
    BY DEF TypeOK, DrainTypeOK
  <1>2. CASE UNCHANGED loopVars BY <1>1, <1>2 DEF loopVars
  <1>3. CASE Tick
    <2>1. /\ window'.elapsed = window.elapsed + 1
          /\ window'.idle = window.idle + 1 /\ window'.seen = window.seen
          /\ window' = [elapsed |-> window'.elapsed, idle |-> window'.idle,
                        seen |-> window'.seen]
          /\ UNCHANGED <<producer, state, expired>>
      BY <1>1, <1>3 DEF Tick
    <2>2. window.elapsed < AbsoluteLimit BY <1>3 DEF Tick
    <2> QED BY <1>1, <2>1, <2>2
  <1>4. CASE DeadlineExpires BY <1>1, <1>4 DEF DeadlineExpires
  <1>5. CASE Limits
    <2>1. /\ window'.elapsed = window.elapsed
          /\ window'.idle \in {window.idle, 0}
          /\ window'.seen \in {window.seen, written}
          /\ window' = [elapsed |-> window'.elapsed, idle |-> window'.idle,
                        seen |-> window'.seen]
          /\ UNCHANGED <<producer, state, expired>>
      BY <1>1, <1>5 DEF Limits
    <2> QED BY <1>1, <2>1
  <1>6. CASE ObserveRunning BY <1>1, <1>6 DEF ObserveRunning
  <1> QED BY <1>2, <1>3, <1>4, <1>5, <1>6, LoopFrame

\* Only the drain thread, and the supervisor steps that start it, cancel it or
\* create and remove its file, touch the drain's variables.
LEMMA DrainFrame ==
    [Next]_vars => \/ UNCHANGED drainVars
                   \/ Drain \/ Create \/ StartDrain \/ StartDrainFails
                   \/ Remove \/ StopCancel \/ StopJoin
  BY DEF Next, vars, drainVars, Processes, Tick, DeadlineExpires, Supervisor,
         TerminateAndReap, Spawn, Configure, Return, Limits, Join,
         ObserveRunning, ObserveFails, ObserveFinalizing, Natural, StopWait,
         Drop

\* The drain never copies more than the cap.
LEMMA DrainTypeStep == TypeOK /\ [Next]_vars => DrainTypeOK'
  <1> SUFFICES ASSUME TypeOK, [Next]_vars PROVE DrainTypeOK'
    OBVIOUS
  <1> USE LimitsAssumption DEF DrainTypeOK
  <1>1. DrainTypeOK /\ produced \in 0..MaxOut
    BY DEF TypeOK, OSTypeOK
  <1>2. CASE UNCHANGED drainVars BY <1>1, <1>2 DEF drainVars
  <1>3. CASE Drain
    <2>1. CASE DrainCheck BY <1>1, <1>3, <2>1 DEF Drain, DrainCheck
    <2>2. CASE DrainRead /\ DrainChunk
      BY <1>1, <1>3, <2>2 DEF Drain, DrainChunk, Pipe
    <2>3. CASE DrainRead /\ DrainEmpty
      BY <1>1, <1>3, <2>3 DEF Drain, DrainEmpty
    <2>4. CASE DrainRead /\ DrainReadFails
      BY <1>1, <1>3, <2>4 DEF Drain, DrainReadFails
    <2> QED BY <1>3, <2>1, <2>2, <2>3, <2>4 DEF Drain, DrainRead
  <1>4. CASE Create BY <1>1, <1>4 DEF Create
  <1>5. CASE StartDrain BY <1>1, <1>5 DEF StartDrain
  <1>6. CASE StartDrainFails BY <1>1, <1>6 DEF StartDrainFails
  <1>7. CASE Remove BY <1>1, <1>7 DEF Remove, RemoveFile
  <1>8. CASE StopCancel BY <1>1, <1>8 DEF StopCancel
  <1>9. CASE StopJoin BY <1>1, <1>9 DEF StopJoin, RemoveFile
  <1> QED
    BY <1>2, <1>3, <1>4, <1>5, <1>6, <1>7, <1>8, <1>9, DrainFrame

\* Only the processes themselves, Spawn and the supervisor's waits and signals
\* touch the operating system's variables.
LEMMA OSFrame ==
    [Next]_vars => \/ UNCHANGED osVars
                   \/ Processes \/ Spawn \/ ObserveRunning \/ TerminateAndReap
  BY DEF Next, vars, osVars, Drain, Tick, DeadlineExpires, Supervisor,
         Configure, Create, StartDrain, StartDrainFails, Return, Limits, Join,
         Remove, ObserveFails, ObserveFinalizing, Natural, StopCancel,
         StopWait, StopJoin, Drop

LEMMA OSTypeStep == TypeOK /\ [Next]_vars => OSTypeOK'
  <1> SUFFICES ASSUME TypeOK, [Next]_vars PROVE OSTypeOK'
    OBVIOUS
  <1> USE LimitsAssumption DEF OSTypeOK
  <1>1. OSTypeOK BY DEF TypeOK
  <1>2. CASE UNCHANGED osVars BY <1>1, <1>2 DEF osVars
  <1>3. CASE Processes
    <2> USE <1>1, <1>3 DEF processVars, Exits
    <2>1. CASE LeaderExit BY <2>1 DEF Processes, LeaderExit
    <2>2. CASE Fork BY <2>2 DEF Processes, Fork
    <2>3. CASE MemberExit BY <2>3 DEF Processes, MemberExit
    <2>4. CASE MemberReaped BY <2>4 DEF Processes, MemberReaped
    <2>5. CASE Escape BY <2>5 DEF Processes, Escape
    <2>6. CASE CloseStdout BY <2>6 DEF Processes, CloseStdout
    <2>7. CASE Write BY <2>7 DEF Processes, Write
    <2>8. CASE PidReuse BY <2>8 DEF Processes, PidReuse
    <2> QED BY <2>1, <2>2, <2>3, <2>4, <2>5, <2>6, <2>7, <2>8 DEF Processes
  <1>4. CASE Spawn BY <1>1, <1>4 DEF Spawn
  <1>5. CASE ObserveRunning BY <1>1, <1>5 DEF ObserveRunning, Waitid
  <1>6. CASE TerminateAndReap
    <2> USE <1>1, <1>6 DEF TerminateAndReap
    <2>1. CASE TBegin
      BY <2>1 DEF TBegin, ObserveExit, Waitid, SignalTo, Alive
    <2>2. CASE TGrace BY <2>2 DEF TGrace, ObserveExit, Waitid
    <2>3. CASE TKill BY <2>3 DEF TKill, SignalTo, Alive
    <2>4. CASE TKillChild BY <2>4 DEF TKillChild, SignalTo, Alive
    <2>5. CASE TObserve BY <2>5 DEF TObserve, ObserveExit, Waitid
    <2>6. CASE TReap BY <2>6 DEF TReap
    <2>7. CASE TVerify BY <2>7 DEF TVerify
    <2> QED BY <2>1, <2>2, <2>3, <2>4, <2>5, <2>6, <2>7
  <1> QED BY <1>2, <1>3, <1>4, <1>5, <1>6, OSFrame

\* Only waits, reaps and the drain's start and join touch AnalyzerProcess.
LEMMA ChildFrame ==
    [Next]_vars => \/ UNCHANGED childVars
                   \/ StartDrain \/ Join \/ ObserveRunning \/ StopWait
                   \/ StopJoin \/ TerminateAndReap
  BY DEF Next, vars, childVars, Processes, Drain, Tick, DeadlineExpires,
         Supervisor, Spawn, Configure, Create, StartDrainFails, Return,
         Limits, Remove, ObserveFails, ObserveFinalizing, Natural, StopCancel,
         Drop

LEMMA ChildTypeStep == TypeOK /\ [Next]_vars => ChildTypeOK'
  <1> SUFFICES ASSUME TypeOK, [Next]_vars PROVE ChildTypeOK'
    OBVIOUS
  <1> USE DEF ChildTypeOK
  <1>1. ChildTypeOK /\ exit \in Exits \cup {"none"}
    BY DEF TypeOK, OSTypeOK
  <1>2. CASE UNCHANGED childVars BY <1>1, <1>2 DEF childVars
  <1>3. CASE StartDrain BY <1>1, <1>3 DEF StartDrain
  <1>4. CASE Join BY <1>1, <1>4 DEF Join
  <1>5. CASE ObserveRunning BY <1>1, <1>5 DEF ObserveRunning, Exited
  <1>6. CASE StopWait BY <1>1, <1>6 DEF StopWait
  <1>7. CASE StopJoin BY <1>1, <1>7 DEF StopJoin
  <1>8. CASE TerminateAndReap
    <2>1. CASE TBegin
      BY <1>1, <1>8, <2>1 DEF TerminateAndReap, TBegin, ObserveExit
    <2>2. CASE TGrace
      BY <1>1, <1>8, <2>2 DEF TerminateAndReap, TGrace, ObserveExit
    <2>3. CASE TKill \/ TKillChild
      BY <1>1, <1>8, <2>3 DEF TerminateAndReap, TKill, TKillChild
    <2>4. CASE TObserve
      BY <1>1, <1>8, <2>4 DEF TerminateAndReap, TObserve, ObserveExit
    <2>5. CASE TReap BY <1>1, <1>8, <2>5 DEF TerminateAndReap, TReap
    <2>6. CASE TVerify BY <1>1, <1>8, <2>6 DEF TerminateAndReap, TVerify
    <2> QED
      BY <1>8, <2>1, <2>2, <2>3, <2>4, <2>5, <2>6 DEF TerminateAndReap
  <1> QED
    BY <1>2, <1>3, <1>4, <1>5, <1>6, <1>7, <1>8, ChildFrame

\* The processes and the clock leave the supervisor's state alone.
LEMMA ResultFrame ==
    [Next]_vars => \/ UNCHANGED <<resultVars, pc, faults>>
                   \/ Drain \/ Supervisor
  BY DEF Next, vars, resultVars, Processes, Tick, DeadlineExpires

LEMMA ControlTypeStep == TypeOK /\ [Next]_vars => ControlTypeOK'
  <1> SUFFICES ASSUME TypeOK, [Next]_vars PROVE ControlTypeOK'
    OBVIOUS
  <1> USE DEF ControlTypeOK
  <1>1. ControlTypeOK BY DEF TypeOK
  <1>2. CASE UNCHANGED <<resultVars, pc, faults>>
    BY <1>1, <1>2 DEF resultVars
  <1>3. CASE Drain BY <1>1, <1>3 DEF Drain, resultVars
  <1>4. CASE TerminateAndReap
    <2> USE <1>1, <1>4 DEF TerminateAndReap, TFinishErr, Steps
    <2>1. CASE TBegin BY <2>1 DEF TBegin, SignalTo
    <2>2. CASE TGrace BY <2>2 DEF TGrace
    <2>3. CASE TKill BY <2>3 DEF TKill, SignalTo
    <2>4. CASE TKillChild BY <2>4 DEF TKillChild, SignalTo
    <2>5. CASE TObserve BY <2>5 DEF TObserve
    <2>6. CASE TReap BY <2>6 DEF TReap
    <2>7. CASE TVerify BY <2>7 DEF TVerify
    <2> QED BY <1>4, <2>1, <2>2, <2>3, <2>4, <2>5, <2>6, <2>7
  <1>5. CASE Supervisor /\ ~TerminateAndReap
    <2> USE <1>1 DEF Steps, Terminate, Fail
    <2>1. CASE Spawn BY <2>1 DEF Spawn
    <2>2. CASE Configure BY <2>2 DEF Configure
    <2>3. CASE Create BY <2>3 DEF Create
    <2>4. CASE StartDrain BY <2>4 DEF StartDrain, resultVars
    <2>5. CASE StartDrainFails BY <2>5 DEF StartDrainFails
    <2>6. CASE Return BY <2>6 DEF Return
    <2>7. CASE Limits BY <2>7 DEF Limits
    <2>8. CASE Join BY <2>8 DEF Join
    <2>9. CASE Remove BY <2>9 DEF Remove, RemoveFile
    <2>10. CASE ObserveRunning BY <2>10 DEF ObserveRunning
    <2>11. CASE ObserveFails BY <2>11 DEF ObserveFails
    <2>12. CASE ObserveFinalizing BY <2>12 DEF ObserveFinalizing
    <2>13. CASE Natural BY <2>13 DEF Natural
    <2>14. CASE StopCancel BY <2>14 DEF StopCancel, resultVars
    <2>15. CASE StopWait BY <2>15 DEF StopWait
    <2>16. CASE StopJoin BY <2>16 DEF StopJoin, RemoveFile
    <2>17. CASE Drop BY <2>17 DEF Drop
    <2> QED
      BY <1>5, <2>1, <2>2, <2>3, <2>4, <2>5, <2>6, <2>7, <2>8, <2>9, <2>10,
         <2>11, <2>12, <2>13, <2>14, <2>15, <2>16, <2>17 DEF Supervisor
  <1> QED BY <1>2, <1>3, <1>4, <1>5, ResultFrame

\* A capture is recorded with the bytes the drain copied, by two steps only.
LEMMA CaptureFrame ==
    [Next]_vars => capture' = capture \/ capture' = written
  BY DEF Next, vars, resultVars, Processes, Tick, DeadlineExpires, Drain,
         Supervisor, TerminateAndReap, Spawn, Configure, Create, StartDrain,
         StartDrainFails, Return, Limits, Join, Remove, ObserveRunning,
         ObserveFails, ObserveFinalizing, Natural, StopCancel, StopWait,
         StopJoin, Drop

\* The fault budget is spent one unit at a time, twice when a removal fails too.
LEMMA FaultFrame ==
    [Next]_vars => \/ faults' = faults
                   \/ faults < MaxFaults /\ faults' = faults + 1
                   \/ faults + 1 < MaxFaults /\ faults' = faults + 2
  <1> SUFFICES ASSUME [Next]_vars
               PROVE  \/ faults' = faults
                      \/ faults < MaxFaults /\ faults' = faults + 1
                      \/ faults + 1 < MaxFaults /\ faults' = faults + 2
    OBVIOUS
  <1> USE DEF Fault, NoFault
  <1>1. CASE UNCHANGED <<resultVars, pc, faults>> BY <1>1
  <1>2. CASE Drain
    BY <1>2 DEF Drain, DrainCheck, DrainRead, DrainChunk, DrainEmpty,
                DrainReadFails
  <1>3. CASE TerminateAndReap
    BY <1>3 DEF TerminateAndReap, TBegin, TGrace, TKill, TKillChild,
                TObserve, TReap, TVerify, SignalTo
  <1>4. CASE Supervisor /\ ~TerminateAndReap
    BY <1>4 DEF Supervisor, Spawn, Configure, Create, StartDrain,
                StartDrainFails, Return, Limits, Join, Remove, RemoveFile,
                ObserveRunning, ObserveFails, ObserveFinalizing, Natural,
                StopCancel, StopWait, StopJoin, Drop
  <1> QED BY <1>1, <1>2, <1>3, <1>4, ResultFrame

LEMMA CountTypeStep == TypeOK /\ [Next]_vars => CountTypeOK'
  BY LimitsAssumption, CaptureFrame, FaultFrame
     DEF TypeOK, CountTypeOK, DrainTypeOK

LEMMA TypeInit == Init => TypeOK
  <1> SUFFICES ASSUME Init PROVE TypeOK
    OBVIOUS
  <1>0. /\ reused \in BOOLEAN /\ stray \in BOOLEAN
        /\ cancelled \in BOOLEAN /\ handle \in BOOLEAN
        /\ exitObserved \in BOOLEAN /\ reapAttempted \in BOOLEAN
        /\ expired \in BOOLEAN
        /\ cleanupErr \in BOOLEAN /\ terminal \in BOOLEAN
    BY Zenon DEF Init
  <1>1. OSTypeOK
    <2>1. /\ leader = "absent" /\ exit = "none" /\ member = "none"
          /\ writers = {} /\ killPending = {} /\ produced = 0
      BY DEF Init
    <2> QED BY <1>0, <2>1, LimitsAssumption DEF OSTypeOK, Exits
  <1>2. DrainTypeOK /\ ChildTypeOK
    <2>1. /\ drain = "none" /\ written = 0
          /\ file \in {"absent", "stale"}
          /\ status = "none"
      BY DEF Init
    <2> QED
      BY <1>0, <2>1, LimitsAssumption DEF DrainTypeOK, ChildTypeOK, Exits
  <1>3. LoopTypeOK
    <2>1. /\ producer \in Producers /\ state = "Running"
          /\ window = [elapsed |-> 0, idle |-> 0, seen |-> 0]
      BY DEF Init
    <2> QED BY <1>0, <2>1, LimitsAssumption DEF LoopTypeOK
  <1>4. ControlTypeOK
    <2>1. pc = "spawn" /\ after = "return" /\ outcome = "none"
      BY DEF Init
    <2> QED BY <1>0, <2>1 DEF ControlTypeOK, Steps
  <1>5. CountTypeOK
    <2>1. capture = NoCapture /\ faults = 0
      BY DEF Init
    <2> QED BY <2>1, LimitsAssumption DEF CountTypeOK
  <1> QED BY <1>1, <1>2, <1>3, <1>4, <1>5 DEF TypeOK

LEMMA TypeStep == TypeOK /\ [Next]_vars => TypeOK'
  BY OSTypeStep, DrainTypeStep, ChildTypeStep, LoopTypeStep, ControlTypeStep,
     CountTypeStep
     DEF TypeOK

\* AnalyzerAttempt's type invariant holds for every value of its constants:
\* the capture never exceeds the cap, the window never its absolute limit.
THEOREM TypeCorrect == Spec => []TypeOK
  BY TypeInit, TypeStep, PTL DEF Spec

-----------------------------------------------------------------------------
(* Signals stay home.                                                      *)

\* While the pid can still name the child's own group, no reap was attempted.
Identity ==
    /\ leader = "reaped" => reapAttempted
    /\ reused => reapAttempted
    /\ NoStraySignal

\* What TerminateAndReap's steps do to the child's identity: they signal an
\* unrelated group only if the pid was reused before any reap attempt, and
\* the one that reaps marks the attempt.
LEMMA TerminateIdentity ==
    ASSUME TypeOK, TerminateAndReap
    PROVE  /\ reused' = reused
           /\ stray' => stray \/ (reused /\ ~reapAttempted)
           /\ reapAttempted => reapAttempted'
           /\ leader' = "reaped" => leader = "reaped" \/ reapAttempted'
  <1> USE DEF TerminateAndReap
  <1>0. stray \in BOOLEAN /\ reused \in BOOLEAN /\ reapAttempted \in BOOLEAN
    BY DEF TypeOK, OSTypeOK, ChildTypeOK
  <1>1. CASE TBegin
    BY <1>0, <1>1 DEF TBegin, SignalTo, ObserveExit, Waitid
  <1>2. CASE TGrace BY <1>2 DEF TGrace, ObserveExit, Waitid
  <1>3. CASE TKill BY <1>0, <1>3 DEF TKill, SignalTo
  <1>4. CASE TKillChild BY <1>0, <1>4 DEF TKillChild, SignalTo
  <1>5. CASE TObserve BY <1>5 DEF TObserve, ObserveExit, Waitid
  <1>6. CASE TReap BY <1>6 DEF TReap
  <1>7. CASE TVerify BY <1>7 DEF TVerify
  <1> QED BY <1>1, <1>2, <1>3, <1>4, <1>5, <1>6, <1>7

\* Only terminate_and_reap changes reapAttempted.
LEMMA ReapFrame ==
    [Next]_vars => reapAttempted' = reapAttempted \/ TerminateAndReap
  BY DEF Next, vars, childVars, Processes, Drain, Tick, DeadlineExpires,
         Supervisor, Spawn, Configure, Create, StartDrain, StartDrainFails,
         Return, Limits, Join, Remove, ObserveRunning, ObserveFails,
         ObserveFinalizing, Natural, StopCancel, StopWait, StopJoin, Drop

LEMMA IdentityStep == TypeOK /\ Identity /\ [Next]_vars => Identity'
  <1> SUFFICES ASSUME TypeOK, Identity, [Next]_vars PROVE Identity'
    OBVIOUS
  <1> USE DEF Identity, NoStraySignal
  <1>1. CASE TerminateAndReap BY <1>1, TerminateIdentity
  <1>2. CASE reapAttempted' = reapAttempted
    <2>1. CASE UNCHANGED osVars BY <1>2, <2>1 DEF osVars
    <2>2. CASE Processes
      <3>1. reused' => reused \/ leader = "reaped"
        BY <2>2 DEF Processes, LeaderExit, Fork, MemberExit, MemberReaped,
                    Escape, CloseStdout, Write, PidReuse
      <3>2. leader' = "reaped" => leader = "reaped"
        BY <2>2 DEF Processes, LeaderExit, Fork, MemberExit, MemberReaped,
                    Escape, CloseStdout, Write, PidReuse, processVars
      <3> QED BY <1>2, <2>2, <3>1, <3>2 DEF Processes
    <2>3. CASE Spawn BY <1>2, <2>3 DEF Spawn
    <2>4. CASE ObserveRunning BY <1>2, <2>4 DEF ObserveRunning, Waitid
    <2> QED BY <1>1, <2>1, <2>2, <2>3, <2>4, OSFrame
  <1> QED BY <1>1, <1>2, ReapFrame

\* For every number of faults and every interleaving, no SIGTERM or SIGKILL
\* reaches a group that merely reuses the analyzer's pid (observe_exit's
\* WNOWAIT, the refusals of signal_process_group and kill_child).
THEOREM SignalsStayHome == Spec => []NoStraySignal
  <1>1. Init => Identity BY DEF Init, Identity, NoStraySignal
  <1>2. Identity => NoStraySignal BY DEF Identity
  <1> QED BY <1>1, <1>2, IdentityStep, TypeCorrect, PTL DEF Spec

-----------------------------------------------------------------------------
(* How an attempt ends, and what it leaves. The invariant follows the      *)
(* supervisor: for every place it can be in, who holds the drain, whether  *)
(* the capture was recorded, whose file is on disk, and what is known of   *)
(* the child.                                                              *)

Terminating == pc \in {"tBegin", "tGrace", "tKill", "tKillChild", "tObserve",
                       "tReap", "tVerify"}
HeadingFor(k) == pc = k \/ (Terminating /\ after = k)
Setup    == \/ pc \in {"spawn", "configure", "create", "start"}
            \/ HeadingFor("return")
Stopping == HeadingFor("stop") \/ pc \in {"sWait", "sJoin"}
Ended    == pc = "drop" \/ HeadingFor("done")
Live     == drain \in {"check", "read"}
Gone     == leader = "reaped" /\ member = "none"

\* An outcome is set by the step that leaves the supervision for Drop.
Outcomes == outcome # "none" <=> Ended

\* Who holds the drain, and whether its capture was taken, in each phase.
Phases ==
    /\ Setup => drain = "none" /\ ~handle /\ capture = NoCapture
    /\ InLoop => drain # "none" /\ (handle <=> capture = NoCapture)
    /\ HeadingFor("remove") => drain = "err" /\ ~handle /\ capture = NoCapture
    /\ HeadingFor("natural") => ~handle /\ capture # NoCapture
    /\ Stopping => drain # "none"
    /\ HeadingFor("stop") \/ pc = "sWait" => (handle <=> capture = NoCapture)
    /\ pc = "sJoin" =>
          /\ handle => drain \in {"ok", "err"} /\ capture = NoCapture
          /\ ~handle /\ capture = NoCapture => terminal
    /\ Ended => ~handle

\* A failure is marked terminal only where the next step returns it.
NoTerm == outcome = "none" /\ terminal => HeadingFor("return") \/ pc = "sJoin"

\* A drain that nobody can join any more makes the failure terminal.
Abandoned ==
    Live => handle \/ outcome = "terminal" \/ (pc = "sJoin" /\ terminal)

\* Whose capture file is on disk.
OwnFile ==
    /\ pc \in {"spawn", "configure", "create"} => file # "own"
    /\ HeadingFor("return") => file # "own" \/ terminal
    /\ (pc = "start" \/ InLoop \/ Stopping
        \/ HeadingFor("remove") \/ HeadingFor("natural")) => file = "own"
    /\ outcome = "failed" /\ file = "own" => capture # NoCapture
    /\ outcome = "ok" => capture # NoCapture

\* A recorded capture is the whole of a finished drain's own file.
Captured ==
    capture # NoCapture =>
        file = "own" /\ drain = "ok" /\ capture = written

\* A reap is attempted at most once, by the last steps of the cleanup.
Reaping ==
    /\ status # "none" => reapAttempted
    /\ reapAttempted => pc \in {"tVerify", "return", "remove", "natural",
                                "stop", "sWait", "sJoin", "drop", "done"}
    /\ pc = "tVerify" => leader = "reaped"

\* A cleanup without error saw the group gone, and it never comes back.
Group ==
    /\ leader = "absent" =>
          /\ member = "none"
          /\ pc = "spawn" \/ (pc = "done" /\ outcome = "failed")
    /\ pc = "spawn" => leader = "absent"
    /\ pc \in {"return", "remove", "natural", "stop", "sWait", "sJoin"} =>
          cleanupErr \/ Gone
    /\ outcome \in {"ok", "failed"} => Gone \/ leader = "absent"

\* A drain that was not cancelled ends at end of file, with all that was
\* written.
Complete ==
    /\ written <= produced
    /\ drain = "ok" /\ ~cancelled => writers = {} /\ written = produced

\* It is cancelled only on the way to a failure.
CancelledFails ==
    /\ cancelled =>
          pc \in {"sWait", "sJoin"} \/ outcome \in {"failed", "terminal"}
    /\ outcome = "ok" => status = "ok" /\ drain = "ok"

\* terminate_and_reap as the rest of the attempt sees it: it runs through its
\* own steps and returns to its caller.
LEMMA TerminateFrame ==
    ASSUME TerminateAndReap
    PROVE  /\ Terminating
           /\ Terminating' \/ pc' = after
           /\ UNCHANGED <<after, outcome, capture, terminal, drain, cancelled,
                          written, file, handle, writers, produced, member>>
  <1> USE DEF TerminateAndReap, Terminating, TFinishErr
  <1>1. UNCHANGED <<after, outcome, capture, terminal, drain, cancelled,
                    written, file, handle, writers, produced, member>>
    BY DEF drainVars
  <1>2. CASE TBegin BY <1>1, <1>2 DEF TBegin
  <1>3. CASE TGrace BY <1>1, <1>3 DEF TGrace
  <1>4. CASE TKill BY <1>1, <1>4 DEF TKill
  <1>5. CASE TKillChild BY <1>1, <1>5 DEF TKillChild
  <1>6. CASE TObserve BY <1>1, <1>6 DEF TObserve
  <1>7. CASE TReap BY <1>1, <1>7 DEF TReap
  <1>8. CASE TVerify BY <1>1, <1>8 DEF TVerify
  <1> QED BY <1>2, <1>3, <1>4, <1>5, <1>6, <1>7, <1>8

\* Each of its steps: where it stands before the reap, what the reap and the
\* verification establish, and that only they return without an error.
LEMMA TerminateReaps ==
    ASSUME TypeOK, TerminateAndReap
    PROVE  /\ \/ pc = "tReap" /\ reapAttempted'
              \/ UNCHANGED <<reapAttempted, status>> /\ pc # "tReap"
           /\ pc = "tReap" /\ pc' = "tVerify" => leader' = "reaped"
           /\ pc' = "tVerify" => pc = "tReap"
           /\ pc = "tReap" => pc' \in {"tVerify", after}
           /\ pc = "tVerify" => pc' = after
           /\ \/ pc' # after \/ cleanupErr'
              \/ pc = "tVerify" /\ member = "none"
           /\ leader = "reaped" => leader' = "reaped"
           /\ leader' = "absent" => leader = "absent"
  <1> USE DEF TerminateAndReap, TFinishErr
  <1>0. after \in {"return", "remove", "natural", "stop", "done"}
    BY DEF TypeOK, ControlTypeOK
  <1>1. CASE TBegin BY <1>0, <1>1 DEF TBegin, ObserveExit, Waitid, Exited
  <1>2. CASE TGrace BY <1>0, <1>2 DEF TGrace, ObserveExit, Waitid, Exited
  <1>3. CASE TKill BY <1>0, <1>3 DEF TKill
  <1>4. CASE TKillChild BY <1>0, <1>4 DEF TKillChild
  <1>5. CASE TObserve BY <1>0, <1>5 DEF TObserve, ObserveExit, Waitid, Exited
  <1>6. CASE TReap BY <1>0, <1>6 DEF TReap
  <1>7. CASE TVerify BY <1>0, <1>7 DEF TVerify, GroupExists
  <1> QED BY <1>1, <1>2, <1>3, <1>4, <1>5, <1>6, <1>7

\* The drain thread's own steps, as the supervisor sees them.
LEMMA DrainSteps ==
    ASSUME TypeOK, Drain
    PROVE  /\ Live /\ drain' \in {"check", "read", "ok", "err"}
           /\ UNCHANGED <<cancelled, file, childVars, resultVars, pc>>
  BY DEF Drain, DrainCheck, DrainRead, DrainChunk, DrainEmpty, DrainReadFails,
         Live

controlVars == <<resultVars, pc, drainVars, childVars>>

\* The steps of the supervisor proper, by what they do next.
LEMMA SupervisorSteps ==
    [Next]_vars => \/ UNCHANGED controlVars
                   \/ Drain \/ TerminateAndReap
                   \/ Spawn \/ Configure \/ Create \/ StartDrain
                   \/ StartDrainFails \/ Return \/ Limits \/ Join \/ Remove
                   \/ ObserveRunning \/ ObserveFails \/ ObserveFinalizing
                   \/ Natural \/ StopCancel \/ StopWait \/ StopJoin \/ Drop
  BY DEF Next, vars, controlVars, resultVars, drainVars, childVars, Processes,
         Tick, DeadlineExpires, Supervisor

\* No step but Spawn gives the attempt a leader, none takes a reaped one back,
\* and only a running leader brings its group to life.
LEMMA GroupStays ==
    ASSUME TypeOK, [Next]_vars
    PROVE  /\ leader = "reaped" => leader' = "reaped" \/ Spawn
           /\ leader' = "absent" => leader = "absent"
           /\ leader = "absent" => leader' = "absent" \/ Spawn \/ Terminating
           /\ leader # "running" /\ member = "none" => member' = "none"
  <1>1. CASE UNCHANGED osVars BY <1>1 DEF osVars
  <1>2. CASE Processes
    BY <1>2 DEF Processes, LeaderExit, Fork, MemberExit, MemberReaped, Escape,
                CloseStdout, Write, PidReuse, processVars
  <1>3. CASE Spawn BY <1>3 DEF Spawn
  <1>4. CASE ObserveRunning BY <1>4 DEF ObserveRunning, Waitid
  <1>5. CASE TerminateAndReap BY <1>5, TerminateReaps, TerminateFrame
  <1> QED BY <1>1, <1>2, <1>3, <1>4, <1>5, OSFrame

\* An outcome is set exactly by the steps that lead to Drop.
LEMMA OutcomesStep == TypeOK /\ Outcomes /\ [Next]_vars => Outcomes'
  <1> SUFFICES ASSUME TypeOK, Outcomes, [Next]_vars PROVE Outcomes'
    OBVIOUS
  <1>0. ControlTypeOK BY DEF TypeOK
  <1> USE DEF Outcomes, Ended, HeadingFor, Terminating
  <1>1. CASE UNCHANGED controlVars BY <1>1 DEF controlVars, resultVars
  <1>2. CASE Drain BY <1>2, DrainSteps DEF resultVars
  <1>3. CASE TerminateAndReap BY <1>3, TerminateFrame, <1>0 DEF ControlTypeOK
  <1> USE DEF Terminate, Fail
  <1>4. CASE Spawn BY <1>4 DEF Spawn
  <1>5. CASE Configure BY <1>5 DEF Configure
  <1>6. CASE Create BY <1>6 DEF Create
  <1>7. CASE StartDrain BY <1>7 DEF StartDrain, drainVars, resultVars
  <1>8. CASE StartDrainFails BY <1>8 DEF StartDrainFails
  <1>9. CASE Return BY <1>9 DEF Return
  <1>10. CASE Limits BY <1>10 DEF Limits
  <1>11. CASE Join BY <1>11 DEF Join
  <1>12. CASE Remove BY <1>12 DEF Remove
  <1>13. CASE ObserveRunning BY <1>13 DEF ObserveRunning
  <1>14. CASE ObserveFails BY <1>14 DEF ObserveFails
  <1>15. CASE ObserveFinalizing BY <1>15 DEF ObserveFinalizing
  <1>16. CASE Natural BY <1>16 DEF Natural
  <1>17. CASE StopCancel BY <1>17 DEF StopCancel, drainVars, resultVars
  <1>18. CASE StopWait BY <1>18 DEF StopWait
  <1>19. CASE StopJoin BY <1>19 DEF StopJoin
  <1>20. CASE Drop BY <1>20 DEF Drop
  <1> QED BY <1>1, <1>2, <1>3, <1>4, <1>5, <1>6, <1>7, <1>8, <1>9, <1>10,
              <1>11, <1>12, <1>13, <1>14, <1>15, <1>16, <1>17, <1>18, <1>19,
              <1>20, SupervisorSteps

\* Each phase hands the drain and the capture to the next as it expects.
LEMMA PhasesStep == TypeOK /\ Phases /\ [Next]_vars => Phases'
  <1> SUFFICES ASSUME TypeOK, Phases, [Next]_vars PROVE Phases'
    OBVIOUS
  <1>0. ControlTypeOK BY DEF TypeOK
  <1>w. written \in Int /\ written >= 0
    BY LimitsAssumption DEF TypeOK, DrainTypeOK
  <1> USE DEF Phases, Setup, InLoop, Stopping, Ended, HeadingFor, Terminating
  <1>1. CASE UNCHANGED controlVars
    BY <1>1 DEF controlVars, resultVars, drainVars, childVars
  <1>2. CASE Drain BY <1>2, DrainSteps DEF resultVars, Live, childVars
  <1>3. CASE TerminateAndReap BY <1>3, TerminateFrame, <1>0 DEF ControlTypeOK
  <1> USE DEF Terminate, Fail
  <1>4. CASE Spawn BY <1>4 DEF Spawn, drainVars, childVars, resultVars, osVars
  <1>5. CASE Configure
    BY <1>5 DEF Configure, drainVars, childVars, resultVars, osVars
  <1>6. CASE Create
    BY <1>6 DEF Create, drainVars, childVars, resultVars, osVars
  <1>7. CASE StartDrain
    BY <1>7 DEF StartDrain, drainVars, childVars, resultVars, osVars
  <1>8. CASE StartDrainFails
    BY <1>8 DEF StartDrainFails, drainVars, childVars, resultVars, osVars
  <1>9. CASE Return
    BY <1>9 DEF Return, drainVars, childVars, resultVars, osVars
  <1>10. CASE Limits
    BY <1>10 DEF Limits, drainVars, childVars, resultVars, osVars
  <1>11. CASE Join
    BY <1>11, <1>w DEF Join, drainVars, childVars, resultVars, osVars,
         NoCapture, DrainFinished
  <1>12. CASE Remove
    BY <1>12 DEF Remove, drainVars, childVars, resultVars, osVars, RemoveFile
  <1>13. CASE ObserveRunning
    BY <1>13 DEF ObserveRunning, drainVars, childVars, resultVars, osVars,
         Classify
  <1>14. CASE ObserveFails
    BY <1>14 DEF ObserveFails, drainVars, childVars, resultVars, osVars
  <1>15. CASE ObserveFinalizing
    BY <1>15 DEF ObserveFinalizing, drainVars, childVars, resultVars, osVars
  <1>16. CASE Natural
    BY <1>16 DEF Natural, drainVars, childVars, resultVars, osVars
  <1>17. CASE StopCancel
    BY <1>17 DEF StopCancel, drainVars, childVars, resultVars, osVars
  <1>18. CASE StopWait
    BY <1>18 DEF StopWait, drainVars, childVars, resultVars, osVars,
         DrainFinished
  <1>19. CASE StopJoin
    BY <1>19 DEF StopJoin, drainVars, childVars, resultVars, osVars,
         RemoveFile, JoinedOk
  <1>20. CASE Drop BY <1>20 DEF Drop, drainVars, childVars, resultVars, osVars
  <1> QED BY <1>1, <1>2, <1>3, <1>4, <1>5, <1>6, <1>7, <1>8, <1>9, <1>10,
              <1>11, <1>12, <1>13, <1>14, <1>15, <1>16, <1>17, <1>18, <1>19,
              <1>20, SupervisorSteps

\* The mark is set only by steps that lead to a return.
LEMMA NoTermStep == TypeOK /\ Outcomes /\ NoTerm /\ [Next]_vars => NoTerm'
  <1> SUFFICES ASSUME TypeOK, Outcomes, NoTerm, [Next]_vars PROVE NoTerm'
    OBVIOUS
  <1>0. ControlTypeOK BY DEF TypeOK
  <1> USE DEF NoTerm, Outcomes, Ended, HeadingFor, Terminating
  <1>1. CASE UNCHANGED controlVars BY <1>1 DEF controlVars, resultVars
  <1>2. CASE Drain BY <1>2, DrainSteps DEF resultVars
  <1>3. CASE TerminateAndReap BY <1>3, TerminateFrame, <1>0 DEF ControlTypeOK
  <1> USE DEF Terminate, Fail
  <1>4. CASE Spawn BY <1>4 DEF Spawn, drainVars, childVars, resultVars, osVars
  <1>5. CASE Configure
    BY <1>5 DEF Configure, drainVars, childVars, resultVars, osVars
  <1>6. CASE Create
    BY <1>6 DEF Create, drainVars, childVars, resultVars, osVars
  <1>7. CASE StartDrain
    BY <1>7 DEF StartDrain, drainVars, childVars, resultVars, osVars
  <1>8. CASE StartDrainFails
    BY <1>8 DEF StartDrainFails, drainVars, childVars, resultVars, osVars
  <1>9. CASE Return
    BY <1>9 DEF Return, drainVars, childVars, resultVars, osVars
  <1>10. CASE Limits
    BY <1>10 DEF Limits, drainVars, childVars, resultVars, osVars
  <1>11. CASE Join BY <1>11 DEF Join, drainVars, childVars, resultVars, osVars
  <1>12. CASE Remove
    BY <1>12 DEF Remove, drainVars, childVars, resultVars, osVars, RemoveFile
  <1>13. CASE ObserveRunning
    BY <1>13 DEF ObserveRunning, drainVars, childVars, resultVars, osVars
  <1>14. CASE ObserveFails
    BY <1>14 DEF ObserveFails, drainVars, childVars, resultVars, osVars
  <1>15. CASE ObserveFinalizing
    BY <1>15 DEF ObserveFinalizing, drainVars, childVars, resultVars, osVars
  <1>16. CASE Natural
    BY <1>16 DEF Natural, drainVars, childVars, resultVars, osVars
  <1>17. CASE StopCancel
    BY <1>17 DEF StopCancel, drainVars, childVars, resultVars, osVars
  <1>18. CASE StopWait
    BY <1>18 DEF StopWait, drainVars, childVars, resultVars, osVars
  <1>19. CASE StopJoin
    BY <1>19 DEF StopJoin, drainVars, childVars, resultVars, osVars,
         RemoveFile
  <1>20. CASE Drop BY <1>20 DEF Drop, drainVars, childVars, resultVars, osVars
  <1> QED BY <1>1, <1>2, <1>3, <1>4, <1>5, <1>6, <1>7, <1>8, <1>9, <1>10,
              <1>11, <1>12, <1>13, <1>14, <1>15, <1>16, <1>17, <1>18, <1>19,
              <1>20, SupervisorSteps

\* A running drain is held, or given up by a step that marks the failure.
LEMMA AbandonedStep == TypeOK /\ Outcomes /\ Phases /\ Abandoned /\
    [Next]_vars => Abandoned'
  <1> SUFFICES ASSUME TypeOK, Outcomes, Phases, Abandoned, [Next]_vars PROVE
                    Abandoned'
    OBVIOUS
  <1>0. ControlTypeOK BY DEF TypeOK
  <1> USE DEF Abandoned, Outcomes, Phases, Live, Setup, InLoop, Stopping,
              Ended, HeadingFor, Terminating
  <1>1. CASE UNCHANGED controlVars
    BY <1>1 DEF controlVars, resultVars, drainVars, childVars
  <1>2. CASE Drain BY <1>2, DrainSteps DEF resultVars, childVars
  <1>3. CASE TerminateAndReap BY <1>3, TerminateFrame, <1>0 DEF ControlTypeOK
  <1> USE DEF Terminate, Fail
  <1>4. CASE Spawn BY <1>4 DEF Spawn, drainVars, childVars, resultVars, osVars
  <1>5. CASE Configure
    BY <1>5 DEF Configure, drainVars, childVars, resultVars, osVars
  <1>6. CASE Create
    BY <1>6 DEF Create, drainVars, childVars, resultVars, osVars
  <1>7. CASE StartDrain
    BY <1>7 DEF StartDrain, drainVars, childVars, resultVars, osVars
  <1>8. CASE StartDrainFails
    BY <1>8 DEF StartDrainFails, drainVars, childVars, resultVars, osVars
  <1>9. CASE Return
    BY <1>9 DEF Return, drainVars, childVars, resultVars, osVars
  <1>10. CASE Limits
    BY <1>10 DEF Limits, drainVars, childVars, resultVars, osVars
  <1>11. CASE Join
    BY <1>11 DEF Join, drainVars, childVars, resultVars, osVars, DrainFinished
  <1>12. CASE Remove
    BY <1>12 DEF Remove, drainVars, childVars, resultVars, osVars, RemoveFile
  <1>13. CASE ObserveRunning
    BY <1>13 DEF ObserveRunning, drainVars, childVars, resultVars, osVars
  <1>14. CASE ObserveFails
    BY <1>14 DEF ObserveFails, drainVars, childVars, resultVars, osVars
  <1>15. CASE ObserveFinalizing
    BY <1>15 DEF ObserveFinalizing, drainVars, childVars, resultVars, osVars
  <1>16. CASE Natural
    BY <1>16 DEF Natural, drainVars, childVars, resultVars, osVars
  <1>17. CASE StopCancel
    BY <1>17 DEF StopCancel, drainVars, childVars, resultVars, osVars
  <1>18. CASE StopWait
    BY <1>18 DEF StopWait, drainVars, childVars, resultVars, osVars,
         DrainFinished
  <1>19. CASE StopJoin
    BY <1>19 DEF StopJoin, drainVars, childVars, resultVars, osVars,
         RemoveFile, JoinedOk
  <1>20. CASE Drop BY <1>20 DEF Drop, drainVars, childVars, resultVars, osVars
  <1> QED BY <1>1, <1>2, <1>3, <1>4, <1>5, <1>6, <1>7, <1>8, <1>9, <1>10,
              <1>11, <1>12, <1>13, <1>14, <1>15, <1>16, <1>17, <1>18, <1>19,
              <1>20, SupervisorSteps

\* The capture file on disk is this attempt's from its creation to its removal.
LEMMA OwnFileStep == TypeOK /\ Outcomes /\ Phases /\ NoTerm /\ OwnFile /\
    [Next]_vars => OwnFile'
  <1> SUFFICES ASSUME TypeOK, Outcomes, Phases, NoTerm, OwnFile, [Next]_vars
                    PROVE OwnFile'
    OBVIOUS
  <1>0. ControlTypeOK BY DEF TypeOK
  <1>w. written \in Int /\ written >= 0
    BY LimitsAssumption DEF TypeOK, DrainTypeOK
  <1> USE DEF NoCapture, OwnFile, Outcomes, NoTerm, Setup, InLoop, Stopping,
              Ended, HeadingFor, Terminating
  <1>1. CASE UNCHANGED controlVars
    BY <1>1 DEF controlVars, resultVars, drainVars, childVars
  <1>2. CASE Drain BY <1>2, DrainSteps DEF resultVars, childVars
  <1>3. CASE TerminateAndReap BY <1>3, TerminateFrame, <1>0 DEF ControlTypeOK
  <1> USE DEF Terminate, Fail
  <1>4. CASE Spawn BY <1>4 DEF Spawn, drainVars, childVars, resultVars, osVars
  <1>5. CASE Configure
    BY <1>5 DEF Configure, drainVars, childVars, resultVars, osVars
  <1>6. CASE Create
    BY <1>6 DEF Create, drainVars, childVars, resultVars, osVars
  <1>7. CASE StartDrain
    BY <1>7 DEF StartDrain, drainVars, childVars, resultVars, osVars
  <1>8. CASE StartDrainFails
    BY <1>8 DEF StartDrainFails, drainVars, childVars, resultVars, osVars
  <1>9. CASE Return
    BY <1>9 DEF Return, drainVars, childVars, resultVars, osVars
  <1>10. CASE Limits
    BY <1>10 DEF Limits, drainVars, childVars, resultVars, osVars
  <1>11. CASE Join
    BY <1>11, <1>w DEF Join, drainVars, childVars, resultVars, osVars,
         DrainFinished
  <1>12. CASE Remove
    BY <1>12 DEF Remove, drainVars, childVars, resultVars, osVars, RemoveFile
  <1>13. CASE ObserveRunning
    BY <1>13 DEF ObserveRunning, drainVars, childVars, resultVars, osVars
  <1>14. CASE ObserveFails
    BY <1>14 DEF ObserveFails, drainVars, childVars, resultVars, osVars
  <1>15. CASE ObserveFinalizing
    BY <1>15 DEF ObserveFinalizing, drainVars, childVars, resultVars, osVars
  <1>16. CASE Natural
    BY <1>16 DEF Natural, drainVars, childVars, resultVars, osVars, Phases
  <1>17. CASE StopCancel
    BY <1>17 DEF StopCancel, drainVars, childVars, resultVars, osVars
  <1>18. CASE StopWait
    BY <1>18 DEF StopWait, drainVars, childVars, resultVars, osVars
  <1>19. CASE StopJoin
    BY <1>19, <1>w DEF StopJoin, drainVars, childVars, resultVars, osVars,
         RemoveFile, JoinedOk
  <1>20. CASE Drop BY <1>20 DEF Drop, drainVars, childVars, resultVars, osVars
  <1> QED BY <1>1, <1>2, <1>3, <1>4, <1>5, <1>6, <1>7, <1>8, <1>9, <1>10,
              <1>11, <1>12, <1>13, <1>14, <1>15, <1>16, <1>17, <1>18, <1>19,
              <1>20, SupervisorSteps

\* A capture is recorded when its drain has finished, and its file stays.
LEMMA CapturedStep == TypeOK /\ Outcomes /\ Phases /\ NoTerm /\ OwnFile /\
    Captured /\ [Next]_vars => Captured'
  <1> SUFFICES ASSUME TypeOK, Outcomes, Phases, NoTerm, OwnFile, Captured,
                    [Next]_vars PROVE Captured'
    OBVIOUS
  <1>0. ControlTypeOK BY DEF TypeOK
  <1> USE DEF NoCapture, Captured
  <1>1. CASE UNCHANGED controlVars
    BY <1>1 DEF controlVars, resultVars, drainVars, childVars
  <1>2. CASE Drain BY <1>2, DrainSteps DEF resultVars, childVars, Live
  <1>3. CASE TerminateAndReap BY <1>3, TerminateFrame
  <1> USE DEF Terminate, Fail
  <1>4. CASE Spawn BY <1>4 DEF Spawn, drainVars, childVars, resultVars, osVars
  <1>5. CASE Configure
    BY <1>5 DEF Configure, drainVars, childVars, resultVars, osVars
  <1>6. CASE Create
    BY <1>6 DEF Create, drainVars, childVars, resultVars, osVars, Phases,
         Setup
  <1>7. CASE StartDrain
    BY <1>7 DEF StartDrain, drainVars, childVars, resultVars, osVars, Phases,
         Setup
  <1>8. CASE StartDrainFails
    BY <1>8 DEF StartDrainFails, drainVars, childVars, resultVars, osVars,
         Phases, Setup
  <1>9. CASE Return
    BY <1>9 DEF Return, drainVars, childVars, resultVars, osVars
  <1>10. CASE Limits
    BY <1>10 DEF Limits, drainVars, childVars, resultVars, osVars
  <1>11. CASE Join
    BY <1>11 DEF Join, drainVars, childVars, resultVars, osVars, OwnFile,
         InLoop
  <1>12. CASE Remove
    BY <1>12 DEF Remove, drainVars, childVars, resultVars, osVars, RemoveFile,
         Phases, HeadingFor
  <1>13. CASE ObserveRunning
    BY <1>13 DEF ObserveRunning, drainVars, childVars, resultVars, osVars
  <1>14. CASE ObserveFails
    BY <1>14 DEF ObserveFails, drainVars, childVars, resultVars, osVars
  <1>15. CASE ObserveFinalizing
    BY <1>15 DEF ObserveFinalizing, drainVars, childVars, resultVars, osVars
  <1>16. CASE Natural
    BY <1>16 DEF Natural, drainVars, childVars, resultVars, osVars
  <1>17. CASE StopCancel
    BY <1>17 DEF StopCancel, drainVars, childVars, resultVars, osVars
  <1>18. CASE StopWait
    BY <1>18 DEF StopWait, drainVars, childVars, resultVars, osVars
  <1>19. CASE StopJoin
    BY <1>19 DEF StopJoin, drainVars, childVars, resultVars, osVars,
         RemoveFile, JoinedOk, OwnFile, Stopping
  <1>20. CASE Drop BY <1>20 DEF Drop, drainVars, childVars, resultVars, osVars
  <1> QED BY <1>1, <1>2, <1>3, <1>4, <1>5, <1>6, <1>7, <1>8, <1>9, <1>10,
              <1>11, <1>12, <1>13, <1>14, <1>15, <1>16, <1>17, <1>18, <1>19,
              <1>20, SupervisorSteps

\* terminate_and_reap is entered unreaped, and verifies what it reaped.
LEMMA ReapingStep == TypeOK /\ Reaping /\ [Next]_vars => Reaping'
  <1> SUFFICES ASSUME TypeOK, Reaping, [Next]_vars PROVE Reaping'
    OBVIOUS
  <1>0. ControlTypeOK BY DEF TypeOK
  <1> USE DEF Reaping
  <1>1. CASE UNCHANGED controlVars
    BY <1>1, GroupStays DEF controlVars, resultVars, childVars, Spawn
  <1>2. CASE Drain
    BY <1>2, DrainSteps, GroupStays DEF resultVars, Spawn, childVars
  <1>3. CASE TerminateAndReap
    BY <1>3, TerminateFrame, <1>0, TerminateReaps DEF ControlTypeOK,
         Terminating
  <1> USE DEF Terminate, Fail
  <1>4. CASE Spawn BY <1>4 DEF Spawn, drainVars, childVars, resultVars, osVars
  <1>5. CASE Configure
    BY <1>5 DEF Configure, drainVars, childVars, resultVars, osVars
  <1>6. CASE Create
    BY <1>6 DEF Create, drainVars, childVars, resultVars, osVars
  <1>7. CASE StartDrain
    BY <1>7 DEF StartDrain, drainVars, childVars, resultVars, osVars
  <1>8. CASE StartDrainFails
    BY <1>8 DEF StartDrainFails, drainVars, childVars, resultVars, osVars
  <1>9. CASE Return
    BY <1>9 DEF Return, drainVars, childVars, resultVars, osVars
  <1>10. CASE Limits
    BY <1>10 DEF Limits, drainVars, childVars, resultVars, osVars
  <1>11. CASE Join BY <1>11 DEF Join, drainVars, childVars, resultVars, osVars
  <1>12. CASE Remove
    BY <1>12 DEF Remove, drainVars, childVars, resultVars, osVars
  <1>13. CASE ObserveRunning
    BY <1>13 DEF ObserveRunning, drainVars, childVars, resultVars, osVars
  <1>14. CASE ObserveFails
    BY <1>14 DEF ObserveFails, drainVars, childVars, resultVars, osVars
  <1>15. CASE ObserveFinalizing
    BY <1>15 DEF ObserveFinalizing, drainVars, childVars, resultVars, osVars
  <1>16. CASE Natural
    BY <1>16 DEF Natural, drainVars, childVars, resultVars, osVars
  <1>17. CASE StopCancel
    BY <1>17 DEF StopCancel, drainVars, childVars, resultVars, osVars
  <1>18. CASE StopWait
    BY <1>18 DEF StopWait, drainVars, childVars, resultVars, osVars
  <1>19. CASE StopJoin
    BY <1>19 DEF StopJoin, drainVars, childVars, resultVars, osVars
  <1>20. CASE Drop BY <1>20 DEF Drop, drainVars, childVars, resultVars, osVars
  <1> QED BY <1>1, <1>2, <1>3, <1>4, <1>5, <1>6, <1>7, <1>8, <1>9, <1>10,
              <1>11, <1>12, <1>13, <1>14, <1>15, <1>16, <1>17, <1>18, <1>19,
              <1>20, SupervisorSteps

\* Leader and group are gone once a cleanup succeeded, and stay so.
LEMMA GroupStep == TypeOK /\ Outcomes /\ Reaping /\ Group /\ [Next]_vars =>
    Group'
  <1> SUFFICES ASSUME TypeOK, Outcomes, Reaping, Group, [Next]_vars PROVE
                    Group'
    OBVIOUS
  <1>0. ControlTypeOK BY DEF TypeOK
  <1> USE DEF Group, Gone, Outcomes, Ended, HeadingFor, Terminating
  <1>1. CASE UNCHANGED controlVars
    BY <1>1, GroupStays DEF controlVars, resultVars, Spawn
  <1>2. CASE Drain BY <1>2, DrainSteps, GroupStays DEF resultVars, Spawn
  <1>3. CASE TerminateAndReap
    BY <1>3, TerminateFrame, <1>0, TerminateReaps, GroupStays DEF
         ControlTypeOK, Reaping, Spawn
  <1> USE DEF Terminate, Fail
  <1>4. CASE Spawn BY <1>4 DEF Spawn, drainVars, childVars, resultVars, osVars
  <1>5. CASE Configure
    BY <1>5, GroupStays DEF Configure, drainVars, childVars, resultVars,
         osVars, Spawn
  <1>6. CASE Create
    BY <1>6, GroupStays DEF Create, drainVars, childVars, resultVars, osVars,
         Spawn
  <1>7. CASE StartDrain
    BY <1>7, GroupStays DEF StartDrain, drainVars, childVars, resultVars,
         osVars, Spawn
  <1>8. CASE StartDrainFails
    BY <1>8, GroupStays DEF StartDrainFails, drainVars, childVars, resultVars,
         osVars, Spawn
  <1>9. CASE Return
    BY <1>9, GroupStays DEF Return, drainVars, childVars, resultVars, osVars,
         Spawn
  <1>10. CASE Limits
    BY <1>10, GroupStays DEF Limits, drainVars, childVars, resultVars, osVars,
         Spawn
  <1>11. CASE Join
    BY <1>11, GroupStays DEF Join, drainVars, childVars, resultVars, osVars,
         Spawn
  <1>12. CASE Remove
    BY <1>12, GroupStays DEF Remove, drainVars, childVars, resultVars, osVars,
         Spawn
  <1>13. CASE ObserveRunning
    BY <1>13, GroupStays DEF ObserveRunning, drainVars, childVars, resultVars,
         osVars, Spawn
  <1>14. CASE ObserveFails
    BY <1>14, GroupStays DEF ObserveFails, drainVars, childVars, resultVars,
         osVars, Spawn
  <1>15. CASE ObserveFinalizing
    BY <1>15, GroupStays DEF ObserveFinalizing, drainVars, childVars,
         resultVars, osVars, Spawn
  <1>16. CASE Natural
    BY <1>16, GroupStays DEF Natural, drainVars, childVars, resultVars,
         osVars, Spawn
  <1>17. CASE StopCancel
    BY <1>17, GroupStays DEF StopCancel, drainVars, childVars, resultVars,
         osVars, Spawn
  <1>18. CASE StopWait
    BY <1>18, GroupStays DEF StopWait, drainVars, childVars, resultVars,
         osVars, Spawn
  <1>19. CASE StopJoin
    BY <1>19, GroupStays DEF StopJoin, drainVars, childVars, resultVars,
         osVars, Spawn
  <1>20. CASE Drop
    BY <1>20, GroupStays DEF Drop, drainVars, childVars, resultVars, osVars,
         Spawn
  <1> QED BY <1>1, <1>2, <1>3, <1>4, <1>5, <1>6, <1>7, <1>8, <1>9, <1>10,
              <1>11, <1>12, <1>13, <1>14, <1>15, <1>16, <1>17, <1>18, <1>19,
              <1>20, SupervisorSteps


\* Only reads and writes of the pipe, and who holds it, matter to Complete.
LEMMA CompleteStep == TypeOK /\ Phases /\ Complete /\ [Next]_vars => Complete'
  <1> SUFFICES ASSUME TypeOK, Phases, Complete, [Next]_vars PROVE Complete'
    OBVIOUS
  <1> USE DEF Complete
  <1>0. /\ written \in Int /\ produced \in Int
        /\ writers \subseteq {"leader", "member", "escaped"}
        /\ drain \in {"none", "check", "read", "ok", "err"}
    BY LimitsAssumption DEF TypeOK, DrainTypeOK, OSTypeOK
  <1>c. Complete /\ (pc = "spawn" => drain = "none")
    BY DEF Phases, Setup
  <1>1. CASE Processes
    <2> USE <1>0, <1>1, <1>c DEF drainVars, processVars
    <2>1. CASE LeaderExit BY <2>1 DEF Processes, LeaderExit
    <2>2. CASE Fork BY <2>2 DEF Processes, Fork
    <2>3. CASE MemberExit BY <2>3 DEF Processes, MemberExit
    <2>4. CASE MemberReaped BY <2>4 DEF Processes, MemberReaped
    <2>5. CASE Escape BY <2>5 DEF Processes, Escape
    <2>6. CASE CloseStdout BY <2>6 DEF Processes, CloseStdout
    <2>7. CASE Write BY <2>7 DEF Processes, Write
    <2>8. CASE PidReuse BY <2>8 DEF Processes, PidReuse
    <2> QED BY <2>1, <2>2, <2>3, <2>4, <2>5, <2>6, <2>7, <2>8 DEF Processes
  <1>2. CASE Drain
    <2> USE <1>0, <1>2, <1>c DEF Drain, osVars, DrainRead
    <2>1. CASE DrainCheck BY <2>1 DEF DrainCheck
    <2>2. CASE DrainRead /\ DrainChunk BY <2>2 DEF DrainChunk, Pipe
    <2>3. CASE DrainRead /\ DrainEmpty BY <2>3 DEF DrainEmpty, Pipe
    <2>4. CASE DrainRead /\ DrainReadFails BY <2>4 DEF DrainReadFails
    <2> QED BY <2>1, <2>2, <2>3, <2>4
  <1>3. CASE Spawn BY <1>0, <1>3, <1>c DEF Spawn, drainVars
  <1>4. CASE TerminateAndReap BY <1>4, <1>c, TerminateFrame
  <1>5. CASE UNCHANGED vars BY <1>5, <1>c DEF vars
  <1>6. CASE Tick \/ DeadlineExpires
    BY <1>6, <1>c DEF Tick, DeadlineExpires, osVars, drainVars
  <1>7. CASE StopCancel \/ StartDrain
    BY <1>7, <1>c DEF StopCancel, StartDrain, osVars
  <1>8. CASE Supervisor /\ ~Spawn /\ ~TerminateAndReap /\ ~StopCancel
                       /\ ~StartDrain
    <2>1. UNCHANGED <<drain, cancelled, written, produced, writers>>
      BY <1>8 DEF Supervisor, Configure, Create, StartDrainFails, Return,
                  Limits, Join, Remove, ObserveRunning, ObserveFails,
                  ObserveFinalizing, Natural, StopWait, StopJoin, Drop,
                  osVars, drainVars
    <2> QED BY <2>1, <1>c
  <1> QED
    BY <1>1, <1>2, <1>3, <1>4, <1>5, <1>6, <1>7, <1>8 DEF Next

\* Only a failure's capture was cancelled; only a finished one succeeds.
LEMMA CancelStep == TypeOK /\ Outcomes /\ Phases /\ Captured /\ Reaping /\
    CancelledFails /\ [Next]_vars => CancelledFails'
  <1> SUFFICES ASSUME TypeOK, Outcomes, Phases, Captured, Reaping,
                    CancelledFails, [Next]_vars PROVE CancelledFails'
    OBVIOUS
  <1> USE DEF CancelledFails
  <1>1. CASE UNCHANGED controlVars
    BY <1>1 DEF controlVars, resultVars, drainVars, childVars
  <1>2. CASE Drain BY <1>2, DrainSteps DEF resultVars, Live, childVars
  <1>3. CASE TerminateAndReap
    BY <1>3, TerminateFrame, TerminateReaps DEF Terminating, Reaping
  <1> USE DEF Terminate, Fail
  <1>4. CASE Spawn BY <1>4 DEF Spawn, drainVars, childVars, resultVars, osVars
  <1>5. CASE Configure
    BY <1>5 DEF Configure, drainVars, childVars, resultVars, osVars
  <1>6. CASE Create
    BY <1>6 DEF Create, drainVars, childVars, resultVars, osVars
  <1>7. CASE StartDrain
    BY <1>7 DEF StartDrain, drainVars, childVars, resultVars, osVars,
         Outcomes, Ended, HeadingFor, Terminating
  <1>8. CASE StartDrainFails
    BY <1>8 DEF StartDrainFails, drainVars, childVars, resultVars, osVars
  <1>9. CASE Return
    BY <1>9 DEF Return, drainVars, childVars, resultVars, osVars
  <1>10. CASE Limits
    BY <1>10 DEF Limits, drainVars, childVars, resultVars, osVars
  <1>11. CASE Join BY <1>11 DEF Join, drainVars, childVars, resultVars, osVars
  <1>12. CASE Remove
    BY <1>12 DEF Remove, drainVars, childVars, resultVars, osVars, RemoveFile
  <1>13. CASE ObserveRunning
    BY <1>13 DEF ObserveRunning, drainVars, childVars, resultVars, osVars
  <1>14. CASE ObserveFails
    BY <1>14 DEF ObserveFails, drainVars, childVars, resultVars, osVars
  <1>15. CASE ObserveFinalizing
    BY <1>15 DEF ObserveFinalizing, drainVars, childVars, resultVars, osVars
  <1>16. CASE Natural
    BY <1>16 DEF Natural, drainVars, childVars, resultVars, osVars, Captured,
         Phases, Outcomes, Ended, HeadingFor, Terminating
  <1>17. CASE StopCancel
    BY <1>17 DEF StopCancel, drainVars, childVars, resultVars, osVars
  <1>18. CASE StopWait
    BY <1>18 DEF StopWait, drainVars, childVars, resultVars, osVars
  <1>19. CASE StopJoin
    BY <1>19 DEF StopJoin, drainVars, childVars, resultVars, osVars,
         RemoveFile
  <1>20. CASE Drop BY <1>20 DEF Drop, drainVars, childVars, resultVars, osVars
  <1> QED BY <1>1, <1>2, <1>3, <1>4, <1>5, <1>6, <1>7, <1>8, <1>9, <1>10,
              <1>11, <1>12, <1>13, <1>14, <1>15, <1>16, <1>17, <1>18, <1>19,
              <1>20, SupervisorSteps

\* All of it together.
AttemptInv ==
    /\ TypeOK /\ Outcomes /\ Phases /\ NoTerm /\ Abandoned /\ OwnFile
    /\ Captured /\ Reaping /\ Group /\ Complete /\ CancelledFails

LEMMA AttemptInit == Init => AttemptInv
  <1> SUFFICES ASSUME Init PROVE AttemptInv
    OBVIOUS
  <1>1. TypeOK BY TypeInit
  <1>2. /\ pc = "spawn" /\ outcome = "none" /\ drain = "none" /\ ~handle
        /\ capture = NoCapture /\ ~terminal /\ file # "own"
        /\ status = "none" /\ ~reapAttempted /\ leader = "absent"
        /\ member = "none" /\ written = 0 /\ produced = 0 /\ ~cancelled
    BY DEF Init
  <1> USE <1>2 DEF HeadingFor, Terminating
  <1>3. Outcomes BY DEF Outcomes, Ended
  <1>4. Phases BY DEF Phases, Setup, InLoop, Stopping, Ended
  <1>5. NoTerm /\ Abandoned BY DEF NoTerm, Abandoned, Live
  <1>6. OwnFile BY DEF OwnFile, InLoop, Stopping
  <1>7. Captured BY DEF Captured
  <1>8. Reaping BY DEF Reaping
  <1>9. Group BY DEF Group
  <1>10. Complete /\ CancelledFails BY DEF Complete, CancelledFails
  <1> QED
    BY <1>1, <1>3, <1>4, <1>5, <1>6, <1>7, <1>8, <1>9, <1>10 DEF AttemptInv

LEMMA AttemptStep == AttemptInv /\ [Next]_vars => AttemptInv'
  BY TypeStep, OutcomesStep, PhasesStep, NoTermStep, AbandonedStep,
     OwnFileStep, CapturedStep, ReapingStep, GroupStep, CompleteStep,
     CancelStep
     DEF AttemptInv

LEMMA AttemptInvariant == Spec => []AttemptInv
  BY AttemptInit, AttemptStep, PTL DEF Spec

\* A recorded capture is this attempt's file, finished and of exactly the
\* recorded length (join_drain, StoppedCapture).
THEOREM RetainedIsFinal == Spec => []RetainedCaptureIsFinal
  <1>1. AttemptInv => RetainedCaptureIsFinal
    BY LimitsAssumption
       DEF AttemptInv, Captured, RetainedCaptureIsFinal, TypeOK, DrainTypeOK
  <1> QED BY <1>1, AttemptInvariant, PTL

\* A success holds every byte the processes wrote, of a child that exited with
\* status 0, from a drain that was not cut off (classify_running_observation,
\* finalize_natural_analyzer_capture).
THEOREM SuccessHoldsAll == Spec => []SuccessIsComplete
  <1>1. ASSUME AttemptInv PROVE SuccessIsComplete
    <2> SUFFICES ASSUME outcome = "ok"
                 PROVE  /\ status = "ok" /\ capture = produced
                        /\ writers = {} /\ ~cancelled
      BY DEF SuccessIsComplete
    <2>1. status = "ok" /\ drain = "ok"
      BY <1>1 DEF AttemptInv, CancelledFails
    <2>2. ~cancelled
      <3>1. pc \notin {"sWait", "sJoin"}
        BY <1>1 DEF AttemptInv, Outcomes, Ended, HeadingFor, Terminating
      <3> QED BY <1>1, <3>1 DEF AttemptInv, CancelledFails
    <2>3. capture = written
      BY <1>1 DEF AttemptInv, OwnFile, Captured
    <2> QED BY <1>1, <2>1, <2>2, <2>3 DEF AttemptInv, Complete
  <1> QED BY <1>1, AttemptInvariant, PTL

\* terminate_and_reap never runs on a child whose reap was attempted, and Drop
\* never finds a drain: what the model leaves out there is dead code.
THEOREM OmittedIsDead == Spec => []OmittedUnreachable
  <1>1. ASSUME AttemptInv PROVE OmittedUnreachable
    <2>1. EntersUnreaped BY <1>1 DEF AttemptInv, Reaping, EntersUnreaped
    <2>2. DropHoldsNoDrain
      BY <1>1 DEF AttemptInv, Outcomes, Phases, DropHoldsNoDrain
    <2> QED BY <2>1, <2>2 DEF OmittedUnreachable
  <1> QED BY <1>1, AttemptInvariant, PTL

-----------------------------------------------------------------------------
(* The attempt implements its contract.                                    *)

\* An outcome that is not terminal comes without residue.
CleanEnd == outcome \in {"ok", "failed"} =>
                ~Residue /\ (outcome = "ok" => capture # NoCapture)

LEMMA NoResidue == AttemptInv => CleanEnd
  <1> SUFFICES ASSUME AttemptInv, outcome \in {"ok", "failed"}
               PROVE  ~Residue /\ (outcome = "ok" => capture # NoCapture)
    BY DEF CleanEnd
  <1>1. Ended BY DEF AttemptInv, Outcomes
  <1>2. leader \in {"absent", "reaped"} /\ member = "none"
    BY DEF AttemptInv, Group, Gone
  <1>3. drain \notin {"check", "read"}
    BY <1>1 DEF AttemptInv, Abandoned, Phases, Live, Ended, HeadingFor,
                Terminating
  <1>4. (file = "own" => capture # NoCapture)
        /\ (outcome = "ok" => capture # NoCapture)
    BY DEF AttemptInv, OwnFile
  <1> QED BY <1>2, <1>3, <1>4 DEF Residue

\* A failure not marked terminal left no process of its group, no drain and no
\* partial file that its record denies (StoppedCapture, FailedRegion).
THEOREM NothingLeftBehind ==
    Spec => [](CleanUnlessTerminal /\ NullCaptureLeavesNoPartial)
  <1>1. ASSUME AttemptInv PROVE CleanUnlessTerminal /\ NullCaptureLeavesNoPartial
    <2>1. leader \in {"absent", "running", "zombie", "reaped"}
      BY <1>1 DEF AttemptInv, TypeOK, OSTypeOK
    <2>2. CleanEnd BY <1>1, NoResidue
    <2> QED
      BY <2>1, <2>2 DEF CleanEnd, Residue, CleanUnlessTerminal,
                        NullCaptureLeavesNoPartial
  <1> QED BY <1>1, AttemptInvariant, PTL

\* An outcome is final, and so is the capture that came with it.
LEMMA OutcomeIsFinal ==
    ASSUME AttemptInv, [Next]_vars, outcome # "none"
    PROVE  outcome' = outcome /\ capture' = capture
  <1>1. Ended BY DEF AttemptInv, Outcomes
  <1> USE <1>1 DEF Ended, HeadingFor, Terminating
  <1>2. CASE UNCHANGED controlVars BY <1>2 DEF controlVars, resultVars
  <1>3. CASE Drain BY <1>3, DrainSteps DEF AttemptInv, resultVars
  <1>4. CASE TerminateAndReap BY <1>4, TerminateFrame
  <1>5. CASE Drop BY <1>5 DEF Drop
  <1>6. CASE Supervisor /\ ~Drop /\ ~TerminateAndReap
    BY <1>6 DEF Supervisor, Spawn, Configure, Create, StartDrain,
                StartDrainFails, Return, Limits, Join, Remove, ObserveRunning,
                ObserveFails, ObserveFinalizing, Natural, StopCancel,
                StopWait, StopJoin
  <1> QED BY <1>2, <1>3, <1>4, <1>5, <1>6, SupervisorSteps
             DEF Supervisor, AttemptInv

\* Every behaviour of an attempt is one of AttemptContract: it ends once, a
\* success with a capture, and only a terminal outcome leaves residue.
THEOREM ImplementsContract == Spec => MeetsContract
  <1>1. Init => Contract!Init
    <2> SUFFICES ASSUME Init PROVE Contract!Init
      OBVIOUS
    <2>1. /\ outcome = "none" /\ capture = NoCapture /\ leader = "absent"
          /\ member = "none" /\ drain = "none" /\ file # "own"
      BY DEF Init
    <2>2. ~Residue BY <2>1 DEF Residue
    <2> QED BY <2>1, <2>2 DEF Contract!Init
  <1>2. ASSUME AttemptInv, CleanEnd, CleanEnd', [Next]_vars
        PROVE  [Contract!Next]_(Contract!contractVars)
    <2>1. outcome' \in {"none", "ok", "failed", "terminal"}
      BY <1>2, TypeStep DEF AttemptInv, TypeOK, ControlTypeOK
    <2>2. /\ (capture # NoCapture)' \in BOOLEAN /\ Residue' \in BOOLEAN
          /\ Residue \in BOOLEAN
      BY DEF Residue
    <2>3. CASE outcome = "none" /\ outcome' = "none"
      BY <2>2, <2>3 DEF Contract!Next, Contract!Work
    <2>4. CASE outcome = "none" /\ outcome' # "none"
      <3>1. outcome' \in {"ok", "failed"} =>
               ~Residue' /\ (outcome' = "ok" => (capture # NoCapture)')
        BY <1>2 DEF CleanEnd
      <3>2. [outcome |-> outcome', captured |-> (capture # NoCapture)']
               \in Contract!AttemptResults
        BY <2>1, <2>2, <2>4, <3>1 DEF Contract!AttemptResults
      <3> QED
        BY <2>1, <2>2, <2>4, <3>1, <3>2 DEF Contract!Next, Contract!Finish
    <2>5. CASE outcome # "none"
      <3>1. outcome' = outcome /\ capture' = capture
        BY <1>2, <2>5, OutcomeIsFinal
      <3>2. CASE outcome = "terminal"
        BY <2>2, <3>1, <3>2 DEF Contract!Next, Contract!Settle, NoCapture
      <3>3. CASE outcome # "terminal"
        <4>1. outcome \in {"ok", "failed"} /\ outcome' \in {"ok", "failed"}
          BY <2>1, <2>5, <3>1, <3>3
        <4>2. ~Residue BY <1>2, <4>1 DEF CleanEnd
        <4>3. ~Residue' BY <1>2, <4>1 DEF CleanEnd
        <4> QED
          BY <2>2, <3>1, <4>2, <4>3 DEF Contract!contractVars, NoCapture
      <3> QED BY <3>2, <3>3
    <2> QED BY <2>3, <2>4, <2>5
  <1> QED
    BY <1>1, <1>2, NoResidue, AttemptInvariant, PTL
       DEF Spec, MeetsContract, Contract!Spec
=============================================================================
