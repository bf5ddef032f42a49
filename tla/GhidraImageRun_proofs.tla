------------------------ MODULE GhidraImageRun_proofs ------------------------
(***************************************************************************)
(* Proofs about GhidraImageRun for every number of lines, faults and every *)
(* log ceiling: what is certified is of one process of this run and stays  *)
(* as it was certified, an image that did not become current leaves no     *)
(* complete export, and no process is left that was not dealt with.        *)
(***************************************************************************)
EXTENDS GhidraImageRun, TLAPS

-----------------------------------------------------------------------------
(* The inductive invariant.                                                *)

\* What the supervisor does while it attends to the process cur it spawned.
Attending == {"watch", "collect", "await", "kill", "killpg", "reap"}

\* The owned names the last invalidate() has tried.
Swept == {ScrubOrder[i] : i \in 1..scrubbed}

\* Where the supervisor is, what the last scrub was for, and whose run it is.
ControlInv ==
    /\ cur = "t" => mode = "t"
    /\ cur = "d" /\ mode = "t" => fellBack
    /\ fellBack => mode = "t" /\ (cur = "t" => pc = "scrub" /\ after = "retry")
    /\ after = "gate" => ~fellBack
    /\ after = "retry" => fellBack /\ (pc = "scrub" => cur = "t")
    /\ pc = "gate" => after = "gate"
    /\ pc = "watch" \/ reason = "budget" => cur = "t"
    /\ reason = "budget" => pc \in {"kill", "killpg", "reap"}
    /\ pc # "scrub" => scrubbed = 4
    /\ pc \notin {"scrub", "done"} => after # "drop"
    /\ pc \in Attending \cup {"gate", "spawn", "validate"} => ~scrubErr
    /\ outcome = "analyzed" =>
         /\ pc \in {"thumb", "terminal", "startup", "done"}
         /\ ~scrubErr /\ after # "drop"
    /\ current => outcome = "analyzed" /\ pc \in {"startup", "done"}
    /\ pc = "startup" => current
    /\ pc = "done" => current \/ after = "drop" \/ scrubErr

\* The launcher is reaped and the JVM, if it lives, was sent SIGKILL.
Settled(p) == /\ launcher[p] \in {"absent", "reaped"}
              /\ Alive(p) => jsig[p] # "no"

\* Which processes exist, and what state their kill is in.
ProcInv ==
    /\ \A p \in Procs :
         /\ launcher[p] = "absent" <=> jvm[p] = Absent
         /\ jvm[p] = Absent => jsig[p] = "no" /\ exit[p] = "none"
    /\ mode = "d" => jvm["t"] = Absent
    /\ cur = "t" => jvm["d"] = Absent
    /\ pc = "gate" \/ (pc = "scrub" /\ after = "gate") \/ pc = "spawn" =>
         jvm[cur] = Absent
    /\ \A p \in Procs : p # cur \/ pc \notin Attending => Settled(p)
    /\ pc \in {"watch", "collect", "await", "kill"} =>
         /\ jsig[cur] = "no" /\ launcher[cur] \in {"running", "zombie"}
         /\ launcher[cur] = "zombie" => jvm[cur] = Dead
    /\ pc \in Attending => launcher[cur] \notin {"absent", "reaped"}
    /\ pc = "reap" /\ Alive(cur) => jsig[cur] # "no"
    /\ pc = "validate" \/ outcome = "analyzed" => jvm[cur] = Dead

\* A JVM that has the project open holds its lock.
LockInv == \A p \in Procs : jvm[p] \in Analyzing..(Leaving - 1) => lock = p

\* p will move no file any more, unless it has yet to open the project.
Quiet(p) == jvm[p] \in Analyzing..(Leaving - 1) => jsig[p] = "spent"

\* The processes that were over when the last invalidate() began.
Before(p) == CASE after = "gate"  -> p # mode
               [] after = "retry" -> p = "t"
               [] OTHER           -> TRUE

\* A process over before the scrub leaves one file at most, by its last call.
LeavesOne(p) ==
    /\ \A f \in Swept : tree[f] = p => jsig[p] = "spent"
    /\ \A f, g \in Swept : tree[f] = p /\ tree[g] = p => f = g

\* p's files are the ones before the next it is to move.
Prefix(p) ==
    /\ jvm[p] \in (Analyzing + 1)..(Leaving - 1) =>
         \A i \in 1..4 : tree[PublishOrder[i]] = p <=> i < jvm[p] - Analyzing
    /\ \A i, j \in 1..4 :
         i < j /\ tree[PublishOrder[j]] = p => tree[PublishOrder[i]] = p

\* Only a JVM that staged its export has files.
OwnersInv ==
    \A p \in Procs, f \in Owned : tree[f] = p => jvm[p] \notin Absent..Analyzing

\* Once the datamark run has moved a file the tighten run moves none.
QuietInv == (\E f \in Owned : tree[f] = "d") => Quiet("t")

\* The scrub: no file of an earlier run, one at most of each earlier process.
ScrubInv == ~scrubErr => /\ \A f \in Swept : tree[f] # "old"
                         /\ \A p \in Procs : Before(p) => LeavesOne(p)

PrefixInv == pc # "scrub" /\ after # "drop" => Prefix(cur)

AcceptedInv == outcome = "analyzed" => /\ \A f \in Trio : tree[f] = cur
                                       /\ tree["marker"] \in Procs

TreeInv == OwnersInv /\ QuietInv /\ ScrubInv /\ PrefixInv /\ AcceptedInv

SidecarInv == /\ thumbOk => thumb = "new"
              /\ current => ThumbExpected

ChanInv == repairs + Len(chan) <= printed

IInv == /\ TypeOK /\ ChanInv /\ ControlInv /\ ProcInv /\ LockInv /\ TreeInv
        /\ SidecarInv

-----------------------------------------------------------------------------
(* The owned names, as the proofs use them.                                *)

LEMMA OwnedNames ==
    /\ Len(ScrubOrder) = 4
    /\ Owned = {"functions", "disasm", "decompiled", "marker"}
    /\ Trio = {"functions", "disasm", "decompiled"}
    /\ PublishOrder[1] = "functions" /\ PublishOrder[2] = "disasm"
    /\ PublishOrder[3] = "decompiled" /\ PublishOrder[4] = "marker"
    /\ ScrubOrder[1] = "marker" /\ ScrubOrder[2] = "functions"
    /\ ScrubOrder[3] = "disasm" /\ ScrubOrder[4] = "decompiled"
  <1>1. DOMAIN PublishOrder = 1..4 BY DEF PublishOrder
  <1>2. 1..4 = {1, 2, 3, 4} OBVIOUS
  <1>3. Owned = {PublishOrder[1], PublishOrder[2], PublishOrder[3], PublishOrder[4]}
    BY <1>1, <1>2 DEF Owned
  <1>4. Owned = {"functions", "disasm", "decompiled", "marker"}
    BY <1>3 DEF PublishOrder
  <1> QED BY <1>4 DEF PublishOrder, ScrubOrder, Trio

\* The names tried are among the owned ones, and all of them at the end.
LEMMA SweptNames ==
    /\ scrubbed \in 0..4 => Swept \subseteq Owned
    /\ scrubbed = 0 => Swept = {}
    /\ scrubbed = 4 => Swept = Owned
  <1>1. scrubbed \in 0..4 => Swept \subseteq Owned
    BY OwnedNames DEF Swept
  <1>2. scrubbed = 0 => Swept = {} BY DEF Swept
  <1>3. ASSUME scrubbed = 4 PROVE Swept = Owned
    <2>1. 1..4 = {1, 2, 3, 4} OBVIOUS
    <2>2. Swept = {ScrubOrder[1], ScrubOrder[2], ScrubOrder[3], ScrubOrder[4]}
      BY <1>3, <2>1 DEF Swept
    <2> QED BY <2>2, OwnedNames
  <1> QED BY <1>1, <1>2, <1>3

-----------------------------------------------------------------------------
(* Types.                                                                  *)

FileType ==
    /\ tree \in [Owned -> Procs \cup {"none", "old"}]
    /\ thumb \in {"none", "old", "new"} /\ startup \in {"none", "old", "new"}

ProcType ==
    /\ lock \in Procs \cup {"free"}
    /\ jvm \in [Procs -> Absent..Dead]
    /\ jsig \in [Procs -> {"no", "sent", "spent"}]
    /\ launcher \in [Procs -> {"absent", "running", "doomed", "zombie", "reaped"}]
    /\ exit \in [Procs -> {"none", "ok", "bad"}]

ChanType ==
    /\ chan \in Seq(Lines) /\ printed \in 0..MaxLines /\ repairs \in 0..MaxLines
    /\ repairs + Len(chan) <= printed

FlagType ==
    /\ over \in BOOLEAN /\ dense \in BOOLEAN /\ scrubErr \in BOOLEAN
    /\ fellBack \in BOOLEAN /\ thumbOk \in BOOLEAN /\ current \in BOOLEAN

SuperType ==
    /\ mode \in Procs /\ cur \in Procs
    /\ pc \in {"scrub", "gate", "spawn", "watch", "collect", "await", "kill",
               "killpg", "reap", "validate", "thumb", "terminal", "startup",
               "done"}
    /\ reason \in {"none", "budget", "io"}
    /\ scrubbed \in 0..4 /\ faults \in 0..MaxFaults
    /\ after \in {"gate", "retry", "drop"}
    /\ outcome \in {"none", "failed", "skipped", "invalid", "analyzed",
                    "aborted"}

LEMMA TypeParts ==
    TypeOK /\ ChanInv <=> FileType /\ ProcType /\ ChanType /\ FlagType /\ SuperType
  <1>1. chan \in Seq(Lines) => Len(chan) \in Nat OBVIOUS
  <1>2. printed \in 0..MaxLines => printed \in Nat /\ printed <= MaxLines
    BY ConstantsAssumption
  <1>3. repairs \in 0..MaxLines => repairs \in Nat BY ConstantsAssumption
  <1>4. FileType /\ ProcType /\ ChanType /\ FlagType /\ SuperType => TypeOK /\ ChanInv
    <2> SUFFICES ASSUME FileType, ProcType, ChanType, FlagType, SuperType
                 PROVE  TypeOK /\ ChanInv
      OBVIOUS
    <2>1. Len(chan) <= MaxLines
      BY <1>1, <1>2, <1>3, ConstantsAssumption DEF ChanType
    <2> QED
      BY <2>1, Zenon
      DEF TypeOK, ChanInv, FileType, ProcType, ChanType, FlagType, SuperType
  <1>5. TypeOK /\ ChanInv => FileType /\ ProcType /\ ChanType /\ FlagType /\ SuperType
    BY Zenon
    DEF TypeOK, ChanInv, FileType, ProcType, ChanType, FlagType, SuperType
  <1> QED BY <1>4, <1>5

\* Who writes the files, and what they write.
LEMMA FileFrame ==
    [Next]_vars =>
        \/ UNCHANGED tree
        \/ (\E p \in Procs : MoveNext(p)) /\ UNCHANGED <<thumb, startup>>
        \/ ScrubOne
  BY DEF Next, ProcessStep, Clock, Supervisor, vars, diskVars, OpenProject,
         PrintLine, StageExport, ScriptFails, JvmDies, LauncherExits, ScrubDone,
         OpaqueGate, Spawn, Watch, Collect, Await, KillChild, KillGroup, Reap,
         ValidateCurrent, AnalyzeThumb, Terminal, PublishStartup

LEMMA FileTypeStep == FileType /\ ProcType /\ SuperType /\ [Next]_vars => FileType'
  <1> SUFFICES ASSUME FileType, ProcType, SuperType, [Next]_vars PROVE FileType'
    OBVIOUS
  <1>1. tree' \in [Owned -> Procs \cup {"none", "old"}]
    <2>1. CASE UNCHANGED tree BY <2>1 DEF FileType
    <2>2. ASSUME NEW p \in Procs, MoveNext(p)
          PROVE  tree' \in [Owned -> Procs \cup {"none", "old"}]
      <3>1. tree' = [tree EXCEPT ![PublishOrder[jvm[p] - Analyzing]] = p]
        BY <2>2 DEF MoveNext
      <3> QED BY <3>1 DEF FileType
    <2>3. CASE ScrubOne
      <3>1. \/ UNCHANGED tree
            \/ tree' = [tree EXCEPT ![ScrubOrder[scrubbed + 1]] = "none"]
        BY <2>3 DEF ScrubOne
      <3> QED BY <3>1 DEF FileType
    <2> QED BY <2>1, <2>2, <2>3, FileFrame
  <1>2. thumb' \in {"none", "old", "new"} /\ startup' \in {"none", "old", "new"}
    BY DEF FileType, Next, ProcessStep, Clock, Supervisor, vars, diskVars,
         ScrubOne, ScrubDone, OpaqueGate, Spawn, Watch, Collect, Await,
         KillChild, KillGroup, Reap, ValidateCurrent, AnalyzeThumb, Terminal,
         PublishStartup
  <1> QED BY <1>1, <1>2 DEF FileType

LEMMA ProcTypeStep == ProcType /\ SuperType /\ [Next]_vars => ProcType'
  <1> SUFFICES ASSUME ProcType, SuperType, [Next]_vars PROVE ProcType'
    OBVIOUS
  <1> USE DEF ProcType, Absent, Booting, Analyzing, Leaving, Dead
  <1>1. ASSUME NEW p \in Procs, OpenProject(p) PROVE ProcType'
    BY <1>1 DEF OpenProject, Acts, SetExit
  <1>2. ASSUME NEW p \in Procs, PrintLine(p) PROVE ProcType'
    BY <1>2 DEF PrintLine
  <1>3. ASSUME NEW p \in Procs, StageExport(p) PROVE ProcType'
    BY <1>3 DEF StageExport, Acts
  <1>4. ASSUME NEW p \in Procs, MoveNext(p) PROVE ProcType'
    BY <1>4 DEF MoveNext, Acts, SetExit
  <1>5. ASSUME NEW p \in Procs, ScriptFails(p) PROVE ProcType'
    BY <1>5 DEF ScriptFails, Acts, SetExit
  <1>6. ASSUME NEW p \in Procs, JvmDies(p) PROVE ProcType'
    BY <1>6 DEF JvmDies
  <1>7. ASSUME NEW p \in Procs, LauncherExits(p) PROVE ProcType'
    BY <1>7 DEF LauncherExits
  <1>8. CASE Spawn BY <1>8 DEF Spawn, SuperType
  <1>9. CASE Await BY <1>9 DEF Await
  <1>10. CASE KillChild BY <1>10 DEF KillChild, Doom, SuperType
  <1>11. CASE KillGroup BY <1>11 DEF KillGroup, Doom, SuperType
  <1>12. CASE Reap BY <1>12 DEF Reap
  <1>13. CASE UNCHANGED <<lock, jvm, jsig, launcher, exit>> BY <1>13
  <1>14. \/ \E p \in Procs : \/ OpenProject(p) \/ PrintLine(p) \/ StageExport(p)
                             \/ MoveNext(p) \/ ScriptFails(p) \/ JvmDies(p)
                             \/ LauncherExits(p)
         \/ Spawn \/ Await \/ KillChild \/ KillGroup \/ Reap
         \/ UNCHANGED <<lock, jvm, jsig, launcher, exit>>
    BY DEF Next, ProcessStep, Clock, Supervisor, vars, procVars, ScrubOne,
           ScrubDone, OpaqueGate, Watch, Collect, ValidateCurrent, AnalyzeThumb,
           Terminal, PublishStartup
  <1> QED
    BY <1>1, <1>2, <1>3, <1>4, <1>5, <1>6, <1>7, <1>8, <1>9, <1>10, <1>11,
       <1>12, <1>13, <1>14, Zenon

LEMMA ChanTypeStep == ChanType /\ SuperType /\ [Next]_vars => ChanType'
  <1> SUFFICES ASSUME ChanType, SuperType, [Next]_vars PROVE ChanType'
    OBVIOUS
  <1>1. /\ chan \in Seq(Lines) /\ Len(chan) \in Nat
        /\ printed \in Nat /\ repairs \in Nat /\ MaxLines \in Nat
        /\ printed <= MaxLines /\ repairs + Len(chan) <= printed
    BY ConstantsAssumption DEF ChanType
  <1>2. ASSUME NEW p \in Procs, PrintLine(p), UNCHANGED repairs PROVE ChanType'
    <2>1. PICK line \in Lines : chan' = Append(chan, line)
      BY <1>2 DEF PrintLine
    <2>2. chan' \in Seq(Lines) /\ Len(chan') = Len(chan) + 1
      BY <1>1, <2>1
    <2>3. printed' = printed + 1 /\ printed < MaxLines /\ repairs' = repairs
      BY <1>2 DEF PrintLine
    <2> QED BY <1>1, <2>2, <2>3 DEF ChanType
  <1>3. ASSUME chan # <<>>, chan' = Tail(chan), printed' = printed,
               repairs' = repairs \/ repairs' = repairs + 1
        PROVE  ChanType'
    <2>1. chan' \in Seq(Lines) /\ Len(chan') = Len(chan) - 1
      BY <1>1, <1>3
    <2>2. Len(chan') \in Nat /\ repairs' \in Nat /\ repairs' + Len(chan') <= printed
      BY <1>1, <1>3, <2>1
    <2> QED BY <1>1, <1>3, <2>1, <2>2 DEF ChanType
  <1>4. CASE UNCHANGED <<chan, printed, repairs>>
    BY <1>4 DEF ChanType
  <1>5. CASE Spawn
    <2>1. (chan' = <<>> \/ chan' = chan) /\ printed' = printed /\ repairs' = repairs
      BY <1>5 DEF Spawn, watchVars
    <2>2. CASE chan' = chan BY <2>1, <2>2, <1>4
    <2>3. CASE chan' = <<>>
      <3>1. chan' \in Seq(Lines) /\ Len(chan') = 0 BY <2>3
      <3> QED BY <1>1, <2>1, <3>1 DEF ChanType
    <2> QED BY <2>1, <2>2, <2>3
  <1>6. CASE Watch \/ Collect
    <2>1. chan = <<>> => UNCHANGED <<chan, printed, repairs>>
      BY <1>6 DEF Watch, Collect, watchVars
    <2>2. chan # <<>> => /\ chan' = Tail(chan) /\ printed' = printed
                         /\ repairs' = repairs \/ repairs' = repairs + 1
      BY <1>6 DEF Watch, Collect, watchVars
    <2> QED BY <1>3, <1>4, <2>1, <2>2
  <1>7. \/ (\E p \in Procs : PrintLine(p)) /\ UNCHANGED repairs
        \/ UNCHANGED <<chan, printed, repairs>>
        \/ Spawn \/ Watch \/ Collect
    BY DEF Next, ProcessStep, Clock, Supervisor, vars, procVars, watchVars,
           OpenProject, StageExport, MoveNext, ScriptFails, JvmDies,
           LauncherExits, ScrubOne, ScrubDone, OpaqueGate, Await, KillChild,
           KillGroup, Reap, ValidateCurrent, AnalyzeThumb, Terminal,
           PublishStartup
  <1> QED BY <1>2, <1>4, <1>5, <1>6, <1>7

LEMMA FlagTypeStep == FlagType /\ [Next]_vars => FlagType'
  <1> SUFFICES ASSUME FlagType, [Next]_vars PROVE FlagType'
    OBVIOUS
  <1> USE Zenon DEF FlagType, watchVars, inputVars, scrubVars, resultVars, Invalidate
  <1>1. CASE ProcessStep \/ UNCHANGED vars BY <1>1 DEF ProcessStep, vars
  <1>2. CASE Clock BY <1>2 DEF Clock
  <1>3. CASE ScrubOne BY <1>3 DEF ScrubOne
  <1>4. CASE ScrubDone BY <1>4 DEF ScrubDone
  <1>5. CASE OpaqueGate BY <1>5 DEF OpaqueGate
  <1>6. CASE Spawn BY <1>6 DEF Spawn
  <1>7. CASE Watch BY <1>7 DEF Watch
  <1>8. CASE Collect BY <1>8 DEF Collect
  <1>9. CASE Await BY <1>9 DEF Await
  <1>10. CASE KillChild \/ KillGroup BY <1>10 DEF KillChild, KillGroup
  <1>11. CASE Reap BY <1>11 DEF Reap
  <1>12. CASE ValidateCurrent BY <1>12 DEF ValidateCurrent
  <1>13. CASE AnalyzeThumb BY <1>13 DEF AnalyzeThumb
  <1>14. CASE Terminal BY <1>14 DEF Terminal
  <1>15. CASE PublishStartup BY <1>15 DEF PublishStartup
  <1> QED
    BY <1>1, <1>2, <1>3, <1>4, <1>5, <1>6, <1>7, <1>8, <1>9, <1>10, <1>11,
       <1>12, <1>13, <1>14, <1>15 DEF Next, Supervisor

LEMMA SuperTypeStep == SuperType /\ [Next]_vars => SuperType'
  <1> SUFFICES ASSUME SuperType, [Next]_vars PROVE SuperType'
    OBVIOUS
  <1>1. faults \in Nat /\ MaxFaults \in Nat BY ConstantsAssumption DEF SuperType
  <1> USE <1>1, OwnedNames
      DEF SuperType, inputVars, scrubVars, resultVars, Invalidate, Fault, Procs
  <1>2. CASE ProcessStep \/ Clock \/ UNCHANGED vars
    BY <1>2 DEF ProcessStep, Clock, vars
  <1>3. CASE ScrubOne BY <1>3 DEF ScrubOne
  <1>4. CASE ScrubDone BY <1>4 DEF ScrubDone
  <1>5. CASE OpaqueGate BY <1>5 DEF OpaqueGate
  <1>6. CASE Spawn BY <1>6 DEF Spawn
  <1>7. CASE Watch BY <1>7 DEF Watch, BeginKill, ReadToEnd
  <1>8. CASE Collect BY <1>8 DEF Collect, BeginKill, ReadToEnd
  <1>9. CASE Await BY <1>9 DEF Await
  <1>10. CASE KillChild \/ KillGroup BY <1>10 DEF KillChild, KillGroup
  <1>11. CASE Reap BY <1>11 DEF Reap
  <1>12. CASE ValidateCurrent BY <1>12 DEF ValidateCurrent
  <1>13. CASE AnalyzeThumb BY <1>13 DEF AnalyzeThumb
  <1>14. CASE Terminal BY <1>14 DEF Terminal
  <1>15. CASE PublishStartup BY <1>15 DEF PublishStartup
  <1> QED
    BY <1>2, <1>3, <1>4, <1>5, <1>6, <1>7, <1>8, <1>9, <1>10, <1>11,
       <1>12, <1>13, <1>14, <1>15 DEF Next, Supervisor

TypeInv == TypeOK /\ ChanInv

LEMMA TypeInit == Init => TypeInv
  <1> SUFFICES ASSUME Init PROVE FileType /\ ProcType /\ ChanType /\ FlagType /\ SuperType
    BY TypeParts DEF TypeInv
  <1> USE ConstantsAssumption DEF Init
  <1>1. FileType BY DEF FileType
  <1>2. ProcType BY DEF ProcType, Absent, Dead, Procs
  <1>3. ChanType BY DEF ChanType
  <1>4. FlagType BY Zenon DEF FlagType
  <1>5. SuperType BY DEF SuperType
  <1> QED BY <1>1, <1>2, <1>3, <1>4, <1>5

LEMMA TypeStep == TypeInv /\ [Next]_vars => TypeInv'
  <1> SUFFICES ASSUME TypeInv, [Next]_vars PROVE TypeInv'
    OBVIOUS
  <1>1. FileType /\ ProcType /\ ChanType /\ FlagType /\ SuperType
    BY TypeParts DEF TypeInv
  <1>2. FileType' /\ ProcType' /\ ChanType' /\ FlagType' /\ SuperType'
    BY <1>1, FileTypeStep, ProcTypeStep, ChanTypeStep, FlagTypeStep, SuperTypeStep
  <1>3. FileType' /\ ProcType' /\ ChanType' /\ FlagType' /\ SuperType' => TypeInv'
    BY TypeParts, PTL DEF TypeInv
  <1> QED BY <1>2, <1>3

-----------------------------------------------------------------------------
(* Control: the supervisor's own variables.                                *)

LEMMA ControlStep ==
    TypeInv /\ ControlInv /\ [Next]_vars => ControlInv'
  <1> SUFFICES ASSUME TypeInv, ControlInv, [Next]_vars PROVE ControlInv'
    OBVIOUS
  <1>1. SuperType /\ FlagType BY TypeParts DEF TypeInv
  <1> USE <1>1, OwnedNames
      DEF SuperType, FlagType, inputVars, scrubVars, resultVars, watchVars,
          Invalidate, Procs, ControlInv, Attending
  <1>2. CASE ProcessStep \/ Clock \/ UNCHANGED vars
    BY <1>2 DEF ProcessStep, Clock, vars
  <1>3. CASE ScrubOne BY <1>3 DEF ScrubOne
  <1>4. CASE ScrubDone BY <1>4 DEF ScrubDone
  <1>5. CASE OpaqueGate BY <1>5 DEF OpaqueGate
  <1>6. CASE Spawn BY <1>6 DEF Spawn
  <1>7. CASE Watch BY <1>7 DEF Watch, BeginKill, ReadToEnd
  <1>8. CASE Collect BY <1>8 DEF Collect, BeginKill, ReadToEnd
  <1>9. CASE Await BY <1>9 DEF Await
  <1>10. CASE KillChild \/ KillGroup BY <1>10 DEF KillChild, KillGroup
  <1>11. CASE Reap BY <1>11 DEF Reap
  <1>12. CASE ValidateCurrent BY <1>12 DEF ValidateCurrent
  <1>13. CASE AnalyzeThumb BY <1>13 DEF AnalyzeThumb
  <1>14. CASE Terminal BY <1>14 DEF Terminal
  <1>15. CASE PublishStartup BY <1>15 DEF PublishStartup
  <1> QED
    BY <1>2, <1>3, <1>4, <1>5, <1>6, <1>7, <1>8, <1>9, <1>10, <1>11,
       <1>12, <1>13, <1>14, <1>15, Zenon DEF Next, Supervisor

-----------------------------------------------------------------------------
(* The processes.  A step of a process p leaves the supervisor and the     *)
(* other process alone; what it does to p is one of the following.         *)

Drive == <<pc, cur, mode, after, outcome, scrubbed, scrubErr, reason, fellBack,
           thumb, thumbOk, current>>

LEMMA ProcessSteps ==
    ASSUME ProcType, ProcessStep
    PROVE  /\ UNCHANGED Drive
           /\ \E p \in Procs :
                /\ \A q \in Procs \ {p} : /\ jvm'[q] = jvm[q] /\ jsig'[q] = jsig[q]
                                          /\ launcher'[q] = launcher[q]
                                          /\ exit'[q] = exit[q]
                /\ \/ /\ Alive(p) /\ Alive(p)' /\ jvm[p] < jvm'[p] /\ jsig[p] # "spent"
                      /\ jsig'[p] = IF jsig[p] = "sent" THEN "spent" ELSE jsig[p]
                      /\ launcher'[p] = launcher[p]
                   \/ /\ Alive(p) /\ jvm'[p] = Dead
                      /\ jsig'[p] = jsig[p] /\ launcher'[p] = launcher[p]
                   \/ /\ launcher[p] \in {"running", "doomed"}
                      /\ launcher[p] = "running" => jvm[p] = Dead
                      /\ launcher'[p] = "zombie"
                      /\ jvm'[p] = jvm[p] /\ jsig'[p] = jsig[p]
                   \/ /\ Alive(p) /\ UNCHANGED <<jvm, jsig, launcher>>
  <1>1. UNCHANGED Drive BY DEF ProcessStep, Drive
  <1> USE DEF ProcType, Alive, Acts, SetExit, Absent, Booting, Analyzing, Leaving, Dead
  <1> DEFINE Others(p) ==
               \A q \in Procs \ {p} : /\ jvm'[q] = jvm[q] /\ jsig'[q] = jsig[q]
                                      /\ launcher'[q] = launcher[q]
                                      /\ exit'[q] = exit[q]
             Acted(p) == /\ Alive(p) /\ Alive(p)' /\ jvm[p] < jvm'[p] /\ jsig[p] # "spent"
                         /\ jsig'[p] = IF jsig[p] = "sent" THEN "spent" ELSE jsig[p]
                         /\ launcher'[p] = launcher[p]
  <1>2. ASSUME NEW p \in Procs, OpenProject(p) PROVE Others(p) /\ Acted(p)
    BY <1>2 DEF OpenProject
  <1>3. ASSUME NEW p \in Procs, PrintLine(p)
        PROVE  Others(p) /\ Alive(p) /\ UNCHANGED <<jvm, jsig, launcher>>
    BY <1>3 DEF PrintLine
  <1>4. ASSUME NEW p \in Procs, StageExport(p) PROVE Others(p) /\ Acted(p)
    BY <1>4 DEF StageExport
  <1>5. ASSUME NEW p \in Procs, MoveNext(p) PROVE Others(p) /\ Acted(p)
    BY <1>5 DEF MoveNext
  <1>6. ASSUME NEW p \in Procs, ScriptFails(p) PROVE Others(p) /\ Acted(p)
    BY <1>6 DEF ScriptFails
  <1>7. ASSUME NEW p \in Procs, JvmDies(p)
        PROVE  /\ Others(p) /\ Alive(p) /\ jvm'[p] = Dead
               /\ jsig'[p] = jsig[p] /\ launcher'[p] = launcher[p]
    BY <1>7 DEF JvmDies
  <1>8. ASSUME NEW p \in Procs, LauncherExits(p)
        PROVE  /\ Others(p) /\ launcher[p] \in {"running", "doomed"}
               /\ launcher[p] = "running" => jvm[p] = Dead
               /\ launcher'[p] = "zombie"
               /\ jvm'[p] = jvm[p] /\ jsig'[p] = jsig[p]
    BY <1>8 DEF LauncherExits
  <1> HIDE DEF Others, Acted, Alive
  <1> QED
    BY <1>1, <1>2, <1>3, <1>4, <1>5, <1>6, <1>7, <1>8, Zenon
    DEF ProcessStep, Others, Acted

LEMMA ProcInvProcess ==
    TypeInv /\ ControlInv /\ ProcInv /\ ProcessStep => ProcInv'
  <1> SUFFICES ASSUME TypeInv, ControlInv, ProcInv, ProcessStep PROVE ProcInv'
    OBVIOUS
  <1>1. ProcType /\ SuperType BY TypeParts DEF TypeInv
  <1>2. ProcType' BY <1>1, ProcTypeStep DEF Next
  <1>3. UNCHANGED Drive BY <1>1, ProcessSteps
  <1> QED
    BY <1>1, <1>2, <1>3, ProcessSteps
    DEF ProcInv, Settled, ProcType, SuperType, Drive, Alive, Procs, Absent,
        Booting, Leaving, Dead, Attending

LEMMA ProcInvSupervisor ==
    TypeInv /\ ControlInv /\ ProcInv /\ (Supervisor \/ Clock \/ UNCHANGED vars)
        => ProcInv'
  <1> SUFFICES ASSUME TypeInv, ControlInv, ProcInv,
                      Supervisor \/ Clock \/ UNCHANGED vars
               PROVE  ProcInv'
    OBVIOUS
  <1>1. ProcType /\ SuperType BY TypeParts DEF TypeInv
  <1> USE <1>1
      DEF ProcInv, Settled, ProcType, SuperType, ControlInv, Alive, Procs,
          Absent, Booting, Leaving, Dead, Attending, procVars, inputVars,
          scrubVars, resultVars, Invalidate
  <1>2. CASE Clock \/ UNCHANGED vars BY <1>2 DEF Clock, vars
  <1>3. CASE ScrubOne BY <1>3 DEF ScrubOne
  <1>4. CASE ScrubDone BY <1>4 DEF ScrubDone
  <1>5. CASE OpaqueGate BY <1>5 DEF OpaqueGate
  <1>6. CASE Spawn BY <1>6 DEF Spawn
  <1>7. CASE Watch BY <1>7 DEF Watch, BeginKill, ReadToEnd, EOF
  <1>8. CASE Collect BY <1>8 DEF Collect, BeginKill, ReadToEnd, EOF
  <1>9. CASE Await BY <1>9 DEF Await
  <1>10. CASE KillChild BY <1>10 DEF KillChild, Doom
  <1>11. CASE KillGroup BY <1>11 DEF KillGroup, Doom, Signalled
  <1>12. CASE Reap BY <1>12 DEF Reap
  <1>13. CASE ValidateCurrent BY <1>13 DEF ValidateCurrent
  <1>14. CASE AnalyzeThumb BY <1>14 DEF AnalyzeThumb
  <1>15. CASE Terminal BY <1>15 DEF Terminal
  <1>16. CASE PublishStartup BY <1>16 DEF PublishStartup
  <1> QED
    BY <1>2, <1>3, <1>4, <1>5, <1>6, <1>7, <1>8, <1>9, <1>10, <1>11,
       <1>12, <1>13, <1>14, <1>15, <1>16, Zenon DEF Supervisor

LEMMA LockStep ==
    TypeInv /\ ControlInv /\ ProcInv /\ LockInv /\ [Next]_vars => LockInv'
  <1> SUFFICES ASSUME TypeInv, ControlInv, ProcInv, LockInv, [Next]_vars
               PROVE  LockInv'
    OBVIOUS
  <1>1. ProcType /\ SuperType BY TypeParts DEF TypeInv
  <1> USE <1>1
      DEF LockInv, ProcType, SuperType, Alive, Absent, Booting, Analyzing,
          Leaving, Dead
  <1>2. ASSUME NEW p \in Procs, OpenProject(p) PROVE LockInv'
    BY <1>2 DEF OpenProject, Procs
  <1>3. ASSUME NEW p \in Procs, PrintLine(p) PROVE LockInv'
    BY <1>3 DEF PrintLine
  <1>4. ASSUME NEW p \in Procs, StageExport(p) PROVE LockInv'
    BY <1>4 DEF StageExport
  <1>5. ASSUME NEW p \in Procs, MoveNext(p) PROVE LockInv'
    BY <1>5 DEF MoveNext
  <1>6. ASSUME NEW p \in Procs, ScriptFails(p) PROVE LockInv'
    BY <1>6 DEF ScriptFails
  <1>7. ASSUME NEW p \in Procs, JvmDies(p) PROVE LockInv'
    BY <1>7 DEF JvmDies
  <1>8. ASSUME NEW p \in Procs, LauncherExits(p) PROVE LockInv'
    BY <1>8 DEF LauncherExits
  <1>9. CASE Spawn BY <1>9 DEF Spawn
  <1>10. CASE UNCHANGED <<lock, jvm>> BY <1>10
  <1>11. \/ \E p \in Procs : \/ OpenProject(p) \/ PrintLine(p) \/ StageExport(p)
                             \/ MoveNext(p) \/ ScriptFails(p) \/ JvmDies(p)
                             \/ LauncherExits(p)
         \/ Spawn \/ UNCHANGED <<lock, jvm>>
    BY DEF Next, ProcessStep, Clock, Supervisor, vars, procVars, ScrubOne,
           ScrubDone, OpaqueGate, Watch, Collect, Await, KillChild, KillGroup,
           Reap, ValidateCurrent, AnalyzeThumb, Terminal, PublishStartup
  <1> QED
    BY <1>2, <1>3, <1>4, <1>5, <1>6, <1>7, <1>8, <1>9, <1>10, <1>11, Zenon

-----------------------------------------------------------------------------
(* The files.                                                              *)

\* A step that changes a file is a move of a JVM or one name of a scrub.
LEMMA MoveStep ==
    ASSUME FileType, ProcType, NEW p \in Procs, MoveNext(p)
    PROVE  /\ jvm[p] \in 3..6 /\ jvm'[p] = jvm[p] + 1
           /\ jsig[p] # "spent"
           /\ jsig'[p] = IF jsig[p] = "sent" THEN "spent" ELSE jsig[p]
           /\ PublishOrder[jvm[p] - 2] \in Owned
           /\ tree' = [tree EXCEPT ![PublishOrder[jvm[p] - 2]] = p]
           /\ \A q \in Procs \ {p} : jvm'[q] = jvm[q] /\ jsig'[q] = jsig[q]
  <1>1. jvm[p] \in 3..6 BY DEF MoveNext, Analyzing, Leaving
  <1>2. jvm[p] - 2 \in 1..4 /\ 1..4 = {1, 2, 3, 4} BY <1>1
  <1>3. PublishOrder[jvm[p] - 2] \in Owned BY <1>2, OwnedNames
  <1> QED BY <1>1, <1>3 DEF MoveNext, Acts, ProcType, Analyzing, Leaving

LEMMA TreeFrame ==
    [Next]_vars =>
        \/ tree' = tree
        \/ \E p \in Procs : MoveNext(p) /\ UNCHANGED Drive
        \/ ScrubOne
  BY DEF Next, ProcessStep, Clock, Supervisor, vars, diskVars, OpenProject,
         PrintLine, StageExport, ScriptFails, JvmDies, LauncherExits, ScrubDone,
         OpaqueGate, Spawn, Watch, Collect, Await, KillChild, KillGroup, Reap,
         ValidateCurrent, AnalyzeThumb, Terminal, PublishStartup, Drive

\* One name of a scrub.
LEMMA ScrubStep ==
    ASSUME FileType, SuperType, ScrubOne
    PROVE  /\ pc = "scrub" /\ scrubbed \in 0..3 /\ scrubbed' = scrubbed + 1
           /\ Swept' = Swept \cup {ScrubOrder[scrubbed + 1]}
           /\ ScrubOrder[scrubbed + 1] \in Owned
           /\ \/ tree' = [tree EXCEPT ![ScrubOrder[scrubbed + 1]] = "none"]
                 /\ scrubErr' = scrubErr
              \/ tree' = tree /\ scrubErr'
           /\ UNCHANGED <<pc, cur, mode, after, outcome, jvm, jsig, launcher>>
  <1>1. scrubbed \in 0..3 /\ scrubbed' = scrubbed + 1
    BY OwnedNames DEF ScrubOne, SuperType
  <1>2. 1..(scrubbed + 1) = 1..scrubbed \cup {scrubbed + 1} BY <1>1
  <1>3. Swept' = Swept \cup {ScrubOrder[scrubbed + 1]}
    BY <1>1, <1>2 DEF Swept
  <1>4. scrubbed + 1 \in {1, 2, 3, 4} BY <1>1
  <1>5. ScrubOrder[scrubbed + 1] \in Owned BY <1>4, OwnedNames
  <1>6. \/ tree' = [tree EXCEPT ![ScrubOrder[scrubbed + 1]] = "none"]
           /\ scrubErr' = scrubErr
        \/ tree' = tree /\ scrubErr'
    BY DEF ScrubOne
  <1>7. UNCHANGED <<pc, cur, mode, after, outcome, jvm, jsig, launcher>>
    BY DEF ScrubOne, inputVars, procVars, resultVars
  <1>8. pc = "scrub" BY DEF ScrubOne
  <1> QED BY <1>1, <1>3, <1>5, <1>6, <1>7, <1>8

\* The phase of a JVM only grows, and what it has to do with a signal.
LEMMA PhaseStep ==
    ASSUME TypeInv, ControlInv, ProcInv, [Next]_vars, NEW p \in Procs
    PROVE  /\ jvm[p] <= jvm'[p]
           /\ jvm'[p] # jvm[p] /\ jvm'[p] # Dead /\ ~(Spawn /\ p = cur) =>
                /\ Alive(p) /\ jsig[p] # "spent" /\ jsig'[p] # "sent"
           /\ jsig[p] = "spent" => jsig'[p] = "spent"
           /\ jsig[p] # "no" => jsig'[p] # "no"
  <1>1. ProcType /\ SuperType BY TypeParts DEF TypeInv
  <1> USE <1>1 DEF ProcType, SuperType, Alive, Absent, Booting, Leaving, Dead
  <1>2. CASE ProcessStep BY <1>2, ProcessSteps
  <1>3. CASE Spawn BY <1>3 DEF Spawn, ProcInv
  <1>4. CASE KillGroup BY <1>4 DEF KillGroup, Signalled
  <1>5. CASE UNCHANGED <<jvm, jsig>> BY <1>5
  <1>6. ProcessStep \/ Spawn \/ KillGroup \/ UNCHANGED <<jvm, jsig>>
    BY DEF Next, Clock, Supervisor, vars, procVars, ScrubOne, ScrubDone,
           OpaqueGate, Watch, Collect, Await, KillChild, Reap, ValidateCurrent,
           AnalyzeThumb, Terminal, PublishStartup
  <1> QED BY <1>2, <1>3, <1>4, <1>5, <1>6

LEMMA OwnersStep ==
    TypeInv /\ ControlInv /\ ProcInv /\ OwnersInv /\ [Next]_vars => OwnersInv'
  <1> SUFFICES ASSUME TypeInv, ControlInv, ProcInv, OwnersInv, [Next]_vars,
                      NEW p \in Procs, NEW f \in Owned, tree'[f] = p
               PROVE  jvm'[p] \notin Absent..Analyzing
    BY DEF OwnersInv
  <1>1. FileType /\ ProcType /\ SuperType BY TypeParts DEF TypeInv
  <1>2. ProcType' BY <1>1, ProcTypeStep
  <1>3. jvm[p] <= jvm'[p] BY PhaseStep
  <1>4. CASE tree[f] = p
    BY <1>1, <1>2, <1>3, <1>4 DEF OwnersInv, ProcType, Absent, Analyzing, Dead
  <1>5. CASE tree[f] # p
    <2>1. tree'[f] # tree[f] BY <1>5
    <2>2. ASSUME NEW q \in Procs, MoveNext(q)
          PROVE  jvm'[p] \notin Absent..Analyzing
      BY <1>1, <2>1, <2>2, MoveStep DEF FileType, Absent, Analyzing
    <2>3. CASE ScrubOne
      BY <1>1, <2>1, <2>3, ScrubStep DEF FileType, Procs
    <2> QED BY <2>1, <2>2, <2>3, TreeFrame
  <1> QED BY <1>4, <1>5

LEMMA QuietStep ==
    TypeInv /\ ControlInv /\ ProcInv /\ LockInv /\ OwnersInv /\ QuietInv
    /\ [Next]_vars => QuietInv'
  <1> SUFFICES ASSUME TypeInv, ControlInv, ProcInv, LockInv, OwnersInv, QuietInv,
                      [Next]_vars, NEW f \in Owned, tree'[f] = "d"
               PROVE  Quiet("t")'
    BY DEF QuietInv
  <1>1. FileType /\ ProcType /\ SuperType BY TypeParts DEF TypeInv
  <1>2. ProcType' BY <1>1, ProcTypeStep
  <1>3. Quiet("t") /\ jvm["d"] # Absent
    <2>1. CASE tree[f] = "d"
      BY <2>1 DEF QuietInv, OwnersInv, Procs, Absent, Analyzing
    <2>2. CASE tree[f] # "d"
      <3>1. MoveNext("d")
        <4>1. ASSUME NEW q \in Procs, MoveNext(q) PROVE q = "d"
          BY <1>1, <2>2, <4>1, MoveStep DEF FileType
        <4>2. ~ScrubOne BY <1>1, <2>2, ScrubStep DEF FileType
        <4> QED BY <2>2, <4>1, <4>2, TreeFrame
      <3>2. jvm["d"] \in 3..6 BY <1>1, <3>1, MoveStep DEF Procs
      <3> QED BY <3>2 DEF LockInv, Quiet, Procs, Absent, Analyzing, Leaving
    <2> QED BY <2>1, <2>2
  <1>4. cur = "d" /\ Settled("t")
    BY <1>1, <1>3 DEF ProcInv, Procs, SuperType
  <1>5. CASE jvm'["t"] = jvm["t"]
    BY <1>3, <1>5, PhaseStep DEF Quiet, Procs
  <1>6. CASE jvm'["t"] # jvm["t"]
    <2>1. jvm'["t"] = Dead \/ (Alive("t") /\ jsig'["t"] # "sent")
      BY <1>4, <1>6, PhaseStep DEF Procs
    <2>2. CASE jvm'["t"] = Dead BY <2>2 DEF Quiet, Dead, Analyzing, Leaving
    <2>3. CASE Alive("t") /\ jsig'["t"] # "sent"
      <3>1. jsig'["t"] # "no" BY <1>4, <2>3, PhaseStep DEF Settled, Procs
      <3>2. jsig'["t"] = "spent" BY <1>2, <2>3, <3>1 DEF ProcType, Procs
      <3> QED BY <3>2 DEF Quiet
    <2> QED BY <2>1, <2>2, <2>3
  <1> QED BY <1>5, <1>6

\* A process that was over when the scrub began makes no more than one call.
LEMMA BeforeSettled ==
    ASSUME TypeInv, ControlInv, ProcInv, NEW p \in Procs, Before(p)
    PROVE  Settled(p) /\ (p # cur \/ pc \notin Attending)
  <1>1. SuperType BY TypeParts DEF TypeInv
  <1> QED BY <1>1 DEF Before, ProcInv, ControlInv, SuperType, Procs, Attending

LEMMA ScrubInvStep ==
    TypeInv /\ ControlInv /\ ProcInv /\ OwnersInv /\ ScrubInv /\ [Next]_vars
        => ScrubInv'
  <1> SUFFICES ASSUME TypeInv, ControlInv, ProcInv, OwnersInv, ScrubInv,
                      [Next]_vars
               PROVE  ScrubInv'
    OBVIOUS
  <1>1. FileType /\ ProcType /\ SuperType BY TypeParts DEF TypeInv
  <1>2. SuperType' BY <1>1, SuperTypeStep
  <1>3. CASE ScrubOne
    <2> SUFFICES ASSUME ~scrubErr' PROVE ScrubInv' BY DEF ScrubInv
    <2> DEFINE n == ScrubOrder[scrubbed + 1]
    <2>1. /\ Swept' = Swept \cup {n} /\ n \in Owned
          /\ tree' = [tree EXCEPT ![n] = "none"] /\ scrubErr' = scrubErr
          /\ UNCHANGED <<mode, after, jsig>>
      BY <1>1, <1>3, ScrubStep
    <2> HIDE DEF n
    <2>2. \A p \in Procs : Before(p)' <=> Before(p) BY <2>1 DEF Before
    <2>3. Swept \subseteq Owned BY <1>1, SweptNames DEF SuperType
    <2>4. \A f \in Swept' : f # n => f \in Swept /\ tree'[f] = tree[f]
      BY <1>1, <2>1, <2>3 DEF FileType
    <2>5. tree'[n] = "none" BY <1>1, <2>1 DEF FileType
    <2>6. \A f \in Swept' : tree'[f] # "old"
      BY <2>1, <2>4, <2>5 DEF ScrubInv
    <2>7. ASSUME NEW p \in Procs, Before(p)' PROVE LeavesOne(p)'
      <3>1. LeavesOne(p) BY <2>1, <2>2, <2>7 DEF ScrubInv
      <3>2. p # "none" BY DEF Procs
      <3> QED BY <2>1, <2>4, <2>5, <3>1, <3>2 DEF LeavesOne
    <2> QED BY <2>6, <2>7 DEF ScrubInv
  <1>4. ASSUME NEW q \in Procs, MoveNext(q), UNCHANGED Drive PROVE ScrubInv'
    <2> SUFFICES ASSUME ~scrubErr' PROVE ScrubInv' BY DEF ScrubInv
    <2> DEFINE n == PublishOrder[jvm[q] - 2]
    <2>1. /\ n \in Owned /\ tree' = [tree EXCEPT ![n] = q]
          /\ Swept' = Swept /\ scrubErr' = scrubErr
          /\ UNCHANGED <<mode, after>>
      BY <1>1, <1>4, MoveStep DEF Drive, Swept
    <2>2. /\ jvm[q] \in 3..6 /\ jsig[q] # "spent"
          /\ jsig'[q] = IF jsig[q] = "sent" THEN "spent" ELSE jsig[q]
          /\ \A r \in Procs \ {q} : jsig'[r] = jsig[r]
      BY <1>1, <1>4, MoveStep
    <2> HIDE DEF n
    <2>3. \A p \in Procs : Before(p)' <=> Before(p) BY <2>1 DEF Before
    <2>4. Swept \subseteq Owned BY <1>1, SweptNames DEF SuperType
    <2>5. \A f \in Owned : tree'[f] = IF f = n THEN q ELSE tree[f]
      BY <1>1, <2>1 DEF FileType
    <2>6. \A f \in Swept' : tree'[f] # "old"
      BY <2>1, <2>4, <2>5 DEF ScrubInv, Procs
    <2>7. ASSUME NEW p \in Procs, Before(p)' PROVE LeavesOne(p)'
      <3>1. LeavesOne(p) BY <2>1, <2>3, <2>7 DEF ScrubInv
      <3>2. CASE p # q
        BY <2>1, <2>2, <2>4, <2>5, <3>1, <3>2 DEF LeavesOne
      <3>3. CASE p = q
        <4>1. Settled(q) BY <2>3, <2>7, <3>3, BeforeSettled
        <4>2. Alive(q) BY <2>2 DEF Alive, Booting, Leaving
        <4>3. jsig[q] = "sent" BY <1>1, <2>2, <4>1, <4>2 DEF Settled, ProcType
        <4>4. \A f \in Swept : tree[f] # q BY <3>1, <3>3, <4>3 DEF LeavesOne
        <4> QED BY <2>1, <2>2, <2>4, <2>5, <3>3, <4>3, <4>4 DEF LeavesOne
      <3> QED BY <3>2, <3>3
    <2> QED BY <2>6, <2>7 DEF ScrubInv
  <1>5. CASE tree' = tree /\ ~ScrubOne
    <2>1. scrubbed' = 0 \/ UNCHANGED <<scrubbed, scrubErr, after, mode>>
      BY <1>5 DEF Next, ProcessStep, Clock, Supervisor, vars, ScrubDone,
         OpaqueGate, Spawn, Watch, Collect, Await, KillChild, KillGroup, Reap,
         ValidateCurrent, AnalyzeThumb, Terminal, PublishStartup, scrubVars,
         inputVars, Invalidate
    <2>2. CASE scrubbed' = 0
      <3>1. Swept' = {} BY <2>2 DEF Swept
      <3> QED BY <3>1 DEF ScrubInv, LeavesOne
    <2>3. CASE UNCHANGED <<scrubbed, scrubErr, after, mode>>
      <3>1. Swept' = Swept BY <2>3 DEF Swept
      <3>2. \A p \in Procs : Before(p)' <=> Before(p) BY <2>3 DEF Before
      <3>3. \A p \in Procs : jsig[p] = "spent" => jsig'[p] = "spent"
        BY PhaseStep
      <3> QED BY <1>5, <2>3, <3>1, <3>2, <3>3 DEF ScrubInv, LeavesOne
    <2> QED BY <2>1, <2>2, <2>3
  <1> QED BY <1>3, <1>4, <1>5, TreeFrame

\* While a process's export is the one in place, another moves no file over it.
LEMMA OnlyCurMoves ==
    ASSUME TypeInv, ControlInv, ProcInv, LockInv, QuietInv,
           NEW q \in Procs, q # cur, MoveNext(q)
    PROVE  /\ cur = "d" /\ q = "t"
           /\ jvm["d"] \notin 3..6 /\ \A f \in Owned : tree[f] # "d"
  <1>1. FileType /\ ProcType /\ SuperType BY TypeParts DEF TypeInv
  <1>2. jvm[q] \in 3..6 /\ jsig[q] # "spent" BY <1>1, MoveStep
  <1>3. cur = "d" /\ q = "t"
    BY <1>1, <1>2 DEF ProcInv, SuperType, Procs, Absent
  <1>4. lock = "t" BY <1>2, <1>3 DEF LockInv, Procs, Analyzing, Leaving
  <1>5. jvm["d"] \notin 3..6
    BY <1>4 DEF LockInv, Procs, Analyzing, Leaving
  <1>6. ~Quiet("t") BY <1>2, <1>3 DEF Quiet, Analyzing, Leaving
  <1> QED BY <1>3, <1>5, <1>6 DEF QuietInv

\* The owned names by their place in the publication order.
LEMMA PublishPlaces ==
    /\ \A i \in 1..4 : PublishOrder[i] \in Owned
    /\ \A i, j \in 1..4 : PublishOrder[i] = PublishOrder[j] => i = j
  <1>1. 1..4 = {1, 2, 3, 4} OBVIOUS
  <1> QED BY <1>1, OwnedNames

LEMMA PrefixStep ==
    TypeInv /\ ControlInv /\ ProcInv /\ LockInv /\ OwnersInv /\ QuietInv
    /\ PrefixInv /\ [Next]_vars => PrefixInv'
  <1> SUFFICES ASSUME TypeInv, ControlInv, ProcInv, LockInv, OwnersInv, QuietInv,
                      PrefixInv, [Next]_vars, pc' # "scrub", after' # "drop"
               PROVE  Prefix(cur)'
    BY DEF PrefixInv
  <1>1. FileType /\ ProcType /\ SuperType BY TypeParts DEF TypeInv
  <1>2. ProcType' BY <1>1, ProcTypeStep
  <1>3. ~ScrubOne BY <1>1, ScrubStep
  <1>4. ASSUME NEW q \in Procs, MoveNext(q), UNCHANGED Drive PROVE Prefix(cur)'
    <2>1. cur' = cur /\ Prefix(cur) BY <1>4 DEF Drive, PrefixInv
    <2>2. CASE q # cur
      <3>1. /\ cur = "d" /\ q = "t" /\ jvm["d"] \notin 3..6
            /\ \A f \in Owned : tree[f] # "d"
        BY <1>4, <2>2, OnlyCurMoves
      <3>2. jvm'["d"] = jvm["d"] /\ \A f \in Owned : tree'[f] # "d"
        BY <1>1, <1>4, <3>1, MoveStep DEF FileType, Procs
      <3> QED
        BY <2>1, <3>1, <3>2, PublishPlaces DEF Prefix, Analyzing, Leaving
    <2>3. CASE q = cur
      <3> DEFINE k == jvm[cur] - 2
      <3>1. /\ jvm[cur] = k + 2 /\ k \in 1..4 /\ jvm'[cur] = k + 3
            /\ tree' = [tree EXCEPT ![PublishOrder[k]] = cur]
        BY <1>1, <1>4, <2>3, MoveStep
      <3> HIDE DEF k
      <3>2. \A i \in 1..4 : tree[PublishOrder[i]] = cur <=> i < k
        BY <2>1, <3>1 DEF Prefix, Analyzing, Leaving
      <3>3. \A i \in 1..4 : tree'[PublishOrder[i]] = cur <=> i < k + 1
        <4> SUFFICES ASSUME NEW i \in 1..4
                     PROVE  tree'[PublishOrder[i]] = cur <=> i < k + 1
          OBVIOUS
        <4>1. CASE i = k BY <1>1, <3>1, <4>1, PublishPlaces DEF FileType
        <4>2. CASE i # k
          <5>1. tree'[PublishOrder[i]] = tree[PublishOrder[i]]
            BY <1>1, <3>1, <4>2, PublishPlaces DEF FileType
          <5> QED BY <3>1, <3>2, <4>2, <5>1
        <4> QED BY <4>1, <4>2
      <3> QED BY <2>1, <3>1, <3>3 DEF Prefix, Analyzing, Leaving
    <2> QED BY <2>2, <2>3
  <1>5. ASSUME tree' = tree, \A q \in Procs : ~MoveNext(q) PROVE Prefix(cur)'
    <2>1. ASSUME ProcessStep PROVE Prefix(cur)'
      <3>1. cur' = cur /\ Prefix(cur)
        BY <1>1, <2>1, ProcessSteps DEF Drive, PrefixInv
      <3>2. jvm'[cur] \in 3..6 =>
              jvm'[cur] = jvm[cur] \/ (jvm[cur] = 2 /\ jvm'[cur] = 3)
        BY <1>1, <1>5, <2>1
        DEF ProcessStep, OpenProject, PrintLine, StageExport, ScriptFails,
            JvmDies, LauncherExits, ProcType, SuperType, Analyzing, Leaving,
            Dead
      <3>3. jvm[cur] = 2 => \A f \in Owned : tree[f] # cur
        BY <1>1 DEF OwnersInv, SuperType, Absent, Analyzing
      <3> QED
        BY <1>5, <3>1, <3>2, <3>3, PublishPlaces DEF Prefix, Analyzing, Leaving
    <2>2. CASE ScrubDone
      <3>1. jvm[cur'] = Absent /\ cur' \in Procs /\ jvm' = jvm
        BY <1>1, <2>2
        DEF ScrubDone, ProcInv, ControlInv, SuperType, procVars, Procs, scrubVars
      <3>2. \A f \in Owned : tree'[f] # cur'
        BY <1>5, <3>1 DEF OwnersInv, Absent, Analyzing
      <3> QED BY <3>1, <3>2, PublishPlaces DEF Prefix, Absent, Analyzing, Leaving
    <2>3. CASE Spawn
      <3>1. jvm'[cur] = Booting /\ cur' = cur /\ Prefix(cur)
        BY <1>1, <2>3 DEF Spawn, Invalidate, ProcType, SuperType, PrefixInv, scrubVars
      <3> QED BY <1>5, <3>1 DEF Prefix, Booting, Analyzing, Leaving
    <2>4. ASSUME ~ProcessStep, ~ScrubDone, ~Spawn PROVE Prefix(cur)'
      <3>1. UNCHANGED <<jvm, cur, after>> /\ pc # "scrub"
        BY <1>3, <2>4 DEF Next, Clock, Supervisor, vars, procVars, inputVars,
           scrubVars, OpaqueGate, Watch, Collect, Await, KillChild, KillGroup,
           Reap, ValidateCurrent, AnalyzeThumb, Terminal, PublishStartup,
           Invalidate
      <3> QED BY <1>5, <3>1 DEF Prefix, PrefixInv
    <2> QED BY <2>1, <2>2, <2>3, <2>4
  <1>6. \/ \E q \in Procs : MoveNext(q) /\ UNCHANGED Drive
        \/ tree' = tree /\ \A q \in Procs : ~MoveNext(q)
    <2>1. ASSUME NEW q \in Procs, MoveNext(q) PROVE UNCHANGED Drive
      <3>1. jvm'[q] # jvm[q] BY <1>1, <2>1, MoveStep
      <3>2. CASE ProcessStep BY <1>1, <3>2, ProcessSteps
      <3>3. CASE Spawn
        <4>1. jvm'[q] = Booting BY <1>1, <3>1, <3>3 DEF Spawn, ProcType
        <4>2. jvm[q] \in 3..6 /\ jvm'[q] = jvm[q] + 1 BY <1>1, <2>1, MoveStep
        <4> QED BY <4>1, <4>2 DEF Booting
      <3>4. jvm' = jvm \/ ProcessStep \/ Spawn
        BY DEF Next, Clock, Supervisor, vars, procVars, ScrubOne, ScrubDone,
           OpaqueGate, Watch, Collect, Await, KillChild, KillGroup, Reap,
           ValidateCurrent, AnalyzeThumb, Terminal, PublishStartup
      <3> QED BY <3>1, <3>2, <3>3, <3>4
    <2> QED BY <1>3, <2>1, TreeFrame
  <1> QED BY <1>4, <1>5, <1>6

\* An export that was validated is not written by anyone any more.
LEMMA AnalyzedStable ==
    ASSUME TypeInv, ControlInv, ProcInv, LockInv, QuietInv, AcceptedInv,
           outcome = "analyzed", [Next]_vars
    PROVE  tree' = tree /\ cur' = cur
  <1>1. FileType /\ ProcType /\ SuperType BY TypeParts DEF TypeInv
  <1>2. pc \in {"thumb", "terminal", "startup", "done"} /\ jvm[cur] = Dead
    BY DEF ControlInv, ProcInv
  <1>3. ~ScrubOne BY <1>1, <1>2, ScrubStep
  <1>4. ASSUME NEW q \in Procs, MoveNext(q) PROVE FALSE
    <2>1. jvm[q] \in 3..6 BY <1>1, <1>4, MoveStep
    <2>2. q # cur BY <1>2, <2>1 DEF Dead
    <2>3. cur = "d" /\ \A f \in Owned : tree[f] # "d"
      BY <1>4, <2>2, OnlyCurMoves
    <2>4. tree["functions"] = cur BY OwnedNames DEF AcceptedInv
    <2> QED BY <2>3, <2>4, OwnedNames
  <1>5. cur' = cur
    BY <1>2 DEF Next, ProcessStep, Clock, Supervisor, vars, ScrubOne, ScrubDone,
         OpaqueGate, Spawn, Watch, Collect, Await, KillChild, KillGroup, Reap,
         ValidateCurrent, AnalyzeThumb, Terminal, PublishStartup
  <1> QED BY <1>3, <1>4, <1>5, TreeFrame

\* What validate_current finds complete is one process's.
LEMMA CompleteIsCurs ==
    ASSUME TypeInv, ControlInv, ProcInv, OwnersInv, ScrubInv, PrefixInv,
           pc = "validate", Complete
    PROVE  /\ \A f \in Trio : tree[f] = cur
           /\ tree["marker"] \in Procs
  <1>1. FileType /\ ProcType /\ SuperType BY TypeParts DEF TypeInv
  <1>2. ~scrubErr /\ after # "drop" /\ Swept = Owned /\ Prefix(cur)
    BY SweptNames DEF ControlInv, PrefixInv
  <1>3. \A f \in Owned : tree[f] \in Procs
    BY <1>1, <1>2 DEF FileType, Complete, ScrubInv
  <1>4. Trio \subseteq Owned /\ "marker" \in Owned BY OwnedNames
  <1>5. CASE jvm["t"] = Absent \/ jvm["d"] = Absent
    <2>1. jvm[cur] = Dead BY DEF ProcInv
    <2>2. \A f \in Owned : tree[f] = cur
      BY <1>1, <1>3, <1>5, <2>1 DEF OwnersInv, Procs, SuperType, Absent,
         Analyzing, Dead
    <2> QED BY <1>3, <1>4, <2>2
  <1>6. CASE jvm["t"] # Absent /\ jvm["d"] # Absent
    <2>1. cur = "d" /\ after = "retry"
      BY <1>1, <1>2, <1>6 DEF ProcInv, ControlInv, SuperType, Procs
    <2>2. LeavesOne("t") BY <1>2, <2>1 DEF ScrubInv, Before, Procs
    <2>3. CASE tree["marker"] = "t"
      <3>1. ASSUME NEW f \in Trio PROVE tree[f] # "t"
        <4>1. f \in Owned /\ f # "marker" BY OwnedNames
        <4> QED BY <1>2, <1>4, <2>2, <2>3, <4>1 DEF LeavesOne
      <3> QED BY <1>3, <1>4, <2>1, <2>3, <3>1 DEF Procs
    <2>4. CASE tree["marker"] = "d"
      <3>1. \A i \in 1..3 : tree[PublishOrder[i]] = "d"
        BY <1>2, <2>1, <2>4, OwnedNames DEF Prefix
      <3>2. tree["functions"] = "d" /\ tree["disasm"] = "d"
            /\ tree["decompiled"] = "d"
        BY <3>1, OwnedNames
      <3> QED BY <1>3, <1>4, <2>1, <3>2, OwnedNames
    <2> QED BY <1>3, <1>4, <2>3, <2>4 DEF Procs
  <1> QED BY <1>5, <1>6

LEMMA AcceptedStep ==
    TypeInv /\ ControlInv /\ ProcInv /\ LockInv /\ TreeInv /\ [Next]_vars
        => AcceptedInv'
  <1> SUFFICES ASSUME TypeInv, ControlInv, ProcInv, LockInv, TreeInv, [Next]_vars,
                      outcome' = "analyzed"
               PROVE  /\ \A f \in Trio : tree'[f] = cur'
                      /\ tree'["marker"] \in Procs
    BY DEF AcceptedInv
  <1>1. CASE outcome = "analyzed"
    <2>1. tree' = tree /\ cur' = cur BY <1>1, AnalyzedStable DEF TreeInv
    <2> QED BY <1>1, <2>1 DEF TreeInv, AcceptedInv
  <1>2. CASE outcome # "analyzed"
    <2>1. ValidateCurrent /\ Complete
      BY <1>2 DEF Next, ProcessStep, Clock, Supervisor, vars, resultVars,
         ScrubOne, ScrubDone, OpaqueGate, Spawn, Watch, Collect, Await,
         KillChild, KillGroup, Reap, ValidateCurrent, AnalyzeThumb, Terminal,
         PublishStartup
    <2>2. tree' = tree /\ cur' = cur /\ pc = "validate"
      BY <2>1 DEF ValidateCurrent, diskVars
    <2> QED BY <2>1, <2>2, CompleteIsCurs DEF TreeInv
  <1> QED BY <1>1, <1>2

LEMMA SidecarStep ==
    TypeInv /\ ControlInv /\ SidecarInv /\ [Next]_vars => SidecarInv'
  <1> SUFFICES ASSUME TypeInv, ControlInv, SidecarInv, [Next]_vars
               PROVE  SidecarInv'
    OBVIOUS
  <1>1. FlagType BY TypeParts DEF TypeInv
  <1>2. CASE AnalyzeThumb
    <2>1. ~current /\ current' = current
      BY <1>2 DEF AnalyzeThumb, ControlInv
    <2>2. thumbOk' => thumb' = "new"
      BY <1>2, Zenon DEF AnalyzeThumb, SidecarInv
    <2> QED BY <2>1, <2>2 DEF SidecarInv
  <1>3. CASE Terminal
    <2>1. thumb' = thumb /\ thumbOk' = thumbOk
      BY <1>3 DEF Terminal, diskVars
    <2>2. current' = current \/ ThumbExpected BY <1>3, Zenon DEF Terminal
    <2> QED BY <2>1, <2>2 DEF SidecarInv, ThumbExpected
  <1>4. CASE ~AnalyzeThumb /\ ~Terminal
    <2>1. UNCHANGED <<thumb, thumbOk, current>>
      BY <1>4 DEF Next, ProcessStep, Clock, Supervisor, vars, diskVars,
         resultVars, ScrubOne, ScrubDone, OpaqueGate, Spawn, Watch, Collect,
         Await, KillChild, KillGroup, Reap, ValidateCurrent, PublishStartup
    <2> QED BY <2>1 DEF SidecarInv, ThumbExpected
  <1> QED BY <1>2, <1>3, <1>4

-----------------------------------------------------------------------------
(* The theorems.                                                           *)

LEMMA InductiveInit == Init => IInv
  <1> SUFFICES ASSUME Init PROVE IInv
    OBVIOUS
  <1>1. TypeInv BY TypeInit
  <1>2. FileType /\ ProcType /\ ChanType /\ FlagType /\ SuperType
    BY <1>1, TypeParts DEF TypeInv
  <1>3. ControlInv BY <1>2 DEF Init, ControlInv, Attending, SuperType, Procs
  <1>4. ProcInv
    BY <1>2 DEF Init, ProcInv, Settled, Alive, Absent, Booting, Leaving, Dead,
                Attending, SuperType, Procs
  <1>5. LockInv BY DEF Init, LockInv, Absent, Analyzing, Leaving
  <1>6. Swept = {} BY SweptNames DEF Init
  <1>7. \A p \in Procs, f \in Owned : tree[f] # p BY DEF Init, Procs
  <1>8. TreeInv
    BY <1>6, <1>7 DEF Init, TreeInv, OwnersInv, QuietInv, ScrubInv, LeavesOne,
       PrefixInv, AcceptedInv, Procs
  <1>9. SidecarInv BY DEF Init, SidecarInv
  <1> QED BY <1>1, <1>3, <1>4, <1>5, <1>8, <1>9 DEF IInv, TypeInv

LEMMA InductiveStep == IInv /\ [Next]_vars => IInv'
  <1> SUFFICES ASSUME IInv, [Next]_vars PROVE IInv'
    OBVIOUS
  <1>1. /\ TypeInv /\ ControlInv /\ ProcInv /\ LockInv /\ TreeInv /\ SidecarInv
        /\ OwnersInv /\ QuietInv /\ ScrubInv /\ PrefixInv /\ AcceptedInv
    BY DEF IInv, TypeInv, TreeInv
  <1>2. TypeInv' /\ ControlInv' BY <1>1, TypeStep, ControlStep
  <1>3. ProcInv' BY <1>1, ProcInvProcess, ProcInvSupervisor DEF Next
  <1>4. LockInv' /\ SidecarInv' BY <1>1, LockStep, SidecarStep
  <1>5. OwnersInv' /\ QuietInv' /\ ScrubInv'
    BY <1>1, OwnersStep, QuietStep, ScrubInvStep
  <1>6. PrefixInv' /\ AcceptedInv' BY <1>1, PrefixStep, AcceptedStep
  <1> QED BY <1>2, <1>3, <1>4, <1>5, <1>6 DEF IInv, TypeInv, TreeInv

LEMMA Inductive == Spec => []IInv
  BY InductiveInit, InductiveStep, PTL DEF Spec

\* However the supervisor, the JVMs, their launchers and the clock interleave,
\* every variable keeps its type, and when the image is done no launcher is
\* left unreaped and no JVM lives that was not at least sent SIGKILL.
THEOREM ProcessesAreTornDown == Spec => []ProcessesOK
  <1>1. IInv => ProcessesOK
    <2> SUFFICES ASSUME IInv PROVE ProcessesOK
      OBVIOUS
    <2>1. TypeOK /\ ProcInv BY DEF IInv
    <2>2. TreeTornDown
      BY <2>1 DEF TreeTornDown, ProcInv, Settled, Attending
    <2> QED BY <2>1, <2>2 DEF ProcessesOK
  <1> QED BY <1>1, Inductive, PTL

\* What is certified is of one process of this run, the one the report row
\* describes, and stands beside the sidecar this run's analyzer made or none:
\* for every log, ceiling and number of failing operations.
THEOREM Certified == Spec => []CertifiedIsThisRuns
  <1>1. IInv => CertifiedIsThisRuns
    <2> SUFFICES ASSUME IInv, current PROVE AcceptedIsThisRuns /\ SidecarMatches
      BY DEF CertifiedIsThisRuns, AcceptedIsThisRuns, SidecarMatches
    <2>1. FileType /\ SuperType BY TypeParts DEF IInv, TypeInv
    <2>2. ControlInv /\ AcceptedInv /\ SidecarInv BY DEF IInv, TreeInv
    <2>3. outcome = "analyzed" /\ pc \in {"startup", "done"} BY <2>2 DEF ControlInv
    <2>4. Reported = cur
      BY <2>1, <2>2, <2>3 DEF Reported, ControlInv, SuperType, Procs
    <2>5. AcceptedIsThisRuns
      BY <2>2, <2>3, <2>4 DEF AcceptedIsThisRuns, AcceptedInv
    <2>6. SidecarMatches
      BY <2>2 DEF SidecarMatches, SidecarInv, ThumbExpected
    <2> QED BY <2>5, <2>6
  <1> QED BY <1>1, Inductive, PTL

\* An image that did not become current, and whose scrub met no error, leaves
\* no complete marked export, though two killed JVMs may each still be
\* finishing a move: two files are not four.
THEOREM NotCurrent == Spec => []NotCurrentIsIncomplete
  <1>1. IInv => NotCurrentIsIncomplete
    <2> SUFFICES ASSUME IInv, pc = "done", ~current, ~scrubErr, Complete
                 PROVE  FALSE
      BY DEF NotCurrentIsIncomplete
    <2>1. FileType BY TypeParts DEF IInv, TypeInv
    <2>2. ControlInv /\ ScrubInv BY DEF IInv, TreeInv
    <2>3. after = "drop" /\ Swept = Owned BY <2>2, SweptNames DEF ControlInv
    <2>4. LeavesOne("t") /\ LeavesOne("d")
      BY <2>2, <2>3 DEF ScrubInv, Before, Procs
    <2>5. \A f \in Owned : tree[f] = "t" \/ tree[f] = "d"
      BY <2>1, <2>2, <2>3 DEF ScrubInv, Complete, FileType, Procs
    <2>6. \A f, g \in Owned : tree[f] = tree[g] => f = g
      BY <2>3, <2>4, <2>5 DEF LeavesOne
    <2>7. {"functions", "disasm", "decompiled"} \subseteq Owned BY OwnedNames
    <2> QED BY <2>5, <2>6, <2>7
  <1> QED BY <1>1, Inductive, PTL

\* Once an image's export is current, no step of any process replaces or
\* removes one of its files.
THEOREM CurrentStays == Spec => CurrentIsStable
  <1>1. IInv /\ [Next]_vars => [current => UNCHANGED tree]_vars
    <2> SUFFICES ASSUME IInv, [Next]_vars, current PROVE UNCHANGED tree
      OBVIOUS
    <2>1. outcome = "analyzed" BY DEF IInv, ControlInv
    <2> QED BY <2>1, AnalyzedStable DEF IInv, TypeInv, TreeInv
  <1> QED BY <1>1, Inductive, PTL DEF Spec, CurrentIsStable

=============================================================================
