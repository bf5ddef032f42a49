---------------------------- MODULE Thumb_proofs ----------------------------
(***************************************************************************)
(* Proofs about ThumbCoordinator for every number of regions, functions    *)
(* and invocations (what the assembly is handed it accepts, the sidecar is *)
(* whole whenever it is there, and it changes only by a run that went      *)
(* through all regions), about ThumbRegion for every capture (reading it   *)
(* as a stream comes to what reading it whole does), and of the two: what  *)
(* the one parses is what the other expects of a parsed region.            *)
(*                                                                         *)
(* Sums, ranges, pairings and the like are recursive functions; what they  *)
(* compute is proved by induction over the length, in the form of the      *)
(* least counterexample.                                                   *)
(***************************************************************************)
EXTENDS ThumbCoordinator, ThumbRegion, FiniteSetTheorems, SequenceTheorems,
        WellFoundedInduction, TLAPS

-----------------------------------------------------------------------------
(***************************************************************************)
(* The coordinator.                                                        *)
(***************************************************************************)
-----------------------------------------------------------------------------
(* The inductive invariant.                                                *)

\* The steps on one region, and the ones after the last region.
Looping == {"carve", "stale", "attempt", "parse", "clean", "cleanTerminal",
            "select"}
Ended == {"check", "open", "write", "commit"}

Runs == RunsOf(records)

\* Where the loop is, and what the region in progress has to show so far.
LoopInv ==
    /\ pc = "idle" =>
         /\ records = <<>> /\ spills = <<>> /\ attempts = <<>> /\ summary = Zero
         /\ region = 1 /\ prod = 1 /\ attempt = NoAttempt
         /\ ~rizinAttempted
    /\ pc \in Looping => Len(records) = region - 1
    /\ pc \in Ended => Len(records) = N
    /\ pc # "idle" => run > 0
    /\ pc # "drop" => result = "none"
    /\ pc = "carve" => prod = 1
    /\ pc \in Looping /\ prod = 1 => attempts = <<>>
    /\ pc \in Looping /\ prod = 2 =>
         /\ rizin /\ Len(attempts) = 1
         /\ attempts[1].producer = "radare2" /\ ~attempts[1].ok
    /\ pc \in {"parse", "select"} => attempt.ok /\ attempt.captured
    /\ pc = "clean" => ~attempt.ok

\* rec is the record of region i.
RecordOK(rec, i) ==
    /\ rec.start = i
    /\ Len(rec.attempts) \in 1..2
    /\ \A j \in DOMAIN rec.attempts :
         /\ rec.attempts[j].producer = Producers[j]
         /\ rec.attempts[j].ok => rec.attempts[j].stdout
         /\ rec.attempts[j].ok => j = Len(rec.attempts)
    /\ Len(rec.attempts) = 2 => rizin
    /\ Len(rec.runs) \in 0..1
    /\ LET last == rec.attempts[Len(rec.attempts)]
       IN  /\ last.ok <=> Len(rec.runs) = 1
           /\ last.ok => rec.runs[1].producer = last.producer
           /\ ~last.ok /\ rizin => Len(rec.attempts) = 2

RecordsInv == \A i \in 1..Len(records) : RecordOK(records[i], i)

\* Rizin was attempted exactly if a record says so, or for this region.
RizinInv ==
    pc \in Looping \cup Ended =>
        (rizinAttempted <=>
            \/ \E i \in 1..Len(records) : Len(records[i].attempts) = 2
            \/ /\ prod = 2
               /\ pc \in {"attempt", "parse", "clean", "cleanTerminal", "select"})

\* What an attempt a of region i recorded in run k is so of these files.
TrueOf(a, i, captures, spilled, k) ==
    /\ a.stdout => captures[StdoutPath(i, a.producer)] = <<k, a.producer>>
    /\ ~a.ok => spilled[FragmentPath(i, a.producer)] = NoSpill

TrueOnDisk(a, i) == TrueOf(a, i, stdout, frags, run)

DiskInv ==
    /\ \A i \in 1..Len(records) : \A j \in 1..Len(records[i].attempts) :
         TrueOnDisk(records[i].attempts[j], i)
    /\ pc \in Looping =>
         \A j \in 1..Len(attempts) : TrueOnDisk(attempts[j], region)
    /\ pc \in {"parse", "clean", "select"} /\ attempt.captured =>
         stdout[Path] = Own

\* The functions of a run, counted.
RunOK(r) == r.count > 0 /\ r.accepted + r.quarantined = r.count

\* The spills hold, run by run and slot by slot, what the records claim.
SpillInv ==
    pc \in Looping \cup Ended =>
        /\ Len(spills) = Len(Runs)
        /\ \A j \in 1..Len(Runs) :
             /\ RunOK(Runs[j]) /\ Runs[j].first = NextFunction(Runs)[j - 1]
             /\ spills[j][1] \in 1..Len(records)
             /\ frags[spills[j]].slots = Runs[j].count
             /\ frags[spills[j]].accepted = Runs[j].accepted
        /\ pc = "select" =>
             /\ frags[FragPath].slots > 0
             /\ frags[FragPath].accepted <= frags[FragPath].slots

\* The summary counts regions, producers and functions.
SummaryInv ==
    /\ summary.raw <= Len(records) * MaxFns
    /\ summary.accepted + summary.quarantined = summary.raw
    /\ summary.raw = NextFunction(Runs)[Len(Runs)]
    /\ summary.succeeded + summary.failed = Len(records)
    /\ summary.radare2 + summary.rizin = summary.succeeded
    /\ Runs \in Seq(FnRuns) /\ summary.succeeded = Len(Runs)
    /\ summary.rizin > 0 <=>
         \E i \in 1..Len(records) :
            Len(records[i].runs) = 1 /\ Len(records[i].attempts) = 2
    /\ summary.failed > 0 <=>
         \E i \in 1..Len(records) : Len(records[i].runs) = 0
    /\ pc \in {"open", "write", "commit"} => summary.succeeded > 0

IInv == /\ TypeOK /\ LoopInv /\ RecordsInv /\ RizinInv /\ DiskInv /\ SpillInv
        /\ SummaryInv /\ SidecarIsWhole

-----------------------------------------------------------------------------
(* The recursive operators.                                                *)

\* Every set of natural numbers has a least one.
LEMMA LeastNat ==
    ASSUME NEW T, T \subseteq Nat, T # {}
    PROVE  \E n \in T : \A m \in T : n <= m
  <1>1. PICK n \in T : \A m \in T : ~(<<m, n>> \in OpToRel(<, Nat))
    BY NatLessThanWellFounded, WFMin
  <1>2. ASSUME NEW m \in T PROVE n <= m
    <2>1. <<m, n>> \in Nat \X Nat OBVIOUS
    <2>2. ~(m < n) BY <1>1, <2>1 DEF OpToRel
    <2> QED BY <2>2
  <1> QED BY <1>1, <1>2

\* The bounds are natural numbers, and so are what they bound.
LEMMA Bounds ==
    /\ N \in Nat /\ N > 0 /\ MaxFns \in Nat /\ MaxFns > 0 /\ MaxRuns \in Nat
    /\ N * MaxFns \in Nat
    /\ \A r \in FnRuns : r.count \in Nat
    /\ \A n \in 0..N : n * MaxFns \in Nat /\ n * MaxFns <= N * MaxFns
  <1>1. N \in Nat /\ N > 0 /\ MaxFns \in Nat /\ MaxFns > 0 /\ MaxRuns \in Nat
    BY CoordinatorAssumption
  <1>2. \A n \in 0..N : n * MaxFns \in Nat /\ n * MaxFns <= N * MaxFns
    BY <1>1
  <1>3. N * MaxFns \in Nat BY <1>1
  <1> QED BY <1>1, <1>2, <1>3 DEF FnRuns, Counts

LEMMA RunsDef ==
    ASSUME NEW recs \in Seq(Records)
    PROVE  \E f : /\ f[0] = <<>>
                  /\ \A i \in 1..Len(recs) : f[i] = f[i - 1] \o recs[i].runs
                  /\ RunsOf(recs) = f[Len(recs)]
  <1> DEFINE Step(f, i) == IF i = 0 THEN <<>> ELSE f[i - 1] \o recs[i].runs
             Def(f, n) == f = [i \in 0..n |-> Step(f, i)]
             Bad == {n \in Nat : n <= Len(recs) /\ \A f : ~Def(f, n)}
  <1>1. Len(recs) \in Nat OBVIOUS
  <1>2. Bad = {}
    <2> SUFFICES ASSUME Bad # {} PROVE FALSE OBVIOUS
    <2>1. Bad \subseteq Nat OBVIOUS
    <2>2. PICK n \in Bad : \A m \in Bad : n <= m
      <3> HIDE DEF Bad
      <3> QED BY <2>1, LeastNat
    <2>3. n # 0
      <3>1. Def([i \in {0} |-> <<>>], 0) OBVIOUS
      <3> QED BY <3>1
    <2>4. n \in Nat /\ n - 1 \in Nat /\ n <= Len(recs) BY <2>3
    <2>5. n - 1 \notin Bad
      <3> HIDE DEF Bad
      <3> QED BY <2>2, <2>4
    <2>6. PICK f : Def(f, n - 1)
      <3> HIDE DEF Def
      <3> QED BY <1>1, <2>4, <2>5
    <2>7. Def([i \in 0..n |-> IF i = n THEN f[n - 1] \o recs[n].runs ELSE f[i]], n)
      BY <2>3, <2>4, <2>6
    <2> QED BY <2>7
  <1>3. PICK f : Def(f, Len(recs))
    <2> HIDE DEF Def
    <2> QED BY <1>1, <1>2
  <1>4. \E g : Def(g, Len(recs)) /\ RunsOf(recs) = g[Len(recs)]
    BY <1>3, Zenon DEF RunsOf
  <1>5. PICK g : Def(g, Len(recs)) /\ RunsOf(recs) = g[Len(recs)] BY <1>4
  <1>6. \A i \in 0..Len(recs) : g[i] = Step(g, i)
    <2> HIDE DEF Step
    <2> QED BY <1>5, Zenon
  <1>7. g[0] = <<>> BY <1>1, <1>6
  <1>8. ASSUME NEW i \in 1..Len(recs) PROVE g[i] = g[i - 1] \o recs[i].runs
    <2>1. i \in 0..Len(recs) /\ i # 0 BY <1>1
    <2>2. g[i] = Step(g, i)
      <3> HIDE DEF Step
      <3> QED BY <1>6, <2>1
    <2> QED BY <2>1, <2>2, Zenon
  <1> QED BY <1>5, <1>7, <1>8

\* Another region's runs come last.
LEMMA RunsAppend ==
    ASSUME NEW recs \in Seq(Records), NEW rec \in Records
    PROVE  RunsOf(Append(recs, rec)) = RunsOf(recs) \o rec.runs
  <1> DEFINE more == Append(recs, rec)
  <1>1. /\ more \in Seq(Records) /\ Len(more) = Len(recs) + 1
        /\ Len(recs) \in Nat /\ more[Len(recs) + 1] = rec
        /\ \A i \in 1..Len(recs) : more[i] = recs[i]
    OBVIOUS
  <1> HIDE DEF more
  <1>2. PICK f : /\ f[0] = <<>>
                 /\ \A i \in 1..Len(recs) : f[i] = f[i - 1] \o recs[i].runs
                 /\ RunsOf(recs) = f[Len(recs)]
    BY RunsDef
  <1>3. PICK g : /\ g[0] = <<>>
                 /\ \A i \in 1..Len(more) : g[i] = g[i - 1] \o more[i].runs
                 /\ RunsOf(more) = g[Len(more)]
    BY <1>1, RunsDef
  <1> DEFINE Bad == {i \in Nat : i <= Len(recs) /\ f[i] # g[i]}
  <1>4. Bad = {}
    <2> SUFFICES ASSUME Bad # {} PROVE FALSE OBVIOUS
    <2>1. Bad \subseteq Nat OBVIOUS
    <2>2. PICK n \in Bad : \A m \in Bad : n <= m
      <3> HIDE DEF Bad
      <3> QED BY <2>1, LeastNat
    <2>3. n # 0 BY <1>1, <1>2, <1>3
    <2>4. n \in 1..Len(recs) /\ n \in 1..Len(more) /\ f[n] # g[n] BY <1>1, <2>3
    <2>5. n - 1 \notin Bad
      <3> HIDE DEF Bad
      <3> QED BY <2>1, <2>2
    <2>6. f[n - 1] = g[n - 1] BY <1>1, <2>4, <2>5
    <2>7. f[n] = f[n - 1] \o recs[n].runs BY <1>2, <2>4
    <2>8. g[n] = g[n - 1] \o more[n].runs BY <1>3, <2>4
    <2> QED BY <1>1, <2>4, <2>6, <2>7, <2>8
  <1>5. g[Len(recs)] = RunsOf(recs) BY <1>1, <1>2, <1>4
  <1>6. g[Len(more)] = g[Len(recs)] \o rec.runs
    <2>1. Len(more) \in 1..Len(more) /\ Len(more) - 1 = Len(recs)
          /\ more[Len(more)] = rec
      BY <1>1
    <2>2. g[Len(more)] = g[Len(more) - 1] \o more[Len(more)].runs BY <1>3, <2>1
    <2> QED BY <2>1, <2>2
  <1> QED BY <1>3, <1>5, <1>6 DEF more

LEMMA RunsEmpty == RunsOf(<<>>) = <<>>
  <1>1. <<>> \in Seq(Records) /\ Len(<<>>) = 0 OBVIOUS
  <1> QED BY <1>1, RunsDef

LEMMA NextDef ==
    ASSUME NEW runs \in Seq(FnRuns)
    PROVE  /\ NextFunction(runs)[0] = 0
           /\ \A j \in 1..Len(runs) :
                NextFunction(runs)[j] = NextFunction(runs)[j - 1] + runs[j].count
  <1> DEFINE Step(f, j) == IF j = 0 THEN 0 ELSE f[j - 1] + runs[j].count
             Def(f, n) == f = [j \in 0..n |-> Step(f, j)]
             Bad == {n \in Nat : n <= Len(runs) /\ \A f : ~Def(f, n)}
  <1>1. Len(runs) \in Nat OBVIOUS
  <1>2. Bad = {}
    <2> SUFFICES ASSUME Bad # {} PROVE FALSE OBVIOUS
    <2>1. Bad \subseteq Nat OBVIOUS
    <2>2. PICK n \in Bad : \A m \in Bad : n <= m
      <3> HIDE DEF Bad
      <3> QED BY <2>1, LeastNat
    <2>3. n # 0
      <3>1. Def([j \in {0} |-> 0], 0) OBVIOUS
      <3> QED BY <3>1
    <2>4. n \in Nat /\ n - 1 \in Nat /\ n <= Len(runs) BY <2>3
    <2>5. n - 1 \notin Bad
      <3> HIDE DEF Bad
      <3> QED BY <2>2, <2>4
    <2>6. PICK f : Def(f, n - 1)
      <3> HIDE DEF Def
      <3> QED BY <1>1, <2>4, <2>5
    <2>7. Def([j \in 0..n |-> IF j = n THEN f[n - 1] + runs[n].count ELSE f[j]], n)
      BY <2>3, <2>4, <2>6
    <2> QED BY <2>7
  <1>3. PICK f : Def(f, Len(runs))
    <2> HIDE DEF Def
    <2> QED BY <1>1, <1>2
  <1>4. Def(NextFunction(runs), Len(runs)) BY <1>3, Zenon DEF NextFunction
  <1> DEFINE g == NextFunction(runs)
  <1>5. \A j \in 0..Len(runs) : g[j] = Step(g, j)
    <2> HIDE DEF Step, g
    <2> QED BY <1>4, Zenon DEF g
  <1>6. g[0] = 0 BY <1>1, <1>5
  <1>7. ASSUME NEW j \in 1..Len(runs) PROVE g[j] = g[j - 1] + runs[j].count
    <2>1. j \in 0..Len(runs) /\ j # 0 BY <1>1
    <2>2. g[j] = Step(g, j)
      <3> HIDE DEF Step, g
      <3> QED BY <1>5, <2>1
    <2> QED BY <2>1, <2>2, Zenon
  <1> QED BY <1>6, <1>7

LEMMA NextNat ==
    ASSUME NEW runs \in Seq(FnRuns), NEW j \in 0..Len(runs)
    PROVE  NextFunction(runs)[j] \in Nat
  <1> DEFINE g == NextFunction(runs)
             Bad == {n \in Nat : n <= Len(runs) /\ g[n] \notin Nat}
  <1>1. /\ g[0] = 0
        /\ \A n \in 1..Len(runs) : g[n] = g[n - 1] + runs[n].count
        /\ \A n \in 1..Len(runs) : runs[n].count \in Nat
    BY NextDef, Bounds
  <1> HIDE DEF g
  <1>2. Bad = {}
    <2> SUFFICES ASSUME Bad # {} PROVE FALSE OBVIOUS
    <2>1. Bad \subseteq Nat OBVIOUS
    <2>2. PICK n \in Bad : \A m \in Bad : n <= m
      <3> HIDE DEF Bad
      <3> QED BY <2>1, LeastNat
    <2>3. n # 0 /\ n \in 1..Len(runs) /\ g[n] \notin Nat BY <1>1
    <2>4. n - 1 \notin Bad
      <3> HIDE DEF Bad
      <3> QED BY <2>2, <2>3
    <2>5. g[n - 1] \in Nat BY <2>3, <2>4
    <2> QED BY <1>1, <2>3, <2>5
  <1> QED BY <1>2 DEF g

LEMMA NextAppend ==
    ASSUME NEW runs \in Seq(FnRuns), NEW r \in FnRuns
    PROVE  /\ \A j \in 0..Len(runs) :
                NextFunction(Append(runs, r))[j] = NextFunction(runs)[j]
           /\ NextFunction(Append(runs, r))[Len(runs) + 1] =
                NextFunction(runs)[Len(runs)] + r.count
  <1> DEFINE more == Append(runs, r)
             f == NextFunction(runs)
             g == NextFunction(more)
             Bad == {n \in Nat : n <= Len(runs) /\ f[n] # g[n]}
  <1>1. /\ more \in Seq(FnRuns) /\ Len(more) = Len(runs) + 1
        /\ Len(runs) \in Nat /\ more[Len(runs) + 1] = r
        /\ \A j \in 1..Len(runs) : more[j] = runs[j]
    OBVIOUS
  <1> HIDE DEF more
  <1>2. f[0] = 0 /\ \A j \in 1..Len(runs) : f[j] = f[j - 1] + runs[j].count
    BY NextDef
  <1>3. g[0] = 0 /\ \A j \in 1..Len(more) : g[j] = g[j - 1] + more[j].count
    BY <1>1, NextDef
  <1> HIDE DEF f, g
  <1>4. Bad = {}
    <2> SUFFICES ASSUME Bad # {} PROVE FALSE OBVIOUS
    <2>1. Bad \subseteq Nat OBVIOUS
    <2>2. PICK n \in Bad : \A m \in Bad : n <= m
      <3> HIDE DEF Bad
      <3> QED BY <2>1, LeastNat
    <2>3. n # 0 BY <1>2, <1>3
    <2>4. n \in 1..Len(runs) /\ n \in 1..Len(more) /\ f[n] # g[n] BY <1>1, <2>3
    <2>5. n - 1 \notin Bad
      <3> HIDE DEF Bad
      <3> QED BY <2>1, <2>2
    <2>6. f[n - 1] = g[n - 1] BY <1>1, <2>4, <2>5
    <2>7. f[n] = f[n - 1] + runs[n].count BY <1>2, <2>4
    <2>8. g[n] = g[n - 1] + more[n].count BY <1>3, <2>4
    <2> QED BY <1>1, <2>4, <2>6, <2>7, <2>8
  <1>5. \A j \in 0..Len(runs) : g[j] = f[j] BY <1>1, <1>4
  <1>6. g[Len(runs) + 1] = f[Len(runs)] + r.count
    <2>1. /\ Len(runs) + 1 \in 1..Len(more) /\ (Len(runs) + 1) - 1 = Len(runs)
          /\ Len(runs) \in 0..Len(runs)
      BY <1>1
    <2>2. g[Len(runs) + 1] = g[(Len(runs) + 1) - 1] + more[Len(runs) + 1].count
      BY <1>3, <2>1
    <2> QED BY <1>1, <1>5, <2>1, <2>2
  <1> QED BY <1>5, <1>6 DEF f, g, more

-----------------------------------------------------------------------------
(* Types.                                                                  *)

CoreType ==
    /\ stdout \in [Paths -> Written \cup {NoFile}]
    /\ frags \in [Paths -> Spills]
    /\ sidecar.kind \in {"none", "torn", "doc"} /\ temp \in BOOLEAN
    /\ run \in 0..MaxRuns
    /\ pc \in {"idle", "carve", "stale", "attempt", "parse", "clean",
               "cleanTerminal", "select", "check", "open", "write", "commit",
               "drop"}
    /\ rizin \in BOOLEAN /\ rizinAttempted \in BOOLEAN
    /\ region \in Regions /\ prod \in 1..2
    /\ attempt \in [ok : BOOLEAN, captured : BOOLEAN]
    /\ attempts \in Seq(Attempts)
    /\ spills \in Seq(Paths)
    /\ result \in {"none", "ok", "err", "terminal"}

TallyType ==
    /\ Len(attempts) <= 1
    /\ records \in Seq(Records) /\ Len(records) <= N
    /\ summary \in Summaries

LEMMA TypeParts == TypeOK <=> CoreType /\ TallyType
  BY Zenon DEF TypeOK, CoreType, TallyType

LEMMA TheProducers ==
    /\ Producers[1] = "radare2" /\ Producers[2] = "rizin"
    /\ \A i \in 1..2 : Producers[i] \in ProducerSet
    /\ \A i, j \in 1..2 : Producers[i] = Producers[j] => i = j
  <1>1. 1..2 = {1, 2} OBVIOUS
  <1> QED BY <1>1 DEF Producers, ProducerSet

LEMMA CurrentPath ==
    ASSUME region \in Regions, prod \in 1..2
    PROVE  /\ Path \in Paths /\ FragPath \in Paths
           /\ Path = <<region, Producers[prod]>>
           /\ FragPath = <<region, Producers[prod]>>
  BY TheProducers DEF Path, FragPath, StdoutPath, FragmentPath, Paths

\* A new process starts from what every process starts from.
LEMMA ForgetType ==
    ASSUME Forget, UNCHANGED <<stdout, sidecar, temp, run>>, CoreType,
           frags' \in [Paths -> Spills]
    PROVE  CoreType'
  <1>1. region' \in Regions /\ prod' \in 1..2
    BY Bounds DEF Forget, Regions
  <1>2. attempts' \in Seq(Attempts) /\ spills' \in Seq(Paths) BY DEF Forget
  <1>3. attempt' \in [ok : BOOLEAN, captured : BOOLEAN] BY DEF Forget, NoAttempt
  <1>4. pc' = "idle" /\ result' = "none" BY DEF Forget
  <1>5. rizin' \in BOOLEAN /\ rizinAttempted' \in BOOLEAN
    BY Zenon DEF Forget
  <1> QED BY <1>1, <1>2, <1>3, <1>4, <1>5 DEF CoreType

LEMMA SpillTypes ==
    /\ NoSpill \in Spills
    /\ run \in 0..MaxRuns =>
        /\ [run |-> run, slots |-> 0, accepted |-> 0] \in Spills
        /\ \A s \in Stats :
             [run |-> run, slots |-> s.raw, accepted |-> s.accepted] \in Spills
  BY Bounds DEF NoSpill, Spills, Stats

LEMMA CoreTypeStep == CoreType /\ LoopInv /\ [Next]_vars => CoreType'
  <1> SUFFICES ASSUME CoreType, LoopInv, [Next]_vars PROVE CoreType'
    OBVIOUS
  <1> USE DEF CoreType, disk, memory
  <1>0. /\ region \in Regions /\ prod \in 1..2 /\ run \in 0..MaxRuns
        /\ frags \in [Paths -> Spills] /\ N \in Nat /\ N > 0
        /\ Producers[prod] \in ProducerSet
        /\ frags \in [Paths -> Spills]
    BY Bounds, TheProducers
  <1>1. CASE Begin BY <1>1, Bounds DEF Begin
  <1>2. CASE Carve BY <1>2 DEF Carve, Abort
  <1>3. ASSUME RemoveFragments PROVE frags' \in [Paths -> Spills]
    BY <1>3, CurrentPath, SpillTypes DEF RemoveFragments
  <1>4. CASE RemoveStale
    <2>1. frags' \in [Paths -> Spills] BY <1>3, <1>4 DEF RemoveStale
    <2>2. rizinAttempted' \in BOOLEAN BY <1>4 DEF RemoveStale, MarkAttempted
    <2> QED BY <1>4, <2>1, <2>2 DEF RemoveStale, Abort
  <1>5. CASE RunAttempt
    <2>1. stdout' \in [Paths -> Written \cup {NoFile}]
      <3>1. Path \in Paths BY CurrentPath
      <3>2. Own \in Written
        BY <1>0, <1>5, Bounds DEF RunAttempt, LoopInv, Own, Written
      <3>3. PICK left : left \in {NoFile, Own, stdout[Path]}
                        /\ stdout' = [stdout EXCEPT ![Path] = left]
        BY <1>5 DEF RunAttempt
      <3> QED BY <3>1, <3>2, <3>3
    <2>2. attempt' \in [ok : BOOLEAN, captured : BOOLEAN]
      <3>1. PICK r \in Contract!AttemptResults :
               attempt' = [ok |-> r.outcome = "ok", captured |-> r.captured]
        BY <1>5 DEF RunAttempt
      <3>2. r.captured \in BOOLEAN /\ (r.outcome = "ok") \in BOOLEAN
        BY <3>1 DEF Contract!AttemptResults
      <3> QED BY <3>1, <3>2
    <2>3. pc' \in {"parse", "clean", "cleanTerminal"} BY <1>5 DEF RunAttempt
    <2> QED BY <1>5, <2>1, <2>2, <2>3 DEF RunAttempt
  <1>6. CASE Parse
    <2>1. frags' \in [Paths -> Spills]
      BY <1>0, <1>6, CurrentPath, SpillTypes DEF Parse
    <2>2. attempt' \in [ok : BOOLEAN, captured : BOOLEAN] BY <1>6 DEF Parse
    <2> QED BY <1>6, <2>1, <2>2 DEF Parse
  <1>7. Recorded \in Seq(Attempts)
    BY <1>0 DEF Recorded, AttemptRecord, Attempts
  <1>8. Advance => region' \in Regions /\ prod' \in 1..2 /\ pc' \in {"check", "carve"}
    BY <1>0 DEF Advance, Regions
  <1>9. CASE CleanFailed
    <2>1. frags' \in [Paths -> Spills] BY <1>3, <1>9 DEF CleanFailed
    <2>2. attempt' \in [ok : BOOLEAN, captured : BOOLEAN]
      <3>1. attempt' = NoAttempt \/ attempt' = attempt
        BY <1>9, Zenon DEF CleanFailed
      <3>2. NoAttempt \in [ok : BOOLEAN, captured : BOOLEAN] BY DEF NoAttempt
      <3> QED BY <3>1, <3>2
    <2>3. /\ attempts' \in Seq(Attempts) /\ region' \in Regions /\ prod' \in 1..2
          /\ pc' \in {"stale", "check", "carve", "drop"}
      <3>1. \/ /\ attempts' = Recorded /\ prod' = 2 /\ pc' = "stale"
               /\ region' = region
            \/ attempts' = <<>> /\ Advance
            \/ /\ pc' = "drop" /\ attempts' = attempts /\ prod' = prod
               /\ region' = region
        BY <1>9 DEF CleanFailed, Abort
      <3>2. CASE attempts' = <<>> /\ Advance BY <1>8, <3>2
      <3> QED BY <1>0, <1>7, <3>1, <3>2
    <2> QED BY <1>9, <2>1, <2>2, <2>3 DEF CleanFailed, Abort
  <1>10. CASE CleanTerminal
    <2>1. frags' \in [Paths -> Spills] BY <1>3, <1>10 DEF CleanTerminal
    <2> QED BY <1>10, <2>1 DEF CleanTerminal, Abort
  <1>11. CASE Select
    <2>1. spills' \in Seq(Paths) BY <1>11, CurrentPath DEF Select
    <2> QED BY <1>8, <1>11, <2>1 DEF Select, NoAttempt
  <1>12. CASE CheckSummary BY <1>12 DEF CheckSummary, Abort
  <1>13. CASE OpenTemp BY <1>13 DEF OpenTemp, Abort
  <1>14. CASE WriteTemp BY <1>14 DEF WriteTemp, Abort
  <1>15. CASE Commit
    <2>1. Assembled.kind = "doc" BY DEF Assembled, Doc
    <2>2. sidecar' = Assembled \/ sidecar' = sidecar BY <1>15 DEF Commit
    <2>3. sidecar'.kind \in {"none", "torn", "doc"} BY <2>1, <2>2
    <2> QED BY <1>15, <2>3 DEF Commit, Abort
  <1>16. CASE DropSpills
    <2>1. frags' \in [Paths -> Spills] BY <1>0, <1>16, SpillTypes DEF DropSpills
    <2> QED BY <1>16, <2>1, ForgetType DEF DropSpills
  <1>17. CASE Crash BY <1>17, ForgetType DEF Crash
  <1>18. CASE UNCHANGED vars BY <1>18 DEF vars
  <1> QED
    BY <1>1, <1>2, <1>4, <1>5, <1>6, <1>9, <1>10, <1>11, <1>12, <1>13, <1>14,
       <1>15, <1>16, <1>17, <1>18, Zenon DEF Next

-----------------------------------------------------------------------------
(* The loop.                                                               *)

LEMMA LoopStep == TypeOK /\ LoopInv /\ [Next]_vars => LoopInv'
  <1> SUFFICES ASSUME TypeOK, LoopInv, [Next]_vars PROVE LoopInv'
    OBVIOUS
  <1>0. CoreType /\ TallyType BY TypeParts
  <1>a. /\ region \in 1..N /\ N \in Nat /\ N > 0 /\ prod \in 1..2 /\ run \in Nat
        /\ Producers[1] = "radare2"
        /\ records \in Seq(Records) /\ Len(records) \in Nat
    BY <1>0, Bounds, TheProducers DEF CoreType, TallyType, Regions
  <1>b. \A rec : Len(Append(records, rec)) = Len(records) + 1 BY <1>a
  <1>c. ASSUME Advance, pc \in Looping, Len(records') = Len(records) + 1,
               attempts' = <<>>, result' = result, run' = run
        PROVE  LoopInv'
    BY <1>a, <1>c DEF Advance, LoopInv, Looping, Ended
  <1> USE DEF LoopInv, Looping, Ended, disk, memory
  <1>1. CASE Begin BY <1>1, <1>a DEF Begin
  <1>2. CASE Carve BY <1>2 DEF Carve, Abort
  <1>4. CASE RemoveStale BY <1>4 DEF RemoveStale, Abort
  <1>5. CASE RunAttempt
    <2>1. PICK r \in Contract!AttemptResults :
             /\ attempt' = [ok |-> r.outcome = "ok", captured |-> r.captured]
             /\ pc' = CASE r.outcome = "ok" -> "parse"
                        [] r.outcome = "failed" -> "clean"
                        [] OTHER -> "cleanTerminal"
      BY <1>5 DEF RunAttempt
    <2>2. /\ r.outcome \in {"ok", "failed", "terminal"} /\ r.captured \in BOOLEAN
          /\ r.outcome = "ok" => r.captured
      BY <2>1 DEF Contract!AttemptResults
    <2>3. /\ pc' = "parse" => attempt'.ok /\ attempt'.captured
          /\ pc' = "clean" => ~attempt'.ok
          /\ pc' \in {"parse", "clean", "cleanTerminal"}
      BY <2>1, <2>2
    <2> QED BY <1>5, <2>3 DEF RunAttempt
  <1>6. CASE Parse
    <2>1. \/ pc' = "select" /\ attempt' = attempt
          \/ pc' = "clean" /\ attempt' = [attempt EXCEPT !.ok = FALSE]
      BY <1>6, Zenon DEF Parse
    <2>2. pc' = "clean" => ~attempt'.ok BY <1>0, <2>1 DEF CoreType
    <2> QED BY <1>6, <2>1, <2>2 DEF Parse
  <1>9. CASE CleanFailed
    <2>1. \/ /\ attempts' = Recorded /\ prod' = 2 /\ prod = 1 /\ rizin
             /\ pc' = "stale" /\ region' = region /\ records' = records
             /\ result' = result
          \/ /\ attempts' = <<>> /\ Advance /\ result' = result
             /\ \E rec : records' = Append(records, rec)
          \/ pc' = "drop"
      BY <1>9, Zenon DEF CleanFailed, Abort
    <2>2. pc = "clean" /\ run' = run /\ rizin' = rizin BY <1>9 DEF CleanFailed
    <2>3. CASE attempts' = Recorded /\ prod = 1 /\ prod' = 2 /\ rizin /\ pc' = "stale"
               /\ region' = region /\ records' = records /\ result' = result
      <3>1. attempts' = <<AttemptRecord>>
        BY <2>2, <2>3 DEF Recorded
      <3>2. AttemptRecord.producer = "radare2" /\ AttemptRecord.ok = attempt.ok
        BY <1>a, <2>3 DEF AttemptRecord
      <3>3. ~attempt.ok BY <2>2
      <3>4. Len(attempts') = 1 /\ attempts'[1] = AttemptRecord BY <3>1
      <3>5. attempts'[1].producer = "radare2" /\ ~attempts'[1].ok
        BY <3>2, <3>3, <3>4, Zenon
      <3> QED BY <1>a, <2>2, <2>3, <3>4, <3>5
    <2>4. CASE attempts' = <<>> /\ Advance /\ result' = result
               /\ \E rec : records' = Append(records, rec)
      BY <1>b, <1>c, <2>2, <2>4
    <2>5. CASE pc' = "drop" BY <2>2, <2>5
    <2> QED BY <2>1, <2>3, <2>4, <2>5
  <1>10. CASE CleanTerminal BY <1>10 DEF CleanTerminal, Abort
  <1>11. CASE Select
    <2>1. Len(records') = Len(records) + 1 BY <1>11, <1>b DEF Select
    <2> QED BY <1>11, <1>c, <2>1 DEF Select
  <1>12. CASE CheckSummary BY <1>12 DEF CheckSummary, Abort
  <1>13. CASE OpenTemp BY <1>13 DEF OpenTemp, Abort
  <1>14. CASE WriteTemp BY <1>14 DEF WriteTemp, Abort
  <1>15. CASE Commit BY <1>15 DEF Commit, Abort
  <1>16. CASE DropSpills BY <1>16 DEF DropSpills, Forget
  <1>17. CASE Crash BY <1>17 DEF Crash, Forget
  <1>18. CASE UNCHANGED vars BY <1>18 DEF vars
  <1> QED
    BY <1>1, <1>2, <1>4, <1>5, <1>6, <1>9, <1>10, <1>11, <1>12, <1>13, <1>14,
       <1>15, <1>16, <1>17, <1>18, Zenon DEF Next

-----------------------------------------------------------------------------
(* The records.                                                            *)

\* What a region that ends has recorded of its attempts.
LEMMA RecordedAttempts ==
    ASSUME TypeOK, LoopInv, pc \in {"clean", "select"}
    PROVE  /\ Recorded \in Seq(Attempts) /\ Len(Recorded) = prod
           /\ Recorded[prod] = AttemptRecord
           /\ AttemptRecord \in Attempts
           /\ AttemptRecord.producer = Producers[prod]
           /\ prod = 2 => /\ Recorded[1] = attempts[1] /\ attempts[1] \in Attempts
                          /\ attempts[1].producer = Producers[1] /\ ~attempts[1].ok
  <1>1. CoreType BY TypeParts
  <1>2. /\ attempts \in Seq(Attempts) /\ prod \in 1..2
        /\ Len(attempts) = prod - 1
        /\ prod = 2 => attempts[1].producer = "radare2" /\ ~attempts[1].ok
    <2>1. CASE prod = 1
      <3>1. attempts = <<>> BY <2>1 DEF LoopInv, Looping
      <3> QED BY <1>1, <2>1, <3>1 DEF CoreType
    <2>2. CASE prod = 2 BY <1>1, <2>2 DEF CoreType, LoopInv, Looping
    <2> QED BY <1>1, <2>1, <2>2 DEF CoreType
  <1>3. AttemptRecord \in Attempts
    BY <1>1, TheProducers DEF AttemptRecord, Attempts, CoreType
  <1>4. AttemptRecord.producer = Producers[prod] BY DEF AttemptRecord
  <1>5. Recorded \in Seq(Attempts) /\ Len(Recorded) = prod
        /\ Recorded[prod] = AttemptRecord
    BY <1>2, <1>3 DEF Recorded
  <1>6. prod = 2 => Recorded[1] = attempts[1] /\ attempts[1] \in Attempts
    BY <1>2, <1>3 DEF Recorded
  <1> QED BY <1>2, <1>3, <1>4, <1>5, <1>6, TheProducers

\* The record a region ends with is right.
LEMMA FailedRecord ==
    ASSUME TypeOK, LoopInv, pc = "clean", prod = 1 => ~rizin
    PROVE  /\ RegionRecord(Recorded, <<>>) \in Records
           /\ RecordOK(RegionRecord(Recorded, <<>>), region)
  <1> DEFINE rec == RegionRecord(Recorded, <<>>)
  <1>1. CoreType BY TypeParts
  <1>2. rec \in Records /\ rec.start = region /\ rec.attempts = Recorded
        /\ rec.runs = <<>>
    BY <1>1, RecordedAttempts DEF RegionRecord, Records, CoreType
  <1>3. ~AttemptRecord.ok BY DEF LoopInv, AttemptRecord
  <1>4. prod \in 1..2 /\ Len(Recorded) = prod BY <1>1, RecordedAttempts DEF CoreType
  <1>5. \A j \in 1..prod : /\ Recorded[j].producer = Producers[j]
                           /\ ~Recorded[j].ok
    <2>1. \A j \in 1..prod : j = prod \/ (prod = 2 /\ j = 1) BY <1>4
    <2> QED BY <1>3, <2>1, RecordedAttempts
  <1>6. prod = 2 => rizin BY DEF LoopInv, Looping
  <1>7. ~Recorded[prod].ok /\ (prod = 1 => ~rizin) BY <1>4, <1>5
  <1> HIDE DEF rec
  <1>8. RecordOK(rec, region)
    BY <1>2, <1>4, <1>5, <1>6, <1>7 DEF RecordOK
  <1> QED BY <1>2, <1>8 DEF rec

LEMMA SelectedRun ==
    ASSUME TypeOK, LoopInv, SpillInv, pc = "select"
    PROVE  LET r == FunctionRun(frags[FragPath])
           IN  /\ r \in FnRuns /\ RunOK(r) /\ r.first = summary.raw
               /\ r.count = frags[FragPath].slots
               /\ r.accepted = frags[FragPath].accepted
               /\ r.producer = Producers[prod]
               /\ frags[FragPath] \in Spills
  <1> DEFINE s == frags[FragPath]
             r == FunctionRun(s)
  <1>1. CoreType /\ TallyType BY TypeParts
  <1>2. s \in Spills BY <1>1, CurrentPath DEF CoreType
  <1>3. s.slots > 0 /\ s.accepted <= s.slots BY DEF SpillInv, Looping
  <1>4. s.slots \in 0..MaxFns /\ s.accepted \in 0..MaxFns BY <1>2 DEF Spills
  <1> HIDE DEF s
  <1>5. r.count = s.slots /\ r.accepted = s.accepted /\ r.first = summary.raw
        /\ r.quarantined = s.slots - s.accepted /\ r.producer = Producers[prod]
    BY DEF FunctionRun
  <1>6. MaxFns <= N * MaxFns
    <2>1. \A n, m \in Nat : n > 0 => m <= n * m OBVIOUS
    <2> QED BY <2>1, Bounds
  <1>7. 0..MaxFns \subseteq Counts BY <1>6, Bounds DEF Counts
  <1>8. summary.raw \in Counts BY <1>1 DEF TallyType, Summaries
  <1>9. r \in FnRuns
    <2>1. s.slots - s.accepted \in 0..MaxFns BY <1>3, <1>4, Bounds
    <2>2. Producers[prod] \in ProducerSet BY <1>1, TheProducers DEF CoreType
    <2> QED BY <1>4, <1>7, <1>8, <2>1, <2>2 DEF FunctionRun, FnRuns
  <1>10. RunOK(r) BY <1>3, <1>4, <1>5, Bounds DEF RunOK
  <1> QED BY <1>2, <1>5, <1>9, <1>10 DEF s

LEMMA SelectedRecord ==
    ASSUME TypeOK, LoopInv, SpillInv, pc = "select"
    PROVE  LET rec == RegionRecord(Recorded, <<FunctionRun(frags[FragPath])>>)
           IN  rec \in Records /\ RecordOK(rec, region)
  <1> DEFINE r == FunctionRun(frags[FragPath])
             rec == RegionRecord(Recorded, <<r>>)
  <1>1. CoreType BY TypeParts
  <1>2. r \in FnRuns /\ r.producer = Producers[prod] BY SelectedRun
  <1> HIDE DEF r
  <1>3. rec \in Records /\ rec.start = region /\ rec.attempts = Recorded
        /\ rec.runs = <<r>>
    BY <1>1, <1>2, RecordedAttempts DEF RegionRecord, Records, CoreType
  <1>4. AttemptRecord.ok /\ AttemptRecord.stdout BY DEF LoopInv, AttemptRecord
  <1>5. prod \in 1..2 /\ Len(Recorded) = prod BY <1>1, RecordedAttempts DEF CoreType
  <1>6. \A j \in 1..prod : /\ Recorded[j].producer = Producers[j]
                           /\ Recorded[j].ok => Recorded[j].stdout /\ j = prod
    <2>1. \A j \in 1..prod : j = prod \/ (prod = 2 /\ j = 1) BY <1>5
    <2> QED BY <1>4, <2>1, RecordedAttempts
  <1>7. prod = 2 => rizin BY DEF LoopInv, Looping
  <1>8. Recorded[prod].ok /\ Recorded[prod].producer = Producers[prod]
    BY <1>4, RecordedAttempts
  <1> HIDE DEF rec
  <1>9. RecordOK(rec, region)
    BY <1>2, <1>3, <1>5, <1>6, <1>7, <1>8 DEF RecordOK
  <1> QED BY <1>3, <1>9 DEF rec, r

-----------------------------------------------------------------------------
(* What a step does to the records, the spills and the summary.            *)

Kept == UNCHANGED <<records, spills, summary>>

\* The last attempt of a region failed.
EndFailed ==
    /\ pc = "clean" /\ (prod = 1 => ~rizin)
    /\ records' = Append(records, RegionRecord(Recorded, <<>>))
    /\ summary' = [summary EXCEPT !.failed = @ + 1]
    /\ attempts' = <<>> /\ Advance /\ RemoveFragments
    /\ UNCHANGED <<stdout, run, rizin, spills, rizinAttempted>>

LEMMA Outcomes ==
    [Next]_vars =>
        \/ Kept /\ UNCHANGED <<run, rizin>>
        \/ Kept /\ Begin
        \/ Forget
        \/ EndFailed
        \/ Select
  <1> SUFFICES ASSUME [Next]_vars
               PROVE  \/ Kept /\ UNCHANGED <<run, rizin>>
                      \/ Kept /\ Begin
                      \/ Forget
                      \/ EndFailed
                      \/ Select
    OBVIOUS
  <1> USE DEF Kept, memory
  <1>1. CASE Begin BY <1>1 DEF Begin
  <1>2. CASE Carve BY <1>2 DEF Carve
  <1>4. CASE RemoveStale BY <1>4 DEF RemoveStale
  <1>5. CASE RunAttempt BY <1>5 DEF RunAttempt
  <1>6. CASE Parse BY <1>6 DEF Parse
  <1>9. CASE CleanFailed
    <2>1. \/ EndFailed
          \/ Kept /\ UNCHANGED <<run, rizin>>
      BY <1>9, Zenon DEF CleanFailed, EndFailed
    <2> QED BY <2>1
  <1>10. CASE CleanTerminal BY <1>10 DEF CleanTerminal
  <1>11. CASE Select BY <1>11
  <1>12. CASE CheckSummary BY <1>12 DEF CheckSummary
  <1>13. CASE OpenTemp BY <1>13 DEF OpenTemp
  <1>14. CASE WriteTemp BY <1>14 DEF WriteTemp
  <1>15. CASE Commit BY <1>15 DEF Commit
  <1>16. CASE DropSpills BY <1>16 DEF DropSpills
  <1>17. CASE Crash BY <1>17 DEF Crash
  <1>18. CASE UNCHANGED vars BY <1>18 DEF vars
  <1> QED
    BY <1>1, <1>2, <1>4, <1>5, <1>6, <1>9, <1>10, <1>11, <1>12, <1>13, <1>14,
       <1>15, <1>16, <1>17, <1>18, Zenon DEF Next

\* One more record, of the region in progress.
LEMMA Extended ==
    ASSUME TypeOK, LoopInv, pc \in Looping, NEW rec \in Records,
           records' = Append(records, rec)
    PROVE  /\ Len(records') = Len(records) + 1 /\ Len(records) + 1 = region
           /\ Len(records) \in Nat /\ Len(records) < N /\ region \in 1..N
           /\ records'[region] = rec
           /\ \A i \in 1..Len(records) : records'[i] = records[i] /\ i # region
           /\ \A i \in 1..Len(records') : i \in 1..Len(records) \/ i = region
           /\ records' \in Seq(Records)
  <1>1. /\ records \in Seq(Records) /\ Len(records) \in Nat
        /\ region \in 1..N /\ N \in Nat
    BY TypeParts, Bounds DEF CoreType, TallyType, Regions
  <1>2. Len(records) = region - 1 BY DEF LoopInv
  <1>3. records' \in Seq(Records) /\ Len(records') = Len(records) + 1 BY <1>1
  <1> QED BY <1>1, <1>2, <1>3

LEMMA RecordsStep ==
    TypeOK /\ LoopInv /\ RecordsInv /\ SpillInv /\ [Next]_vars => RecordsInv'
  <1> SUFFICES ASSUME TypeOK, LoopInv, RecordsInv, SpillInv, [Next]_vars
               PROVE  RecordsInv'
    OBVIOUS
  <1>1. CASE Kept /\ UNCHANGED <<run, rizin>>
    BY <1>1 DEF Kept, RecordsInv, RecordOK
  <1>2. CASE Kept /\ Begin
    <2>1. records' = <<>> BY <1>2 DEF Kept, Begin, LoopInv
    <2> QED BY <2>1 DEF RecordsInv
  <1>3. CASE Forget BY <1>3 DEF Forget, RecordsInv
  <1>4. ASSUME NEW rec \in Records, records' = Append(records, rec),
               pc \in Looping, RecordOK(rec, region), UNCHANGED rizin
        PROVE  RecordsInv'
    <2>1. ASSUME NEW i \in 1..Len(records') PROVE RecordOK(records'[i], i)
      BY <1>4, <2>1, Extended DEF RecordsInv
    <2>2. \A i \in 1..Len(records') : RecordOK(records[i], i)'
      BY <1>4, <2>1 DEF RecordOK
    <2> QED BY <2>2 DEF RecordsInv
  <1>5. CASE EndFailed BY <1>4, <1>5, FailedRecord DEF EndFailed, Looping
  <1>6. CASE Select BY <1>4, <1>6, SelectedRecord DEF Select, Looping
  <1> QED BY <1>1, <1>2, <1>3, <1>5, <1>6, Outcomes

\* What the runs of all regions become.
LEMMA RunsStep ==
    ASSUME TypeOK, LoopInv, SpillInv, SummaryInv, [Next]_vars
    PROVE  \/ Kept /\ Runs' = Runs
           \/ Forget /\ Runs' = <<>>
           \/ EndFailed /\ Runs' = Runs
           \/ Select /\ Runs' = Append(Runs, FunctionRun(frags[FragPath]))
  <1>1. records \in Seq(Records) /\ Runs \in Seq(FnRuns)
    BY TypeParts DEF TallyType, SummaryInv
  <1>2. CASE Kept BY <1>2 DEF Kept, Runs
  <1>3. CASE Forget BY <1>3, RunsEmpty DEF Forget, Runs
  <1>4. CASE EndFailed
    <2> DEFINE rec == RegionRecord(Recorded, <<>>)
    <2>1. rec \in Records /\ rec.runs = <<>>
      BY <1>4, FailedRecord DEF EndFailed, RegionRecord
    <2>2. records' = Append(records, rec) BY <1>4 DEF EndFailed
    <2> HIDE DEF rec
    <2>3. Runs' = Runs \o <<>> BY <1>1, <2>1, <2>2, RunsAppend DEF Runs
    <2> QED BY <1>1, <1>4, <2>3
  <1>5. CASE Select
    <2> DEFINE r == FunctionRun(frags[FragPath])
               rec == RegionRecord(Recorded, <<r>>)
    <2>1. rec \in Records /\ rec.runs = <<r>>
      BY <1>5, SelectedRecord DEF Select, RegionRecord
    <2>2. records' = Append(records, rec) BY <1>5 DEF Select
    <2>3. r \in FnRuns BY <1>5, SelectedRun DEF Select
    <2> HIDE DEF rec, r
    <2>4. Runs' = Runs \o <<r>> BY <1>1, <2>1, <2>2, RunsAppend DEF Runs
    <2>5. Runs' = Append(Runs, r) BY <1>1, <2>3, <2>4
    <2> QED BY <1>5, <2>5 DEF r
  <1> QED BY <1>2, <1>3, <1>4, <1>5, Outcomes

-----------------------------------------------------------------------------
(* Whether rizin was attempted.                                            *)

SecondTried == \E i \in 1..Len(records) : Len(records[i].attempts) = 2

LEMMA SecondTriedStep ==
    ASSUME TypeOK, LoopInv, SpillInv, [Next]_vars
    PROVE  /\ Kept => (SecondTried' <=> SecondTried)
           /\ EndFailed \/ Select => (SecondTried' <=> SecondTried \/ prod = 2)
  <1>1. Kept => (SecondTried' <=> SecondTried) BY DEF Kept, SecondTried
  <1>2. ASSUME NEW rec \in Records, records' = Append(records, rec),
               pc \in Looping, Len(rec.attempts) = prod
        PROVE  SecondTried' <=> SecondTried \/ prod = 2
    <2>1. /\ region \in 1..Len(records') /\ records'[region] = rec
          /\ \A i \in 1..Len(records) :
               i \in 1..Len(records') /\ records'[i] = records[i]
          /\ \A i \in 1..Len(records') : i \in 1..Len(records) \/ i = region
      BY <1>2, Extended
    <2>2. SecondTried' => SecondTried \/ prod = 2 BY <1>2, <2>1 DEF SecondTried
    <2>3. SecondTried => SecondTried' BY <2>1 DEF SecondTried
    <2>4. prod = 2 => SecondTried' BY <1>2, <2>1 DEF SecondTried
    <2> QED BY <2>2, <2>3, <2>4
  <1>3. CASE EndFailed
    <2>1. Len(RegionRecord(Recorded, <<>>).attempts) = prod
      BY <1>3, RecordedAttempts DEF RegionRecord, EndFailed
    <2> QED BY <1>1, <1>2, <1>3, <2>1, FailedRecord DEF EndFailed, Looping
  <1>4. CASE Select
    <2>1. Len(RegionRecord(Recorded, <<FunctionRun(frags[FragPath])>>).attempts)
             = prod
      BY <1>4, RecordedAttempts DEF RegionRecord, Select
    <2> QED BY <1>1, <1>2, <1>4, <2>1, SelectedRecord DEF Select, Looping
  <1> QED BY <1>1, <1>3, <1>4

LEMMA RizinStep ==
    TypeOK /\ LoopInv /\ SpillInv /\ RizinInv /\ [Next]_vars => RizinInv'
  <1> SUFFICES ASSUME TypeOK, LoopInv, SpillInv, RizinInv, [Next]_vars
               PROVE  RizinInv'
    OBVIOUS
  <1> USE DEF Looping, Ended, memory
  <1>0. rizinAttempted \in BOOLEAN /\ prod \in 1..2 BY TypeParts DEF CoreType
  <1>a. pc \in Looping \cup Ended =>
            (rizinAttempted <=>
                SecondTried \/ (prod = 2 /\ pc \in {"attempt", "parse", "clean",
                                             "cleanTerminal", "select"}))
    BY DEF RizinInv, SecondTried
  <1>b. SUFFICES pc' \in Looping \cup Ended =>
            (rizinAttempted' <=>
                SecondTried' \/ (prod' = 2 /\ pc' \in {"attempt", "parse", "clean",
                                             "cleanTerminal", "select"}))
    BY DEF RizinInv, SecondTried
  <1>c. ASSUME Kept, UNCHANGED <<rizinAttempted, prod>>, pc \in Looping \cup Ended,
               pc' # "idle",
               pc \in {"attempt", "parse", "clean", "cleanTerminal", "select"}
                  <=> pc' \in {"attempt", "parse", "clean", "cleanTerminal", "select"}
        PROVE  pc' \in Looping \cup Ended =>
            (rizinAttempted' <=>
                SecondTried' \/ (prod' = 2 /\ pc' \in {"attempt", "parse", "clean",
                                             "cleanTerminal", "select"}))
    BY <1>a, <1>c, SecondTriedStep
  <1> USE DEF Kept
  <1>1. CASE Begin
    <2>1. ~SecondTried BY <1>1 DEF Begin, LoopInv, SecondTried
    <2>2. ~rizinAttempted /\ rizinAttempted' = rizinAttempted /\ pc' = "carve"
          /\ prod' = 1 /\ Kept
      BY <1>1 DEF Begin, LoopInv
    <2> QED BY <2>1, <2>2, SecondTriedStep
  <1>2. CASE Carve BY <1>2, <1>c DEF Carve, Abort
  <1>4. CASE RemoveStale
    <2>1. rizinAttempted' = (rizinAttempted \/ Producers[prod] = "rizin")
      BY <1>4, Zenon DEF RemoveStale, MarkAttempted
    <2>2. Producers[prod] = "rizin" <=> prod = 2 BY <1>0, TheProducers
    <2>3. rizinAttempted' <=> (rizinAttempted \/ prod = 2)
      BY <2>1, <2>2, Zenon
    <2>4. pc' \in {"attempt", "drop"} /\ prod' = prod /\ pc = "stale" /\ Kept
      BY <1>4 DEF RemoveStale, Abort
    <2> QED BY <1>a, <2>3, <2>4, SecondTriedStep
  <1>5. CASE RunAttempt
    <2>1. pc = "attempt" /\ pc' \in {"parse", "clean", "cleanTerminal"}
          /\ Kept /\ UNCHANGED <<rizinAttempted, prod>>
      BY <1>5 DEF RunAttempt
    <2> QED BY <1>c, <2>1
  <1>6. CASE Parse
    <2>1. pc = "parse" /\ pc' \in {"select", "clean"}
          /\ Kept /\ UNCHANGED <<rizinAttempted, prod>>
      BY <1>6 DEF Parse
    <2> QED BY <1>c, <2>1
  <1>7. Advance => pc' \in {"carve", "check"} BY DEF Advance
  <1>9. CASE CleanFailed
    <2>1. \/ EndFailed
          \/ Kept /\ prod = 1 /\ pc' = "stale"
          \/ pc' = "drop"
      BY <1>9, Zenon DEF CleanFailed, EndFailed, Abort
    <2>2. pc = "clean" /\ rizinAttempted' = rizinAttempted
      BY <1>9, Zenon DEF CleanFailed
    <2>3. CASE EndFailed
      BY <1>7, <1>a, <2>2, <2>3, SecondTriedStep DEF EndFailed
    <2>4. CASE Kept /\ prod = 1 /\ pc' = "stale"
      BY <1>a, <2>2, <2>4, SecondTriedStep
    <2> QED BY <2>1, <2>3, <2>4
  <1>10. CASE CleanTerminal BY <1>10 DEF CleanTerminal, Abort
  <1>11. CASE Select BY <1>7, <1>a, <1>11, SecondTriedStep DEF Select
  <1>12. CASE CheckSummary BY <1>12, <1>c DEF CheckSummary, Abort
  <1>13. CASE OpenTemp BY <1>13, <1>c DEF OpenTemp, Abort
  <1>14. CASE WriteTemp BY <1>14, <1>c DEF WriteTemp, Abort
  <1>15. CASE Commit BY <1>15 DEF Commit, Abort
  <1>16. CASE DropSpills BY <1>16 DEF DropSpills, Forget
  <1>17. CASE Crash BY <1>17 DEF Crash, Forget
  <1>18. CASE UNCHANGED vars
    <2>1. Kept /\ UNCHANGED <<pc, rizinAttempted, prod>> BY <1>18 DEF vars
    <2> QED BY <1>a, <2>1, SecondTriedStep
  <1> QED
    BY <1>1, <1>2, <1>4, <1>5, <1>6, <1>9, <1>10, <1>11, <1>12, <1>13, <1>14,
       <1>15, <1>16, <1>17, <1>18, Zenon DEF Next

-----------------------------------------------------------------------------
(* The directory.                                                          *)

\* What a step does to the files: until the spills are dropped it touches only
\* the current attempt's, and outside the loop none.
LEMMA OtherFiles ==
    ASSUME TypeOK, LoopInv, [Next]_vars, pc' # "idle", NEW x \in Paths,
           pc \in Looping => x # <<region, Producers[prod]>>
    PROVE  stdout'[x] = stdout[x] /\ frags'[x] = frags[x]
  <1>0. CoreType BY TypeParts
  <1>1. /\ stdout \in [Paths -> Written \cup {NoFile}]
        /\ frags \in [Paths -> Spills]
        /\ Path \in Paths /\ FragPath \in Paths
        /\ pc \in Looping => Path # x /\ FragPath # x
    BY <1>0, CurrentPath DEF CoreType
  <1>2. CASE RunAttempt
    <2>1. \E left : stdout' = [stdout EXCEPT ![Path] = left]
      BY <1>2, Zenon DEF RunAttempt
    <2>2. frags' = frags /\ pc \in Looping BY <1>2 DEF RunAttempt, Looping
    <2> QED BY <1>1, <2>1, <2>2
  <1>3. CASE RemoveStale \/ Parse \/ CleanFailed \/ CleanTerminal
    <2>1. stdout' = stdout /\ pc \in Looping
      BY <1>3 DEF RemoveStale, Parse, CleanFailed, CleanTerminal, Looping
    <2>2. frags' = frags \/ \E f : frags' = [frags EXCEPT ![FragPath] = f]
      BY <1>3, Zenon
      DEF RemoveStale, Parse, CleanFailed, CleanTerminal, RemoveFragments
    <2> QED BY <1>1, <2>1, <2>2
  <1>4. CASE DropSpills \/ Crash BY <1>4 DEF DropSpills, Crash, Forget
  <1>5. CASE Begin \/ Carve \/ Select \/ CheckSummary \/ UNCHANGED vars
    BY <1>5 DEF Begin, Carve, Select, CheckSummary, vars, disk
  <1>6. CASE OpenTemp \/ WriteTemp \/ Commit
    BY <1>6 DEF OpenTemp, WriteTemp, Commit
  <1> QED BY <1>2, <1>3, <1>4, <1>5, <1>6, Zenon DEF Next

\* So what was true of another attempt's files stays true.
LEMMA StaysTrue ==
    ASSUME TypeOK, LoopInv, [Next]_vars, pc' # "idle", run' = run,
           NEW a \in Attempts, NEW i \in Regions, TrueOnDisk(a, i),
           pc \in Looping => i # region \/ a.producer # Producers[prod]
    PROVE  TrueOf(a, i, stdout', frags', run')
  <1>1. <<i, a.producer>> \in Paths BY DEF Attempts, Paths
  <1>2. pc \in Looping => <<i, a.producer>> # <<region, Producers[prod]>>
    OBVIOUS
  <1>3. /\ stdout'[<<i, a.producer>>] = stdout[<<i, a.producer>>]
        /\ frags'[<<i, a.producer>>] = frags[<<i, a.producer>>]
    BY <1>1, <1>2, OtherFiles
  <1> QED BY <1>3 DEF TrueOnDisk, TrueOf, StdoutPath, FragmentPath

\* The attempt that ends is true of the files it leaves.
LEMMA EndsTrue ==
    ASSUME TypeOK, LoopInv, DiskInv, pc \in {"clean", "select"},
           UNCHANGED <<stdout, run>>,
           pc = "clean" => RemoveFragments, pc = "select" => frags' = frags
    PROVE  TrueOf(AttemptRecord, region, stdout', frags', run')
  <1>0. CoreType BY TypeParts
  <1>1. attempt.captured => stdout'[<<region, Producers[prod]>>] = Own
    BY <1>0, CurrentPath DEF DiskInv, CoreType
  <1>2. ~attempt.ok => frags'[<<region, Producers[prod]>>] = NoSpill
    <2>1. CASE pc = "clean"
      BY <1>0, <2>1, CurrentPath DEF CoreType, RemoveFragments
    <2> QED BY <2>1 DEF LoopInv
  <1> QED BY <1>1, <1>2 DEF TrueOf, AttemptRecord, StdoutPath, FragmentPath, Own

LEMMA DiskStep ==
    TypeOK /\ LoopInv /\ RecordsInv /\ SpillInv /\ DiskInv /\ [Next]_vars
        => DiskInv'
  <1> SUFFICES ASSUME TypeOK, LoopInv, RecordsInv, SpillInv, DiskInv, [Next]_vars
               PROVE  DiskInv'
    OBVIOUS
  <1>0. CoreType /\ TallyType BY TypeParts
  <1>a. /\ records \in Seq(Records) /\ attempts \in Seq(Attempts)
        /\ Len(records) \in Nat /\ Len(records) <= N /\ N \in Nat
        /\ region \in 1..N /\ prod \in 1..2
        /\ pc \in Looping => Len(records) = region - 1
    BY <1>0, Bounds DEF CoreType, TallyType, Regions, LoopInv
  <1>d. ASSUME NEW i \in 1..Len(records)
        PROVE  /\ records[i].attempts \in Seq(Attempts)
               /\ \A j \in 1..Len(records[i].attempts) :
                    records[i].attempts[j] \in Attempts
               /\ i \in Regions /\ (pc \in Looping => i # region)
    <2>1. records[i] \in Records BY <1>a, <1>d
    <2>2. records[i].attempts \in Seq(Attempts) BY <2>1 DEF Records
    <2>3. i \in Regions /\ (pc \in Looping => i # region)
      BY <1>a, <1>d DEF Regions
    <2> QED BY <2>2, <2>3
  <1>b. CASE pc' = "idle"
    <2>1. records' = <<>>
      <3>1. CASE Forget BY <3>1 DEF Forget
      <3>2. CASE pc = "idle" /\ Kept BY <3>2 DEF LoopInv, Kept
      <3>3. CASE UNCHANGED vars BY <1>b, <3>2, <3>3 DEF vars, Kept
      <3>4. Next => Forget
        BY <1>b, Zenon
        DEF Next, Begin, Carve, RemoveStale, RunAttempt, Parse, CleanFailed,
            CleanTerminal, Select, CheckSummary, OpenTemp, WriteTemp, Commit,
            DropSpills, Crash, Abort, Advance
      <3> QED BY <3>1, <3>3, <3>4
    <2>2. pc' \notin Looping BY <1>b DEF Looping
    <2> QED BY <1>b, <2>1, <2>2 DEF DiskInv
  <1>c. CASE Begin
    <2>1. records' = <<>> /\ attempts' = <<>> /\ pc' = "carve"
      BY <1>c DEF Begin, LoopInv
    <2> QED BY <2>1 DEF DiskInv
  <1>e. CASE pc' # "idle" /\ ~Begin
    <2>0. run' = run /\ (Kept \/ EndFailed \/ Select)
      BY <1>e, Outcomes DEF Forget, EndFailed, Select
    <2>1. ASSUME NEW i \in 1..Len(records), NEW j \in 1..Len(records[i].attempts)
          PROVE  TrueOf(records[i].attempts[j], i, stdout', frags', run')
      BY <1>d, <1>e, <2>0, <2>1, StaysTrue DEF DiskInv
    <2>2. ASSUME pc \in Looping, NEW j \in 1..Len(attempts)
          PROVE  /\ TrueOf(attempts[j], region, stdout', frags', run')
                 /\ prod = 2 /\ j = 1
      <3>1. prod = 2 /\ j = 1
        <4>1. CASE prod = 1
          <5>1. attempts = <<>> BY <2>2, <4>1 DEF LoopInv
          <5> QED BY <2>2, <5>1
        <4>2. CASE prod = 2
          <5>1. Len(attempts) = 1 BY <2>2, <4>2 DEF LoopInv
          <5> QED BY <2>2, <4>2, <5>1
        <4> QED BY <1>a, <4>1, <4>2
      <3>2. attempts[1] \in Attempts /\ attempts[1].producer # Producers[prod]
        BY <1>a, <2>2, <3>1, TheProducers DEF LoopInv
      <3>3. TrueOnDisk(attempts[1], region) /\ region \in Regions
        BY <1>a, <2>2, <3>1 DEF DiskInv, Regions
      <3> QED BY <1>e, <2>0, <3>1, <3>2, <3>3, StaysTrue
    <2>3. ASSUME EndFailed \/ Select, NEW j \in 1..Len(Recorded)
          PROVE  TrueOf(Recorded[j], region, stdout', frags', run')
      <3>1. TrueOf(AttemptRecord, region, stdout', frags', run')
            /\ pc \in {"clean", "select"}
        BY <2>3, EndsTrue DEF EndFailed, Select, disk
      <3>2. j = prod \/ (prod = 2 /\ j = 1)
        BY <1>a, <2>3, <3>1, RecordedAttempts
      <3>3. CASE j = prod BY <3>1, <3>3, RecordedAttempts
      <3>4. CASE prod = 2 /\ j = 1
        <4>1. pc \in Looping /\ Len(attempts) = 1 BY <3>1, <3>4 DEF LoopInv, Looping
        <4>2. Recorded[1] = attempts[1] BY <3>1, <3>4, RecordedAttempts
        <4> QED BY <2>2, <3>4, <4>1, <4>2
      <3> QED BY <3>2, <3>3, <3>4
    <2>4. \A i \in 1..Len(records') : \A j \in 1..Len(records'[i].attempts) :
             TrueOf(records'[i].attempts[j], i, stdout', frags', run')
      <3>1. CASE Kept BY <2>1, <3>1 DEF Kept
      <3>2. CASE EndFailed \/ Select
        <4>1. PICK rec \in Records : /\ records' = Append(records, rec)
                                     /\ rec.attempts = Recorded
          BY <3>2, FailedRecord, SelectedRecord DEF EndFailed, Select, RegionRecord
        <4>2. pc \in Looping BY <3>2 DEF EndFailed, Select, Looping
        <4>3. /\ records'[region] = rec
              /\ \A i \in 1..Len(records) : records'[i] = records[i]
              /\ \A i \in 1..Len(records') : i \in 1..Len(records) \/ i = region
          BY <4>1, <4>2, Extended
        <4> QED BY <2>1, <2>3, <3>2, <4>1, <4>3
      <3> QED BY <2>0, <3>1, <3>2
    <2>5. ASSUME pc' \in Looping, NEW j \in 1..Len(attempts')
          PROVE  TrueOf(attempts'[j], region', stdout', frags', run')
      <3>1. \/ pc \in Looping /\ UNCHANGED <<attempts, region, prod>>
            \/ attempts' = <<>>
            \/ /\ pc = "clean" /\ prod = 1 /\ RemoveFragments
               /\ UNCHANGED <<stdout, run, region>> /\ attempts' = Recorded
        <4> USE DEF memory, Looping, Abort
        <4>1. CASE UNCHANGED vars BY <2>5, <4>1 DEF vars
        <4>2. CASE CleanFailed
          <5>1. \/ attempts' = <<>>
                \/ /\ pc = "clean" /\ prod = 1 /\ RemoveFragments
                   /\ UNCHANGED <<stdout, run, region>> /\ attempts' = Recorded
                \/ pc' = "drop"
            BY <4>2, Zenon DEF CleanFailed
          <5> QED BY <2>5, <5>1
        <4>3. CASE Select BY <4>3 DEF Select
        <4>4. CASE Carve \/ RemoveStale BY <4>4 DEF Carve, RemoveStale
        <4>5. CASE RunAttempt BY <4>5 DEF RunAttempt
        <4>6. CASE Parse BY <4>6 DEF Parse
        <4>7. CASE CleanTerminal \/ CheckSummary \/ OpenTemp \/ WriteTemp \/ Commit
          BY <2>5, <4>7 DEF CleanTerminal, CheckSummary, OpenTemp, WriteTemp, Commit
        <4>8. CASE DropSpills \/ Crash BY <2>5, <4>8 DEF DropSpills, Crash, Forget
        <4> QED BY <1>e, <4>1, <4>2, <4>3, <4>4, <4>5, <4>6, <4>7, <4>8, Zenon
                DEF Next
      <3>2. CASE pc \in Looping /\ UNCHANGED <<attempts, region, prod>>
        BY <2>2, <2>5, <3>2
      <3>3. CASE /\ pc = "clean" /\ prod = 1 /\ RemoveFragments
                 /\ UNCHANGED <<stdout, run, region>> /\ attempts' = Recorded
        <4>1. Len(Recorded) = prod /\ Recorded[prod] = AttemptRecord
          BY <3>3, RecordedAttempts
        <4>3. j \in 1..1 BY <2>5, <3>3, <4>1
        <4>2. TrueOf(AttemptRecord, region, stdout', frags', run')
          BY <3>3, EndsTrue
        <4> QED BY <3>3, <4>1, <4>2, <4>3
      <3> QED BY <2>5, <3>1, <3>2, <3>3
    <2>6. ASSUME pc' \in {"parse", "clean", "select"}, attempt'.captured
          PROVE  stdout'[Path'] = Own'
      <3> USE DEF Path, Own, StdoutPath
      <3>1. CASE RunAttempt
        <4>1. PICK r \in Contract!AttemptResults :
                /\ attempt' = [ok |-> r.outcome = "ok", captured |-> r.captured]
                /\ \E left \in CASE r.outcome = "terminal" -> {NoFile, Own, stdout[Path]}
                                 [] r.outcome # "terminal" /\ r.captured -> {Own}
                                 [] OTHER -> {NoFile, stdout[Path]} :
                     stdout' = [stdout EXCEPT ![Path] = left]
                /\ pc' = CASE r.outcome = "ok" -> "parse"
                           [] r.outcome = "failed" -> "clean"
                           [] OTHER -> "cleanTerminal"
          BY <3>1, Zenon DEF RunAttempt
        <4>2. r.outcome \in {"ok", "failed", "terminal"}
          BY <4>1 DEF Contract!AttemptResults
        <4>3. r.outcome # "terminal" BY <2>6, <4>1, <4>2
        <4>4. r.captured BY <2>6, <4>1
        <4>5. stdout' = [stdout EXCEPT ![Path] = Own]
          BY <4>1, <4>3, <4>4
        <4>6. UNCHANGED <<run, region, prod>> BY <3>1 DEF RunAttempt
        <4>7. Path \in Paths /\ stdout \in [Paths -> Written \cup {NoFile}]
          BY <1>0, CurrentPath DEF CoreType
        <4> QED BY <4>5, <4>6, <4>7
      <3>2. CASE Parse
        <4>1. attempt' = attempt \/ attempt' = [attempt EXCEPT !.ok = FALSE]
          BY <3>2, Zenon DEF Parse
        <4>2. attempt.captured BY <1>0, <2>6, <4>1 DEF CoreType
        <4>3. stdout[Path] = Own BY <3>2, <4>2 DEF Parse, DiskInv
        <4>4. UNCHANGED <<stdout, run, region, prod>> BY <3>2 DEF Parse
        <4> QED BY <4>3, <4>4
      <3>3. CASE UNCHANGED vars BY <2>6, <3>3 DEF vars, DiskInv
      <3>4. Next => RunAttempt \/ Parse
        BY <2>6, Zenon
        DEF Next, Begin, Carve, RemoveStale, CleanFailed,
            CleanTerminal, Select, CheckSummary, OpenTemp, WriteTemp, Commit,
            DropSpills, Crash, Abort, Advance, Forget
      <3> QED BY <3>1, <3>2, <3>3, <3>4
    <2> QED BY <2>4, <2>5, <2>6 DEF DiskInv, TrueOnDisk
  <1> QED BY <1>b, <1>c, <1>e

-----------------------------------------------------------------------------
(* The spills.                                                             *)

\* An invocation in its loop or at its end has begun in this step or before.
LEMMA Began ==
    ASSUME [Next]_vars, pc' \in Looping \cup Ended
    PROVE  Begin \/ pc \in Looping \cup Ended
  <1> USE DEF Looping, Ended
  <1>1. CASE UNCHANGED vars BY <1>1 DEF vars
  <1>2. CASE DropSpills \/ Crash BY <1>2 DEF DropSpills, Crash, Forget
  <1>3. CASE Carve \/ RemoveStale \/ RunAttempt \/ Parse \/ CleanFailed
             \/ CleanTerminal \/ Select
    BY <1>3 DEF Carve, RemoveStale, RunAttempt, Parse, CleanFailed,
                CleanTerminal, Select
  <1>4. CASE CheckSummary \/ OpenTemp \/ WriteTemp \/ Commit
    BY <1>4 DEF CheckSummary, OpenTemp, WriteTemp, Commit
  <1> QED BY <1>1, <1>2, <1>3, <1>4, Zenon DEF Next

\* What SpillInv says of the jth of these runs and spills.
RunHolds(runs, paths, spilled, j, n) ==
    /\ RunOK(runs[j]) /\ runs[j].first = NextFunction(runs)[j - 1]
    /\ paths[j][1] \in 1..n
    /\ spilled[paths[j]].slots = runs[j].count
    /\ spilled[paths[j]].accepted = runs[j].accepted

LEMMA SpillStep ==
    TypeOK /\ LoopInv /\ SpillInv /\ SummaryInv /\ [Next]_vars => SpillInv'
  <1> SUFFICES ASSUME TypeOK, LoopInv, SpillInv, SummaryInv, [Next]_vars,
                      pc' \in Looping \cup Ended
               PROVE  SpillInv'
    BY DEF SpillInv
  <1>0. CoreType /\ TallyType BY TypeParts
  <1>a. /\ records \in Seq(Records) /\ Len(records) \in Nat
        /\ spills \in Seq(Paths) /\ Len(spills) \in Nat
        /\ region \in 1..N /\ N \in Nat /\ frags \in [Paths -> Spills]
        /\ Runs \in Seq(FnRuns) /\ Len(Runs) \in Nat
        /\ FragPath = <<region, Producers[prod]>> /\ FragPath \in Paths
        /\ pc \in Looping => region = Len(records) + 1
    BY <1>0, Bounds, CurrentPath
    DEF CoreType, TallyType, Regions, LoopInv, SummaryInv
  <1>b. pc' # "idle" BY DEF Looping, Ended
  <1>1. ASSUME pc' = "select"
        PROVE  /\ frags'[FragPath'].slots > 0
               /\ frags'[FragPath'].accepted <= frags'[FragPath'].slots
    <2>1. CASE Parse
      <3>1. PICK s \in Stats :
              frags' = [frags EXCEPT ![FragPath] =
                   [run |-> run, slots |-> s.raw, accepted |-> s.accepted]]
        BY <1>1, <2>1, Zenon DEF Parse
      <3>2. s.raw > 0 /\ s.accepted <= s.raw BY Bounds DEF Stats
      <3>3. FragPath' = FragPath BY <2>1 DEF Parse, FragPath, FragmentPath
      <3> QED BY <1>a, <3>1, <3>2, <3>3
    <2>2. CASE UNCHANGED vars
      BY <1>1, <2>2 DEF vars, SpillInv, Looping, FragPath, FragmentPath
    <2>3. Next => Parse
      BY <1>1, Zenon
      DEF Next, Begin, Carve, RemoveStale, RunAttempt, CleanFailed,
          CleanTerminal, Select, CheckSummary, OpenTemp, WriteTemp, Commit,
          DropSpills, Crash, Abort, Advance, Forget
    <2> QED BY <2>1, <2>2, <2>3
  <1>2. SUFFICES /\ Len(spills') = Len(Runs')
                 /\ \A j \in 1..Len(Runs') :
                      RunHolds(Runs', spills', frags', j, Len(records'))
    BY <1>1, Zenon DEF SpillInv, RunHolds
  <1>3. CASE Begin
    <2>1. records' = <<>> /\ spills' = <<>> BY <1>3 DEF Begin, LoopInv
    <2>2. Runs' = <<>> BY <2>1, RunsEmpty DEF Runs
    <2> QED BY <2>1, <2>2
  <1>4. CASE ~Begin
    <2>1. pc \in Looping \cup Ended BY <1>4, Began
    <2>2. /\ Len(spills) = Len(Runs)
          /\ \A j \in 1..Len(Runs) : RunHolds(Runs, spills, frags, j, Len(records))
      BY <2>1, Zenon DEF SpillInv, RunHolds
    <2>3. ASSUME NEW j \in 1..Len(Runs)
          PROVE  frags'[spills[j]] = frags[spills[j]]
      <3>1. spills[j] \in Paths BY <1>a, <2>2
      <3>2. spills[j][1] \in 1..Len(records) BY <2>2 DEF RunHolds
      <3>3. pc \in Looping => spills[j] # <<region, Producers[prod]>>
        <4> SUFFICES ASSUME pc \in Looping, spills[j] = <<region, Producers[prod]>>
                     PROVE  FALSE
          OBVIOUS
        <4>1. spills[j][1] = region OBVIOUS
        <4> QED BY <1>a, <3>2, <4>1
      <3> QED BY <1>b, <3>1, <3>3, OtherFiles
    <2>4. CASE Runs' = Runs /\ spills' = spills /\ Len(records') >= Len(records)
               /\ Len(records') \in Nat
      <3>1. ASSUME NEW j \in 1..Len(Runs)
            PROVE  RunHolds(Runs, spills, frags', j, Len(records'))
        <4>1. RunHolds(Runs, spills, frags, j, Len(records)) BY <2>2
        <4>2. frags'[spills[j]] = frags[spills[j]] BY <2>3
        <4>3. 1..Len(records) \subseteq 1..Len(records') BY <1>a, <2>4
        <4> QED BY <4>1, <4>2, <4>3 DEF RunHolds
      <3> QED BY <2>2, <2>4, <3>1
    <2>5. CASE Kept /\ Runs' = Runs BY <1>a, <2>4, <2>5 DEF Kept
    <2>6. CASE EndFailed /\ Runs' = Runs
      <3>1. Len(records') = Len(records) + 1 BY <1>a, <2>6 DEF EndFailed
      <3> QED BY <1>a, <2>4, <2>6, <3>1 DEF EndFailed
    <2>7. CASE Select /\ Runs' = Append(Runs, FunctionRun(frags[FragPath]))
      <3> DEFINE r == FunctionRun(frags[FragPath])
      <3>1. /\ r \in FnRuns /\ RunOK(r) /\ r.first = summary.raw
            /\ r.count = frags[FragPath].slots
            /\ r.accepted = frags[FragPath].accepted
        BY <2>7, SelectedRun DEF Select
      <3>2. Runs' = Append(Runs, r) BY <2>7
      <3>3. frags' = frags /\ spills' = Append(spills, FragPath) /\ pc \in Looping
            /\ Len(records') = Len(records) + 1
        BY <1>a, <2>7 DEF Select, disk, Looping
      <3> HIDE DEF r
      <3>4. /\ Len(Runs') = Len(Runs) + 1 /\ Runs'[Len(Runs) + 1] = r
            /\ \A j \in 1..Len(Runs) : Runs'[j] = Runs[j]
            /\ Len(spills') = Len(Runs) + 1 /\ spills'[Len(Runs) + 1] = FragPath
            /\ \A j \in 1..Len(Runs) : spills'[j] = spills[j]
        BY <1>a, <2>2, <3>1, <3>2, <3>3
      <3>5. \A j \in 0..Len(Runs) : NextFunction(Runs')[j] = NextFunction(Runs)[j]
        BY <1>a, <3>1, <3>2, NextAppend
      <3>6. ASSUME NEW j \in 1..Len(Runs)
            PROVE  RunHolds(Runs', spills', frags', j, Len(records'))
        <4>1. RunHolds(Runs, spills, frags, j, Len(records)) BY <2>2
        <4>2. NextFunction(Runs')[j - 1] = NextFunction(Runs)[j - 1]
          <5>1. j - 1 \in 0..Len(Runs) BY <1>a
          <5> QED BY <3>5, <5>1
        <4>3. 1..Len(records) \subseteq 1..Len(records') BY <1>a, <3>3
        <4> QED BY <3>3, <3>4, <4>1, <4>2, <4>3 DEF RunHolds
      <3>7. RunHolds(Runs', spills', frags', Len(Runs) + 1, Len(records'))
        <4>1. (Len(Runs) + 1) - 1 = Len(Runs) /\ Len(Runs) \in 0..Len(Runs)
          BY <1>a
        <4>2. NextFunction(Runs')[(Len(Runs) + 1) - 1] = summary.raw
          BY <3>5, <4>1 DEF SummaryInv
        <4>3. FragPath[1] = region BY <1>a
        <4>4. region \in 1..Len(records') BY <1>a, <3>3
        <4> QED BY <3>1, <3>3, <3>4, <4>2, <4>3, <4>4 DEF RunHolds
      <3>8. \A j \in 1..Len(Runs') : j \in 1..Len(Runs) \/ j = Len(Runs) + 1
        BY <1>a, <3>4
      <3> QED BY <3>4, <3>6, <3>7, <3>8
    <2>8. ~Forget BY <1>b DEF Forget
    <2> QED BY <2>5, <2>6, <2>7, <2>8, RunsStep
  <1> QED BY <1>3, <1>4

-----------------------------------------------------------------------------
(* The summary.                                                            *)

RizinWon ==
    \E i \in 1..Len(records) :
        Len(records[i].runs) = 1 /\ Len(records[i].attempts) = 2

SomeFailed == \E i \in 1..Len(records) : Len(records[i].runs) = 0

LEMMA WonStep ==
    ASSUME TypeOK, LoopInv, SpillInv
    PROVE  /\ EndFailed => (RizinWon' <=> RizinWon) /\ SomeFailed'
           /\ Select => /\ RizinWon' <=> RizinWon \/ prod = 2
                        /\ SomeFailed' <=> SomeFailed
  <1>1. ASSUME NEW rec \in Records, records' = Append(records, rec),
               pc \in Looping
        PROVE  /\ RizinWon' <=> (RizinWon \/ (Len(rec.runs) = 1 /\ Len(rec.attempts) = 2))
               /\ SomeFailed' <=> (SomeFailed \/ Len(rec.runs) = 0)
    <2>1. /\ region \in 1..Len(records') /\ records'[region] = rec
          /\ \A i \in 1..Len(records) :
               i \in 1..Len(records') /\ records'[i] = records[i]
          /\ \A i \in 1..Len(records') : i \in 1..Len(records) \/ i = region
      BY <1>1, Extended
    <2>2. RizinWon' => RizinWon \/ (Len(rec.runs) = 1 /\ Len(rec.attempts) = 2)
      BY <2>1 DEF RizinWon
    <2>3. RizinWon => RizinWon' BY <2>1 DEF RizinWon
    <2>4. Len(rec.runs) = 1 /\ Len(rec.attempts) = 2 => RizinWon'
      BY <2>1 DEF RizinWon
    <2>5. SomeFailed' => SomeFailed \/ Len(rec.runs) = 0
      BY <2>1 DEF SomeFailed
    <2>6. SomeFailed => SomeFailed' BY <2>1 DEF SomeFailed
    <2>7. Len(rec.runs) = 0 => SomeFailed' BY <2>1 DEF SomeFailed
    <2> QED BY <2>2, <2>3, <2>4, <2>5, <2>6, <2>7
  <1>2. ASSUME EndFailed PROVE ~Select /\ (RizinWon' <=> RizinWon) /\ SomeFailed'
    <2>1. PICK rec \in Records : records' = Append(records, rec) /\ rec.runs = <<>>
      BY <1>2, FailedRecord DEF EndFailed, RegionRecord
    <2>2. pc \in Looping /\ ~Select BY <1>2 DEF EndFailed, Looping, Select
    <2>3. Len(rec.runs) = 0 BY <2>1
    <2>4. /\ RizinWon' <=> (RizinWon \/ (Len(rec.runs) = 1 /\ Len(rec.attempts) = 2))
          /\ SomeFailed' <=> (SomeFailed \/ Len(rec.runs) = 0)
       BY <1>1, <2>1, <2>2, Zenon
    <2>5. ~(Len(rec.runs) = 1) BY <2>3
    <2>6. SomeFailed' BY <2>3, <2>4, Zenon
    <2>7. RizinWon' <=> RizinWon BY <2>5, <2>4, Zenon
    <2> QED BY <2>2, <2>6, <2>7
  <1>3. ASSUME Select PROVE /\ RizinWon' <=> RizinWon \/ prod = 2
                            /\ SomeFailed' <=> SomeFailed
    <2>1. PICK rec \in Records : /\ records' = Append(records, rec)
                                 /\ Len(rec.runs) = 1
                                 /\ Len(rec.attempts) = prod
      BY <1>3, SelectedRecord, RecordedAttempts DEF RegionRecord, Select
    <2>2. pc \in Looping BY <1>3 DEF Looping, Select
    <2>3. Len(rec.runs) # 0 BY <2>1
    <2> QED BY <1>1, <2>1, <2>2, <2>3, Zenon
  <1> QED BY <1>2, <1>3

Totals == [succeeded : Nat, failed : Nat, radare2 : Nat, rizin : Nat, raw : Nat,
           accepted : Nat, quarantined : Nat]

LEMMA SelectSummary ==
    ASSUME TypeOK, LoopInv, SpillInv, Select
    PROVE  LET s == frags[FragPath]
           IN  /\ s.slots \in 1..MaxFns /\ s.accepted \in 0..s.slots
               /\ summary' \in Totals
               /\ summary'.succeeded = summary.succeeded + 1
               /\ summary'.failed = summary.failed
               /\ prod = 1 => summary'.radare2 = summary.radare2 + 1
                              /\ summary'.rizin = summary.rizin
               /\ prod = 2 => summary'.radare2 = summary.radare2
                              /\ summary'.rizin = summary.rizin + 1
               /\ summary'.raw = summary.raw + s.slots
               /\ summary'.accepted = summary.accepted + s.accepted
               /\ summary'.quarantined =
                    summary.quarantined + s.slots - s.accepted
  <1> DEFINE s == frags[FragPath]
  <1>1. CoreType /\ TallyType BY TypeParts
  <1>2. s.slots \in 1..MaxFns /\ s.accepted \in 0..s.slots
    <2>1. s \in Spills BY SelectedRun DEF Select
    <2>2. s.slots > 0 /\ s.accepted <= s.slots BY DEF SpillInv, Select, Looping
    <2> HIDE DEF s
    <2> QED BY <2>1, <2>2, Bounds DEF Spills
  <1>3. summary' = [Bump(summary, Producers[prod]) EXCEPT
                        !.succeeded = @ + 1,
                        !.raw = @ + s.slots,
                        !.accepted = @ + s.accepted,
                        !.quarantined = @ + s.slots - s.accepted]
    BY DEF Select
  <1> HIDE DEF s
  <1>4. summary \in Totals BY <1>1, Bounds DEF TallyType, Summaries, Totals, Counts
  <1>5. prod \in 1..2 BY <1>1 DEF CoreType
  <1>6. s.slots \in Nat /\ s.accepted \in Nat /\ s.slots - s.accepted \in Nat
    BY <1>2, Bounds
  <1>7. CASE prod = 1
    <2> DEFINE t == Bump(summary, Producers[prod])
    <2>1. t = [summary EXCEPT !.radare2 = @ + 1]
      BY <1>7, TheProducers DEF Bump
    <2>2. /\ t \in Totals /\ t.radare2 = summary.radare2 + 1
          /\ t.rizin = summary.rizin /\ t.succeeded = summary.succeeded
          /\ t.failed = summary.failed /\ t.raw = summary.raw
          /\ t.accepted = summary.accepted
          /\ t.quarantined = summary.quarantined
      BY <1>4, <2>1 DEF Totals
    <2>3. summary' = [t EXCEPT !.succeeded = @ + 1, !.raw = @ + s.slots,
                               !.accepted = @ + s.accepted,
                               !.quarantined = @ + s.slots - s.accepted]
      BY <1>3
    <2> HIDE DEF t
    <2>4. /\ summary' \in Totals
          /\ summary'.succeeded = t.succeeded + 1 /\ summary'.failed = t.failed
          /\ summary'.radare2 = t.radare2 /\ summary'.rizin = t.rizin
          /\ summary'.raw = t.raw + s.slots
          /\ summary'.accepted = t.accepted + s.accepted
          /\ summary'.quarantined = t.quarantined + s.slots - s.accepted
      <3>1. t.quarantined \in Nat BY <2>2 DEF Totals
      <3>2. t.quarantined + s.slots - s.accepted \in Nat BY <1>2, <1>6, <3>1
      <3>3. /\ t.succeeded + 1 \in Nat /\ t.raw + s.slots \in Nat
            /\ t.accepted + s.accepted \in Nat
        BY <1>6, <2>2 DEF Totals
      <3> QED BY <2>2, <2>3, <3>2, <3>3, Zenon DEF Totals
    <2> QED BY <1>2, <1>7, <2>2, <2>4 DEF s
  <1>8. CASE prod = 2
    <2> DEFINE t == Bump(summary, Producers[prod])
    <2>1. t = [summary EXCEPT !.rizin = @ + 1]
      BY <1>8, TheProducers DEF Bump
    <2>2. /\ t \in Totals /\ t.rizin = summary.rizin + 1
          /\ t.radare2 = summary.radare2 /\ t.succeeded = summary.succeeded
          /\ t.failed = summary.failed /\ t.raw = summary.raw
          /\ t.accepted = summary.accepted
          /\ t.quarantined = summary.quarantined
      BY <1>4, <2>1 DEF Totals
    <2>3. summary' = [t EXCEPT !.succeeded = @ + 1, !.raw = @ + s.slots,
                               !.accepted = @ + s.accepted,
                               !.quarantined = @ + s.slots - s.accepted]
      BY <1>3
    <2> HIDE DEF t
    <2>4. /\ summary' \in Totals
          /\ summary'.succeeded = t.succeeded + 1 /\ summary'.failed = t.failed
          /\ summary'.radare2 = t.radare2 /\ summary'.rizin = t.rizin
          /\ summary'.raw = t.raw + s.slots
          /\ summary'.accepted = t.accepted + s.accepted
          /\ summary'.quarantined = t.quarantined + s.slots - s.accepted
      <3>1. t.quarantined \in Nat BY <2>2 DEF Totals
      <3>2. t.quarantined + s.slots - s.accepted \in Nat BY <1>2, <1>6, <3>1
      <3>3. /\ t.succeeded + 1 \in Nat /\ t.raw + s.slots \in Nat
            /\ t.accepted + s.accepted \in Nat
        BY <1>6, <2>2 DEF Totals
      <3> QED BY <2>2, <2>3, <3>2, <3>3, Zenon DEF Totals
    <2> QED BY <1>2, <1>8, <2>2, <2>4 DEF s
  <1> QED BY <1>5, <1>7, <1>8

\* The conjuncts of SummaryInv that count.
Counted ==
    /\ summary.raw <= Len(records) * MaxFns
    /\ summary.accepted + summary.quarantined = summary.raw
    /\ summary.raw = NextFunction(Runs)[Len(Runs)]
    /\ summary.succeeded + summary.failed = Len(records)
    /\ summary.radare2 + summary.rizin = summary.succeeded
    /\ Runs \in Seq(FnRuns) /\ summary.succeeded = Len(Runs)

\* A summary of n regions that adds up is of the bounded type.
LEMMA TotalsBounded ==
    summary \in Totals /\ Len(records) \in 0..N /\ Counted => summary \in Summaries
  <1> SUFFICES ASSUME summary \in Totals, Len(records) \in 0..N, Counted
               PROVE  summary \in Summaries
    OBVIOUS
  <1>0. /\ summary.raw <= Len(records) * MaxFns
        /\ summary.accepted + summary.quarantined = summary.raw
        /\ summary.succeeded + summary.failed = Len(records)
        /\ summary.radare2 + summary.rizin = summary.succeeded
    BY DEF Counted
  <1>1. Len(records) * MaxFns \in Nat /\ Len(records) * MaxFns <= N * MaxFns
        /\ N * MaxFns \in Nat /\ N \in Nat
    BY Bounds
  <1>2. /\ summary.raw \in Nat /\ summary.accepted \in Nat
        /\ summary.quarantined \in Nat /\ summary.succeeded \in Nat
        /\ summary.failed \in Nat /\ summary.radare2 \in Nat
        /\ summary.rizin \in Nat
    BY DEF Totals
  <1>3. summary.raw \in Counts /\ summary.accepted \in Counts
        /\ summary.quarantined \in Counts
    BY <1>0, <1>1, <1>2 DEF Counts
  <1>4. summary.succeeded \in 0..N /\ summary.failed \in 0..N
        /\ summary.radare2 \in 0..N /\ summary.rizin \in 0..N
    <2> DEFINE a == summary.succeeded
               b == summary.failed
               c == summary.radare2
               d == summary.rizin
               n == Len(records)
    <2>1. /\ a \in Nat /\ b \in Nat /\ c \in Nat /\ d \in Nat /\ N \in Nat
          /\ n \in 0..N /\ a + b = n /\ c + d = a
      BY <1>0, <1>1, <1>2
    <2> HIDE DEF a, b, c, d, n
    <2>2. a \in 0..N /\ b \in 0..N /\ c \in 0..N /\ d \in 0..N BY <2>1
    <2> QED BY <2>2 DEF a, b, c, d
  <1> QED BY <1>3, <1>4 DEF Totals, Summaries

LEMMA CountedStep ==
    ASSUME TypeOK, LoopInv, SpillInv, SummaryInv, [Next]_vars
    PROVE  Counted' /\ summary' \in Totals
  <1>0. CoreType /\ TallyType BY TypeParts
  <1>a. Counted BY DEF SummaryInv, Counted
  <1>b. /\ records \in Seq(Records) /\ Len(records) \in Nat /\ Len(records) <= N
        /\ Runs \in Seq(FnRuns) /\ Len(Runs) \in Nat /\ MaxFns \in Nat
        /\ N \in Nat /\ summary \in Totals
    BY <1>0, <1>a, Bounds, SMTT(30)
    DEF TallyType, Counted, Summaries, Totals, Counts
  <1>1. CASE Kept /\ Runs' = Runs BY <1>1, <1>a, <1>b DEF Kept, Counted
  <1>2. CASE Forget /\ Runs' = <<>>
    <2>1. records' = <<>> /\ summary' = Zero BY <1>2 DEF Forget
    <2>2. <<>> \in Seq(FnRuns) /\ Len(<<>>) = 0 OBVIOUS
    <2>3. NextFunction(Runs')[Len(Runs')] = 0 BY <1>2, <2>2, NextDef
    <2>4. Runs' \in Seq(FnRuns) /\ Len(Runs') = 0 /\ Len(records') = 0
      BY <1>2, <2>1, <2>2
    <2>5. 0 <= 0 * MaxFns BY <1>b
    <2> QED BY <2>1, <2>3, <2>4, <2>5 DEF Zero, Totals, Counted
  <1>3. CASE EndFailed /\ Runs' = Runs
    <2>1. /\ Len(records') = Len(records) + 1
          /\ summary' = [summary EXCEPT !.failed = @ + 1]
      BY <1>3, <1>b DEF EndFailed
    <2>2. /\ summary' \in Totals /\ summary'.failed = summary.failed + 1
          /\ summary'.raw = summary.raw /\ summary'.accepted = summary.accepted
          /\ summary'.quarantined = summary.quarantined
          /\ summary'.succeeded = summary.succeeded
          /\ summary'.radare2 = summary.radare2 /\ summary'.rizin = summary.rizin
      <3>1. summary.failed + 1 \in Nat BY <1>b DEF Totals
      <3> QED BY <1>b, <2>1, <3>1 DEF Totals
    <2>3. Len(records) * MaxFns <= Len(records') * MaxFns
      <3>1. \A n, m \in Nat : n * m <= (n + 1) * m OBVIOUS
      <3> QED BY <1>b, <2>1, <3>1
    <2>4. summary'.raw <= Len(records') * MaxFns
      <3>1. summary.raw \in Nat /\ Len(records) * MaxFns \in Nat
            /\ Len(records') * MaxFns \in Nat
        BY <1>b, <2>1 DEF Totals
      <3> QED BY <1>a, <2>2, <2>3, <3>1 DEF Counted
    <2>5. summary'.succeeded + summary'.failed = Len(records')
      <3>1. summary.succeeded \in Nat /\ summary.failed \in Nat BY <1>b DEF Totals
      <3> QED BY <1>a, <1>b, <2>1, <2>2, <3>1, SMTT(30) DEF Counted
    <2> QED BY <1>3, <1>a, <2>2, <2>4, <2>5 DEF Counted
  <1>4. CASE Select /\ Runs' = Append(Runs, FunctionRun(frags[FragPath]))
    <2> DEFINE r == FunctionRun(frags[FragPath])
               s == frags[FragPath]
    <2>1. r \in FnRuns /\ r.count = s.slots BY <1>4, SelectedRun DEF Select
    <2>2. /\ s.slots \in 1..MaxFns /\ s.accepted \in 0..s.slots
          /\ summary' \in Totals
          /\ summary'.succeeded = summary.succeeded + 1
          /\ summary'.failed = summary.failed
          /\ prod = 1 => summary'.radare2 = summary.radare2 + 1
                         /\ summary'.rizin = summary.rizin
          /\ prod = 2 => summary'.radare2 = summary.radare2
                         /\ summary'.rizin = summary.rizin + 1
          /\ summary'.raw = summary.raw + s.slots
          /\ summary'.accepted = summary.accepted + s.accepted
          /\ summary'.quarantined = summary.quarantined + s.slots - s.accepted
      BY <1>4, SelectSummary
    <2>3. Len(records') = Len(records) + 1 BY <1>4, <1>b DEF Select
    <2>4. Runs' = Append(Runs, r) BY <1>4
    <2>5. prod \in 1..2 BY <1>0 DEF CoreType
    <2> HIDE DEF r, s
    <2>6. Runs' \in Seq(FnRuns) /\ Len(Runs') = Len(Runs) + 1
      BY <1>b, <2>1, <2>4
    <2>7. NextFunction(Runs')[Len(Runs')] = NextFunction(Runs)[Len(Runs)] + s.slots
      BY <1>b, <2>1, <2>4, <2>6, NextAppend
    <2>8. /\ summary.raw \in Nat /\ summary.accepted \in Nat
          /\ summary.quarantined \in Nat /\ summary.succeeded \in Nat
          /\ summary.failed \in Nat /\ summary.radare2 \in Nat
          /\ summary.rizin \in Nat
      BY <1>b DEF Totals
    <2>13. s.slots \in Nat /\ s.accepted \in Nat /\ s.slots <= MaxFns
      <3>1. s.slots \in 1..MaxFns /\ s.accepted \in 0..s.slots BY <2>2
      <3> QED BY <1>b, <3>1
    <2>9. summary'.raw <= Len(records') * MaxFns
      <3>1. (Len(records) + 1) * MaxFns = Len(records) * MaxFns + MaxFns
        <4>1. \A n, m \in Nat : (n + 1) * m = n * m + m OBVIOUS
        <4> QED BY <1>b, <4>1
      <3>2. Len(records) * MaxFns \in Nat /\ MaxFns \in Nat BY <1>b
      <3>3. summary.raw <= Len(records) * MaxFns BY <1>a DEF Counted
      <3>4. summary.raw + s.slots <= Len(records) * MaxFns + MaxFns
        <4> QED BY <2>8, <2>13, <3>2, <3>3
      <3>5. summary'.raw = summary.raw + s.slots BY <2>2
      <3> QED BY <2>3, <3>1, <3>4, <3>5
    <2>10. /\ summary'.accepted + summary'.quarantined = summary'.raw
           /\ summary'.raw = NextFunction(Runs')[Len(Runs')]
      <3>1. /\ summary.accepted + summary.quarantined = summary.raw
            /\ summary.raw = NextFunction(Runs)[Len(Runs)]
        BY <1>a DEF Counted
      <3>2. /\ summary'.raw = summary.raw + s.slots
            /\ summary'.accepted = summary.accepted + s.accepted
            /\ summary'.quarantined = summary.quarantined + s.slots - s.accepted
        BY <2>2
      <3> QED BY <2>7, <2>8, <2>13, <3>1, <3>2
    <2>11. /\ summary'.succeeded + summary'.failed = Len(records')
           /\ summary'.succeeded = Len(Runs')
      <3>1. /\ summary.succeeded + summary.failed = Len(records)
            /\ summary.succeeded = Len(Runs)
        BY <1>a DEF Counted
      <3>2. /\ summary'.succeeded = summary.succeeded + 1
            /\ summary'.failed = summary.failed
        BY <2>2
      <3> QED BY <1>b, <2>3, <2>6, <2>8, <3>1, <3>2
    <2>12. summary'.radare2 + summary'.rizin = summary'.succeeded
      <3>1. summary.radare2 + summary.rizin = summary.succeeded
        BY <1>a DEF Counted
      <3>2. /\ summary'.succeeded = summary.succeeded + 1
            /\ prod = 1 => summary'.radare2 = summary.radare2 + 1
                           /\ summary'.rizin = summary.rizin
            /\ prod = 2 => summary'.radare2 = summary.radare2
                           /\ summary'.rizin = summary.rizin + 1
        BY <2>2
      <3> QED BY <2>5, <2>8, <3>1, <3>2
    <2> QED BY <2>2, <2>6, <2>9, <2>10, <2>11, <2>12 DEF Counted
  <1> QED BY <1>1, <1>2, <1>3, <1>4, RunsStep

LEMMA TallyStep ==
    ASSUME TypeOK, LoopInv, SpillInv, SummaryInv, [Next]_vars
    PROVE  TallyType'
  <1>0. CoreType /\ TallyType BY TypeParts
  <1>1. Len(attempts') <= 1
    <2> USE DEF memory
    <2>1. CASE CleanFailed
      <3>1. \/ attempts' = <<>>
            \/ attempts' = Recorded /\ prod = 1 /\ pc = "clean"
            \/ attempts' = attempts
        BY <2>1, Zenon DEF CleanFailed
      <3> QED BY <1>0, <3>1, RecordedAttempts DEF TallyType
    <2>2. CASE Select BY <2>2 DEF Select
    <2>3. CASE DropSpills \/ Crash BY <2>3 DEF DropSpills, Crash, Forget
    <2>4. CASE Begin \/ Carve \/ RemoveStale \/ RunAttempt \/ Parse \/ UNCHANGED vars
      BY <1>0, <2>4
      DEF TallyType, Begin, Carve, RemoveStale, RunAttempt, Parse, vars
    <2>5. CASE CleanTerminal \/ CheckSummary \/ OpenTemp \/ WriteTemp \/ Commit
      BY <1>0, <2>5
      DEF TallyType, CleanTerminal, CheckSummary, OpenTemp, WriteTemp, Commit
    <2> QED BY <2>1, <2>2, <2>3, <2>4, <2>5, Zenon DEF Next
  <1>2. records' \in Seq(Records) /\ Len(records') <= N /\ Len(records') \in 0..N
    <2>0. records \in Seq(Records) /\ Len(records) \in 0..N /\ N \in Nat
      BY <1>0, Bounds DEF TallyType
    <2>1. CASE EndFailed
      BY <2>0, <2>1, FailedRecord, Extended DEF EndFailed, Looping
    <2>2. CASE Select
      BY <2>0, <2>2, SelectedRecord, Extended DEF Select, Looping
    <2>3. CASE Forget BY <2>0, <2>3 DEF Forget
    <2> QED BY <2>0, <2>1, <2>2, <2>3, Outcomes DEF Kept
  <1>3. summary' \in Summaries
    <2>2. (summary \in Totals /\ Len(records) \in 0..N /\ Counted
             => summary \in Summaries)'
      BY TotalsBounded, PTL
    <2> QED BY <1>2, <2>2, CountedStep
  <1> QED BY <1>1, <1>2, <1>3 DEF TallyType

LEMMA SummaryStep ==
    TypeOK /\ LoopInv /\ SpillInv /\ SummaryInv /\ [Next]_vars => SummaryInv'
  <1> SUFFICES ASSUME TypeOK, LoopInv, SpillInv, SummaryInv, [Next]_vars
               PROVE  SummaryInv'
    OBVIOUS
  <1>0. CoreType /\ TallyType BY TypeParts
  <1>1. Counted' BY CountedStep
  <1>a. /\ summary.rizin \in Nat /\ summary.failed \in Nat
        /\ summary.succeeded \in Nat /\ prod \in 1..2
    BY <1>0, Bounds DEF CoreType, TallyType, Summaries
  <1>b. /\ summary.rizin > 0 <=> RizinWon
        /\ summary.failed > 0 <=> SomeFailed
    BY DEF SummaryInv, RizinWon, SomeFailed
  <1>2. (summary'.rizin > 0 <=> RizinWon') /\ (summary'.failed > 0 <=> SomeFailed')
    <2>1. CASE Kept BY <1>b, <2>1 DEF Kept, RizinWon, SomeFailed
    <2>2. CASE Forget BY <2>2 DEF Forget, Zero, RizinWon, SomeFailed
    <2>3. CASE EndFailed
      <3>1. summary'.rizin = summary.rizin /\ summary'.failed = summary.failed + 1
        BY <1>0, <2>3 DEF EndFailed, TallyType, Summaries
      <3>2. summary'.failed > 0 BY <1>a, <3>1
      <3> QED BY <1>b, <2>3, <3>1, <3>2, WonStep
    <2>4. CASE Select
      <3>1. /\ summary'.failed = summary.failed
            /\ prod = 1 => summary'.rizin = summary.rizin
            /\ prod = 2 => summary'.rizin = summary.rizin + 1
        BY <2>4, SelectSummary
      <3>2. CASE prod = 1 BY <1>b, <2>4, <3>1, <3>2, WonStep
      <3>3. CASE prod = 2
        <4>1. summary'.rizin > 0 BY <1>a, <3>1, <3>3
        <4> QED BY <1>b, <2>4, <3>1, <3>3, <4>1, WonStep
      <3> QED BY <1>a, <3>2, <3>3
    <2> QED BY <2>1, <2>2, <2>3, <2>4, Outcomes
  <1>3. pc' \in {"open", "write", "commit"} => summary'.succeeded > 0
    <2> SUFFICES ASSUME pc' \in {"open", "write", "commit"}
                 PROVE  summary'.succeeded > 0
      OBVIOUS
    <2>1. CASE CheckSummary BY <2>1 DEF CheckSummary, memory, Abort
    <2>2. CASE OpenTemp \/ WriteTemp \/ Commit
      BY <2>2 DEF OpenTemp, WriteTemp, Commit, memory, Abort, SummaryInv
    <2>3. CASE UNCHANGED vars BY <2>3 DEF vars, SummaryInv
    <2>4. Next => CheckSummary \/ OpenTemp \/ WriteTemp \/ Commit
      BY Zenon
      DEF Next, Begin, Carve, RemoveStale, RunAttempt, Parse, CleanFailed,
          CleanTerminal, Select, DropSpills, Crash, Abort, Advance, Forget
    <2> QED BY <2>1, <2>2, <2>3, <2>4
  <1> QED BY <1>1, <1>2, <1>3 DEF SummaryInv, Counted, RizinWon, SomeFailed

-----------------------------------------------------------------------------
(* What is handed to the assembly.                                         *)

\* Runs come from regions.
LEMMA RunsSomewhere ==
    ASSUME NEW recs \in Seq(Records), RunsOf(recs) # <<>>
    PROVE  \E i \in 1..Len(recs) : recs[i].runs # <<>>
  <1>1. PICK f : /\ f[0] = <<>>
                 /\ \A i \in 1..Len(recs) : f[i] = f[i - 1] \o recs[i].runs
                 /\ RunsOf(recs) = f[Len(recs)]
    BY RunsDef
  <1> DEFINE Bad == {i \in Nat : i <= Len(recs) /\ f[i] # <<>>}
  <1>2. Bad \subseteq Nat /\ Len(recs) \in Bad BY <1>1
  <1>3. PICK n \in Bad : \A m \in Bad : n <= m
    <2> HIDE DEF Bad
    <2> QED BY <1>2, LeastNat
  <1>4. n \in 1..Len(recs) /\ f[n] # <<>>
    <2>1. n # 0 BY <1>1
    <2> QED BY <2>1
  <1>5. n - 1 \notin Bad
    <2> HIDE DEF Bad
    <2> QED BY <1>3, <1>4
  <1>6. f[n - 1] = <<>> BY <1>4, <1>5
  <1>7. f[n] = f[n - 1] \o recs[n].runs BY <1>1, <1>4
  <1>8. recs[n].runs # <<>> BY <1>4, <1>6, <1>7
  <1> QED BY <1>4, <1>8

\* A right record is one the readers take for valid.
LEMMA RightIsValid ==
    ASSUME NEW rec \in Records, NEW i, RecordOK(rec, i)
    PROVE  ValidRegion(rec)
  <1>1. /\ rec.attempts \in Seq(Attempts) /\ rec.runs \in Seq(FnRuns)
        /\ Len(rec.attempts) \in 1..2 /\ Len(rec.runs) \in 0..1
    BY DEF Records, RecordOK
  <1>2. \A j \in DOMAIN rec.attempts :
          /\ rec.attempts[j].producer = Producers[j]
          /\ rec.attempts[j].ok => rec.attempts[j].stdout
          /\ rec.attempts[j].ok => j = Len(rec.attempts)
    BY DEF RecordOK
  <1>3. /\ rec.attempts[Len(rec.attempts)].ok <=> Len(rec.runs) = 1
        /\ rec.attempts[Len(rec.attempts)].ok =>
             rec.runs[1].producer = rec.attempts[Len(rec.attempts)].producer
    BY DEF RecordOK
  <1> DEFINE ps == [j \in DOMAIN rec.runs |-> rec.runs[j].producer]
  <1>4. ps = Successes(rec.attempts)
    <2>1. DOMAIN rec.attempts = 1..Len(rec.attempts) BY <1>1
    <2>2. CASE Len(rec.runs) = 0
      <3>1. ps = <<>> BY <1>1, <2>2
      <3>2. \A j \in DOMAIN rec.attempts : ~rec.attempts[j].ok
        BY <1>2, <1>3, <2>2
      <3>3. ~rec.attempts[1].ok /\ (Len(rec.attempts) = 2 => ~rec.attempts[2].ok)
        BY <1>1, <2>1, <3>2
      <3>4. Successes(rec.attempts) = <<>> \o <<>> BY <3>3, Zenon DEF Successes
      <3> QED BY <3>1, <3>4
    <2>3. CASE Len(rec.runs) = 1
      <3>1. ps = <<rec.runs[1].producer>> BY <1>1, <2>3
      <3>2. /\ rec.attempts[Len(rec.attempts)].ok
            /\ rec.runs[1].producer = rec.attempts[Len(rec.attempts)].producer
        BY <1>3, <2>3
      <3>3. CASE Len(rec.attempts) = 1
        <4>1. Len(rec.attempts) # 2 BY <3>3
        <4>2. Successes(rec.attempts) = <<rec.attempts[1].producer>> \o <<>>
          BY <3>2, <3>3, <4>1, Zenon DEF Successes
        <4> QED BY <3>1, <3>2, <3>3, <4>2
      <3>4. CASE Len(rec.attempts) = 2
        <4>1. ~rec.attempts[1].ok BY <1>2, <2>1, <3>4
        <4>2. Successes(rec.attempts) = <<>> \o <<rec.attempts[2].producer>>
          BY <3>2, <3>4, <4>1, Zenon DEF Successes
        <4> QED BY <3>1, <3>2, <3>4, <4>2
      <3> QED BY <1>1, <3>3, <3>4
    <2> QED BY <1>1, <2>2, <2>3
  <1> QED BY <1>1, <1>2, <1>4 DEF ValidRegion

\* The producers the records name are the attempted ones.
LEMMA AttemptedAgree ==
    ASSUME TypeOK, LoopInv, RecordsInv, RizinInv, pc \in Ended
    PROVE  AttemptedIn(records) = Range(AttemptedProducers)
  <1>1. /\ records \in Seq(Records) /\ Len(records) = N /\ N > 0 /\ N \in Nat
    BY TypeParts, Bounds DEF TallyType, LoopInv
  <1>2. rizinAttempted <=> SecondTried
    BY DEF RizinInv, SecondTried, Ended
  <1>3. \A i \in 1..Len(records) :
          /\ records[i].attempts \in Seq(Attempts)
          /\ Len(records[i].attempts) \in 1..2
          /\ \A j \in 1..Len(records[i].attempts) :
               records[i].attempts[j].producer = Producers[j]
    <2> SUFFICES ASSUME NEW i \in 1..Len(records)
                 PROVE  /\ records[i].attempts \in Seq(Attempts)
                        /\ Len(records[i].attempts) \in 1..2
                        /\ \A j \in 1..Len(records[i].attempts) :
                             records[i].attempts[j].producer = Producers[j]
      OBVIOUS
    <2>1. records[i] \in Records /\ RecordOK(records[i], i)
      BY <1>1 DEF RecordsInv
    <2>2. records[i].attempts \in Seq(Attempts) BY <2>1 DEF Records
    <2>3. DOMAIN records[i].attempts = 1..Len(records[i].attempts) BY <2>2
    <2> QED BY <2>1, <2>2, <2>3, Zenon DEF RecordOK
  <1>4. \A p : p \in AttemptedIn(records) <=>
          \E i \in 1..Len(records) : \E j \in 1..Len(records[i].attempts) :
             p = Producers[j]
    <2>1. DOMAIN records = 1..Len(records) BY <1>1
    <2>2. \A i \in 1..Len(records) :
            DOMAIN records[i].attempts = 1..Len(records[i].attempts)
      BY <1>3
    <2>3. \A p : p \in AttemptedIn(records) <=>
            \E i \in DOMAIN records : \E j \in DOMAIN records[i].attempts :
                p = records[i].attempts[j].producer
      <3> DEFINE U == UNION {Range(records[i].attempts) : i \in DOMAIN records}
      <3>1. AttemptedIn(records) = {a.producer : a \in U} BY DEF AttemptedIn
      <3>2. \A a : a \in U <=> \E i \in DOMAIN records :
                                   a \in Range(records[i].attempts)
        BY Zenon
      <3>3. \A i : \A a : a \in Range(records[i].attempts) <=>
               \E j \in DOMAIN records[i].attempts : a = records[i].attempts[j]
        BY Zenon DEF Range
      <3>4. \A p : p \in AttemptedIn(records) <=> \E a \in U : p = a.producer
        BY <3>1, Zenon
      <3> HIDE DEF U
      <3>5. ASSUME NEW p, p \in AttemptedIn(records)
            PROVE  \E i \in DOMAIN records : \E j \in DOMAIN records[i].attempts :
                        p = records[i].attempts[j].producer
        <4>1. PICK a \in U : p = a.producer BY <3>4, <3>5
        <4>2. PICK i \in DOMAIN records : a \in Range(records[i].attempts)
          BY <3>2
        <4>3. PICK j \in DOMAIN records[i].attempts : a = records[i].attempts[j]
          BY <3>3, <4>2
        <4> QED BY <4>1, <4>2, <4>3, Zenon
      <3>6. ASSUME NEW i \in DOMAIN records, NEW j \in DOMAIN records[i].attempts
            PROVE  records[i].attempts[j].producer \in AttemptedIn(records)
        <4>1. records[i].attempts[j] \in U BY <3>2, <3>3, Zenon
        <4> QED BY <3>4, <4>1, Zenon
      <3> QED BY <3>5, <3>6, Zenon
    <2>4. ASSUME NEW p, p \in AttemptedIn(records)
          PROVE  \E i \in 1..Len(records) : \E j \in 1..Len(records[i].attempts) :
                    p = Producers[j]
      <3>1. PICK i \in DOMAIN records : \E j \in DOMAIN records[i].attempts :
                p = records[i].attempts[j].producer
        BY <2>3, <2>4, Zenon
      <3>2. i \in 1..Len(records) BY <2>1
      <3>3. PICK j \in 1..Len(records[i].attempts) :
              p = records[i].attempts[j].producer
        BY <2>2, <3>1, <3>2, Zenon
      <3>4. p = Producers[j] BY <1>3, <3>2, <3>3, Zenon
      <3> QED BY <3>2, <3>4, Zenon
    <2>5. ASSUME NEW i \in 1..Len(records), NEW j \in 1..Len(records[i].attempts)
          PROVE  Producers[j] \in AttemptedIn(records)
      <3>1. i \in DOMAIN records /\ j \in DOMAIN records[i].attempts
        BY <2>1, <2>2, Zenon
      <3>2. records[i].attempts[j].producer \in AttemptedIn(records)
        BY <2>3, <3>1, Zenon
      <3>3. records[i].attempts[j].producer = Producers[j] BY <1>3, Zenon
      <3> QED BY <3>2, <3>3
    <2> QED BY <2>4, <2>5, Zenon
  <1>5. \A p : p \in AttemptedIn(records) <=>
          p = "radare2" \/ (SecondTried /\ p = "rizin")
    <2> SUFFICES ASSUME NEW p
                 PROVE  p \in AttemptedIn(records) <=>
                          (p = "radare2" \/ (SecondTried /\ p = "rizin"))
      OBVIOUS
    <2>1. ASSUME p \in AttemptedIn(records)
          PROVE  p = "radare2" \/ (SecondTried /\ p = "rizin")
      <3>1. PICK i \in 1..Len(records) :
              \E j \in 1..Len(records[i].attempts) : p = Producers[j]
        BY <1>4, <2>1
      <3>3. PICK j \in 1..Len(records[i].attempts) : p = Producers[j] BY <3>1
      <3>2. j = 1 \/ (j = 2 /\ Len(records[i].attempts) = 2) BY <1>3, SMTT(30)
      <3> QED BY <3>1, <3>2, <3>3, TheProducers DEF SecondTried
    <2>2. "radare2" \in AttemptedIn(records)
      <3>1. 1 \in 1..Len(records) BY <1>1
      <3>3. Len(records[1].attempts) \in 1..2 BY <1>3, <3>1, Zenon
      <3>2. 1 \in 1..Len(records[1].attempts) BY <3>3, SMTT(30)
      <3> QED BY <1>4, <3>1, <3>2, TheProducers
    <2>3. SecondTried => "rizin" \in AttemptedIn(records)
      <3> SUFFICES ASSUME NEW i \in 1..Len(records), Len(records[i].attempts) = 2
                   PROVE  "rizin" \in AttemptedIn(records)
        BY DEF SecondTried
      <3>1. 2 \in 1..Len(records[i].attempts) OBVIOUS
      <3> QED BY <1>4, <3>1, TheProducers
    <2> QED BY <2>1, <2>2, <2>3
  <1>6. \A p : p \in Range(AttemptedProducers) <=>
          (p = "radare2" \/ (rizinAttempted /\ p = "rizin"))
    <2>1. CASE rizinAttempted
      <3>1. AttemptedProducers = <<"radare2", "rizin">>
        BY <2>1 DEF AttemptedProducers, Producers
      <3>2. DOMAIN <<"radare2", "rizin">> = {1, 2} OBVIOUS
      <3>3. <<"radare2", "rizin">>[1] = "radare2" /\ <<"radare2", "rizin">>[2] = "rizin"
        OBVIOUS
      <3> QED BY <2>1, <3>1, <3>2, <3>3 DEF Range
    <2>2. CASE ~rizinAttempted
      <3>1. AttemptedProducers = <<"radare2">> BY <2>2 DEF AttemptedProducers
      <3>2. DOMAIN <<"radare2">> = {1} /\ <<"radare2">>[1] = "radare2" OBVIOUS
      <3> QED BY <2>2, <3>1, <3>2 DEF Range
    <2> QED BY <2>1, <2>2
  <1> QED BY <1>2, <1>5, <1>6

LEMMA MetadataValid ==
    ASSUME TypeOK, LoopInv, RecordsInv, RizinInv, SpillInv, SummaryInv,
           pc \in {"open", "write", "commit"}
    PROVE  ValidMetadata(AttemptedProducers, records)
  <1>0. pc \in Ended BY DEF Ended
  <1>1. /\ records \in Seq(Records) /\ Len(records) = N /\ N \in Nat /\ N > 0
    BY <1>0, TypeParts, Bounds DEF TallyType, LoopInv
  <1>2. AttemptedProducers \in {<<"radare2">>, Producers}
    BY DEF AttemptedProducers
  <1>3. records # <<>> BY <1>1
  <1>4. \A i \in 2..Len(records) : records[i - 1].start < records[i].start
    <2> SUFFICES ASSUME NEW i \in 2..Len(records)
                 PROVE  records[i - 1].start < records[i].start
      OBVIOUS
    <2>1. i - 1 \in 1..Len(records) /\ i \in 1..Len(records) /\ i - 1 < i
      BY <1>1
    <2>2. records[i - 1].start = i - 1 /\ records[i].start = i
      BY <2>1 DEF RecordsInv, RecordOK
    <2> QED BY <2>1, <2>2
  <1>5. \A i \in DOMAIN records : ValidRegion(records[i])
    BY <1>1, RightIsValid DEF RecordsInv
  <1>6. Runs \in Seq(FnRuns) /\ Runs # <<>>
    BY DEF SummaryInv
  <1>7. \A j \in DOMAIN Runs :
          /\ Runs[j].first = NextFunction(Runs)[j - 1] /\ Runs[j].count > 0
          /\ Runs[j].accepted + Runs[j].quarantined = Runs[j].count
    BY <1>0, <1>6 DEF SpillInv, RunOK
  <1>8. AttemptedIn(records) = Range(AttemptedProducers)
    BY <1>0, AttemptedAgree
  <1> QED BY <1>2, <1>3, <1>4, <1>5, <1>6, <1>7, <1>8, Zenon DEF ValidMetadata, Runs

LEMMA AssemblyValid ==
    ASSUME TypeOK, LoopInv, RecordsInv, RizinInv, SpillInv, SummaryInv,
           pc \in {"write", "commit"}
    PROVE  ValidAssembly(AttemptedProducers, records, spills)
  <1>1. pc \in Ended /\ Runs \in Seq(FnRuns) BY DEF Ended, SummaryInv
  <1>2. /\ Len(Runs) = Len(spills)
        /\ \A i \in DOMAIN Runs :
            /\ frags[spills[i]].slots = Runs[i].count
            /\ frags[spills[i]].accepted = Runs[i].accepted
    BY <1>1 DEF SpillInv
  <1>3. ValidMetadata(AttemptedProducers, records) BY MetadataValid
  <1> QED BY <1>2, <1>3, Zenon DEF ValidAssembly, Runs

LEMMA SidecarStep ==
    TypeOK /\ LoopInv /\ RecordsInv /\ RizinInv /\ SpillInv /\ SummaryInv
        /\ SidecarIsWhole /\ [Next]_vars => SidecarIsWhole'
  <1> SUFFICES ASSUME TypeOK, LoopInv, RecordsInv, RizinInv, SpillInv, SummaryInv,
                      SidecarIsWhole, [Next]_vars
               PROVE  SidecarIsWhole'
    OBVIOUS
  <1>1. CASE sidecar' = sidecar BY <1>1 DEF SidecarIsWhole
  <1>2. CASE pc = "commit" /\ sidecar' = Assembled
    <2>1. /\ sidecar'.kind = "doc" /\ sidecar'.producers = AttemptedProducers
          /\ sidecar'.regions = records /\ sidecar'.functions = summary.raw
      BY <1>2 DEF Assembled, Doc
    <2>2. ValidMetadata(AttemptedProducers, records) BY <1>2, MetadataValid
    <2>3. Len(records) = N BY <1>2 DEF LoopInv, Ended
    <2>4. summary.raw = FunctionCount(records)
      BY DEF SummaryInv, FunctionCount, Runs
    <2> QED BY <2>1, <2>2, <2>3, <2>4 DEF SidecarIsWhole
  <1>3. sidecar' = sidecar \/ (pc = "commit" /\ sidecar' = Assembled)
    <2> USE DEF disk
    <2>1. CASE Begin \/ Carve \/ RemoveStale \/ RunAttempt \/ Parse \/ UNCHANGED vars
      BY <2>1 DEF Begin, Carve, RemoveStale, RunAttempt, Parse, vars
    <2>2. CASE CleanFailed \/ CleanTerminal \/ Select \/ CheckSummary \/ OpenTemp
      BY <2>2 DEF CleanFailed, CleanTerminal, Select, CheckSummary, OpenTemp
    <2>3. CASE WriteTemp \/ Commit \/ DropSpills \/ Crash
      BY <2>3 DEF WriteTemp, Commit, DropSpills, Crash
    <2> QED BY <2>1, <2>2, <2>3, Zenon DEF Next
  <1> QED BY <1>1, <1>2, <1>3

-----------------------------------------------------------------------------
(* The inductive invariant and what follows from it.                       *)

LEMMA Initially == Init => IInv
  <1> SUFFICES ASSUME Init PROVE IInv OBVIOUS
  <1> USE DEF Init
  <1>1. CoreType
    <2>1. region \in Regions BY Bounds DEF Regions
    <2>2. run \in 0..MaxRuns BY Bounds
    <2>3. attempts \in Seq(Attempts) /\ spills \in Seq(Paths) OBVIOUS
    <2>4. attempt \in [ok : BOOLEAN, captured : BOOLEAN] BY DEF NoAttempt
    <2>5. frags \in [Paths -> Spills] BY SpillTypes
    <2>6. stdout \in [Paths -> Written \cup {NoFile}] OBVIOUS
    <2>7. sidecar.kind = "none" BY DEF NoDoc
    <2>8. rizin \in BOOLEAN /\ rizinAttempted \in BOOLEAN /\ temp \in BOOLEAN
      BY Zenon
    <2>10. prod \in 1..2 OBVIOUS
    <2>9. pc = "idle" /\ result = "none" OBVIOUS
    <2> HIDE DEF Init
    <2> QED BY <2>1, <2>2, <2>3, <2>4, <2>5, <2>6, <2>7, <2>8, <2>9, <2>10
           DEF CoreType
  <1>2. Runs = <<>> BY RunsEmpty DEF Runs
  <1>3. NextFunction(Runs)[Len(Runs)] = 0
    <2>1. <<>> \in Seq(FnRuns) /\ Len(<<>>) = 0 OBVIOUS
    <2> QED BY <1>2, <2>1, NextDef
  <1>4. Counted
    <2>1. Len(records) = 0 /\ Len(Runs) = 0 /\ Runs \in Seq(FnRuns) BY <1>2
    <2>2. 0 <= 0 * MaxFns BY Bounds
    <2> QED BY <1>3, <2>1, <2>2 DEF Counted, Zero
  <1>5. TallyType
    <2>1. Zero \in Totals BY DEF Zero, Totals
    <2>2. Len(records) \in 0..N BY Bounds
    <2>3. summary \in Summaries BY <1>4, <2>1, <2>2, TotalsBounded
    <2> QED BY <2>2, <2>3 DEF TallyType
  <1>6. TypeOK BY <1>1, <1>5, TypeParts
  <1>7. LoopInv BY DEF LoopInv, Looping, Ended
  <1>8. RecordsInv /\ RizinInv /\ DiskInv /\ SpillInv
    BY DEF RecordsInv, RizinInv, DiskInv, SpillInv, Looping, Ended
  <1>9. SummaryInv BY <1>4 DEF SummaryInv, Counted, Zero
  <1>10. SidecarIsWhole BY DEF SidecarIsWhole, NoDoc
  <1> QED BY <1>6, <1>7, <1>8, <1>9, <1>10 DEF IInv

LEMMA Inductive == IInv /\ [Next]_vars => IInv'
  <1> SUFFICES ASSUME TypeOK, LoopInv, RecordsInv, RizinInv, DiskInv, SpillInv,
                      SummaryInv, SidecarIsWhole, [Next]_vars
               PROVE  IInv'
    BY DEF IInv
  <1>1. CoreType' BY CoreTypeStep, TypeParts
  <1>2. TallyType' BY TallyStep
  <1>3. (TypeOK <=> CoreType /\ TallyType)' BY TypeParts, PTL
  <1>4. TypeOK' BY <1>1, <1>2, <1>3
  <1> QED BY <1>4, LoopStep, RecordsStep, RizinStep, DiskStep, SpillStep,
             SummaryStep, SidecarStep DEF IInv

\* The coordinator's invariant holds throughout.
THEOREM Invariance == Spec => []IInv
  BY Initially, Inductive, PTL DEF Spec

\* The records and the directory agree: every variable is of its type, each
\* recorded capture is the file its own attempt wrote in this run, and a failed
\* attempt left no fragments (run_backend_region).
THEOREM RecordsMatchFiles == Spec => []FilesMatchRecords
  <1>1. IInv => FilesMatchRecords
    <2> SUFFICES ASSUME IInv PROVE FilesMatchRecords OBVIOUS
    <2>1. TypeOK /\ DiskInv /\ RecordsInv BY DEF IInv
    <2>2. /\ records \in Seq(Records) /\ DOMAIN records = 1..Len(records)
      BY <2>1, TypeParts DEF TallyType
    <2>3. ASSUME NEW rec \in Range(records), NEW a \in Range(rec.attempts)
          PROVE  \E i : rec.start = i /\ TrueOnDisk(a, i)
      <3>1. PICK i \in 1..Len(records) : rec = records[i]
        BY <2>2, Zenon DEF Range
      <3>2. records[i] \in Records BY <2>2
      <3>3. DOMAIN rec.attempts = 1..Len(rec.attempts) BY <3>1, <3>2 DEF Records
      <3>4. PICK j \in 1..Len(rec.attempts) : a = rec.attempts[j]
        BY <3>3, Zenon DEF Range
      <3>5. TrueOnDisk(a, i) BY <2>1, <3>1, <3>4 DEF DiskInv
      <3>6. rec.start = i BY <2>1, <3>1 DEF RecordsInv, RecordOK
      <3> QED BY <3>5, <3>6
    <2>4. CapturesAreOwn BY <2>3 DEF CapturesAreOwn, TrueOnDisk, TrueOf
    <2>5. NoFragmentsOfFailures
      BY <2>3 DEF NoFragmentsOfFailures, TrueOnDisk, TrueOf
    <2> QED BY <2>1, <2>4, <2>5 DEF FilesMatchRecords
  <1> QED BY <1>1, Invariance, PTL

\* assemble_v3_into never rejects what the coordinator built: the layout is
\* valid and every spill holds what its run record claims.
THEOREM AssemblyNeverRejects == Spec => []AssemblyAccepts
  <1>1. IInv => AssemblyAccepts
    BY AssemblyValid, Zenon DEF IInv, AssemblyAccepts
  <1> QED BY <1>1, Invariance, PTL

\* thumb_functions.json is absent or whole: valid metadata, every requested
\* region, and exactly the functions of its runs.
THEOREM SidecarWhole == Spec => []SidecarIsWhole
  <1>1. IInv => SidecarIsWhole BY DEF IInv
  <1> QED BY <1>1, Invariance, PTL

\* What validate_thumb_analysis_currentness infers from the summary alone,
\* that rizin was attempted, is what happened.
THEOREM CurrentnessAgrees == Spec => []CurrentnessInference
  <1>1. IInv => CurrentnessInference
    <2> SUFFICES ASSUME IInv, pc \in {"open", "write", "commit"}
                 PROVE  rizinAttempted <=>
                          summary.rizin > 0 \/ (summary.failed > 0 /\ rizin)
      BY DEF CurrentnessInference
    <2>1. TypeOK /\ RecordsInv /\ RizinInv /\ SummaryInv BY DEF IInv
    <2>2. rizinAttempted <=> SecondTried
      BY <2>1 DEF RizinInv, SecondTried, Looping, Ended
    <2>3. (summary.rizin > 0 <=> RizinWon) /\ (summary.failed > 0 <=> SomeFailed)
      BY <2>1 DEF SummaryInv, RizinWon, SomeFailed
    <2>4. \A i \in 1..Len(records) :
            /\ Len(records[i].attempts) = 2 => rizin
            /\ Len(records[i].runs) \in 0..1
            /\ Len(records[i].runs) = 0 /\ rizin => Len(records[i].attempts) = 2
      BY <2>1 DEF RecordsInv, RecordOK
    <2>5. SecondTried => RizinWon \/ (SomeFailed /\ rizin)
      <3> SUFFICES ASSUME NEW i \in 1..Len(records), Len(records[i].attempts) = 2
                   PROVE  RizinWon \/ (SomeFailed /\ rizin)
        BY DEF SecondTried
      <3>1. Len(records[i].runs) = 0 \/ Len(records[i].runs) = 1 BY <2>4
      <3> QED BY <2>4, <3>1 DEF RizinWon, SomeFailed
    <2>6. RizinWon => SecondTried BY DEF RizinWon, SecondTried
    <2>7. SomeFailed /\ rizin => SecondTried BY <2>4 DEF SomeFailed, SecondTried
    <2> QED BY <2>2, <2>3, <2>5, <2>6, <2>7
  <1> QED BY <1>1, Invariance, PTL

\* The published sidecar changes only by the commit of a run that went through
\* every region, none of them terminal, and selected a producer for one.
THEOREM PriorKept == Spec => PriorSidecarKept
  <1> DEFINE Kind == sidecar' # sidecar =>
                        /\ result = "none" /\ result' = "ok"
                        /\ Len(records) = N
                        /\ \E rec \in Range(records) : rec.runs # <<>>
  <1>1. IInv /\ [Next]_vars => [Kind]_vars
    <2> SUFFICES ASSUME IInv, Next, sidecar' # sidecar PROVE Kind
      OBVIOUS
    <2> USE DEF disk
    <2>1. CASE Begin \/ Carve \/ RemoveStale \/ RunAttempt \/ Parse
      BY <2>1 DEF Begin, Carve, RemoveStale, RunAttempt, Parse
    <2>2. CASE CleanFailed \/ CleanTerminal \/ Select \/ CheckSummary \/ OpenTemp
      BY <2>2 DEF CleanFailed, CleanTerminal, Select, CheckSummary, OpenTemp
    <2>3. CASE WriteTemp \/ DropSpills \/ Crash
      BY <2>3 DEF WriteTemp, DropSpills, Crash
    <2>4. CASE Commit
      <3>1. pc = "commit" /\ result' = "ok" BY <2>4 DEF Commit
      <3>2. TypeOK /\ LoopInv /\ SummaryInv BY DEF IInv
      <3>3. result = "none" /\ Len(records) = N BY <3>1, <3>2 DEF LoopInv, Ended
      <3>4. records \in Seq(Records) BY <3>2, TypeParts DEF TallyType
      <3>5. RunsOf(records) # <<>> BY <3>1, <3>2 DEF SummaryInv, Runs
      <3>6. PICK i \in 1..Len(records) : records[i].runs # <<>>
        BY <3>4, <3>5, RunsSomewhere
      <3>7. records[i] \in Range(records)
        <4>1. i \in DOMAIN records BY <3>4
        <4> QED BY <4>1, Zenon DEF Range
      <3> QED BY <3>1, <3>3, <3>6, <3>7
    <2> QED BY <2>1, <2>2, <2>3, <2>4, Zenon DEF Next
  <1>2. Spec => [][Kind]_vars BY <1>1, Invariance, PTL DEF Spec
  <1> QED BY <1>2 DEF PriorSidecarKept


-----------------------------------------------------------------------------
(***************************************************************************)
(* A region.                                                               *)
(***************************************************************************)
-----------------------------------------------------------------------------
(* Induction and recursion over the positions of a sequence.               *)

\* What is true of 0, and of a position when it is of the one before, is true
\* of all of them.
LEMMA EveryPosition ==
    ASSUME NEW last \in Nat, NEW T, 0 \in T,
           \A n \in 1 .. last : n - 1 \in T => n \in T
    PROVE  0 .. last \subseteq T
  <1> DEFINE Off == (0 .. last) \ T
  <1> SUFFICES ASSUME Off # {} PROVE FALSE OBVIOUS
  <1>1. Off \subseteq Nat OBVIOUS
  <1>2. PICK n \in Off : \A m2 \in Off : n <= m2
    <2> HIDE DEF Off
    <2> QED BY <1>1, LeastNat
  <1>3. n \in 1 .. last /\ n - 1 \in 0 .. last /\ ~(n <= n - 1) OBVIOUS
  <1>4. n - 1 \in T BY <1>2, <1>3
  <1> QED BY <1>3, <1>4

\* What is true of a position when it is of all before it, is true of all.
LEMMA EveryPositionStrong ==
    ASSUME NEW last \in Nat, NEW T,
           \A n \in 1 .. last : (\A m2 \in 1 .. (n - 1) : m2 \in T) => n \in T
    PROVE  1 .. last \subseteq T
  <1> DEFINE Off == (1 .. last) \ T
  <1> SUFFICES ASSUME Off # {} PROVE FALSE OBVIOUS
  <1>1. Off \subseteq Nat OBVIOUS
  <1>2. PICK n \in Off : \A m2 \in Off : n <= m2
    <2> HIDE DEF Off
    <2> QED BY <1>1, LeastNat
  <1>3. ASSUME NEW m2 \in 1 .. (n - 1) PROVE m2 \in T
    <2>1. m2 \in 1 .. last /\ ~(n <= m2) OBVIOUS
    <2> QED BY <1>2, <2>1
  <1> QED BY <1>3

\* A function of the positions may be defined by its value at 0 and a step.
Steps(step, last, V) == step \in [(1 .. last) \X V -> V]
Iterates(f, base, step, last, V) ==
    /\ f \in [0 .. last -> V]
    /\ f[0] = base
    /\ \A n \in 1 .. last : f[n] = step[<<n, f[n - 1]>>]

\* A recursive function exists; what a step does with what it has is given
\* as a function.
LEMMA RecursionExists ==
    ASSUME NEW last \in Nat, NEW V, NEW base \in V, NEW step, Steps(step, last, V)
    PROVE  \E f : Iterates(f, base, step, last, V)
  <1> USE DEF Steps
  <1> DEFINE Def(f, l) == f = [n \in 0 .. l |-> IF n = 0 THEN base ELSE step[<<n, f[n - 1]>>]]
             Has == {l \in 0 .. last : \E f \in [0 .. l -> V] : Def(f, l)}
  <1>1. 0 \in Has
    <2>1. [n \in 0 .. 0 |-> base] \in [0 .. 0 -> V] OBVIOUS
    <2>2. Def([n \in 0 .. 0 |-> base], 0) OBVIOUS
    <2>3. 0 \in 0 .. last OBVIOUS
    <2> HIDE DEF Def
    <2> QED BY <2>1, <2>2, <2>3
  <1>2. ASSUME NEW l \in 1 .. last, l - 1 \in Has PROVE l \in Has
    <2>1. PICK f \in [0 .. (l - 1) -> V] : Def(f, l - 1)
      <3> HIDE DEF Def
      <3> QED BY <1>2
    <2>2. f[l - 1] \in V OBVIOUS
    <2> DEFINE v == step[<<l, f[l - 1]>>]
               g == [n \in 0 .. l |-> IF n = l THEN v ELSE f[n]]
    <2>3. v \in V
      <3>1. <<l, f[l - 1]>> \in (1 .. last) \X V BY <2>2
      <3> QED BY <3>1
    <2>4. g \in [0 .. l -> V]
      <3> HIDE DEF v
      <3>1. ASSUME NEW n \in 0 .. l, n # l PROVE n \in 0 .. (l - 1) BY <3>1
      <3> QED BY <2>3, <3>1
    <2>5. ASSUME NEW n \in 0 .. l
          PROVE  g[n] = IF n = 0 THEN base ELSE step[<<n, g[n - 1]>>]
      <3>1. CASE n = l
        <4>1. n - 1 \in 0 .. l /\ n - 1 # l /\ n # 0 BY <3>1
        <4> QED BY <3>1, <4>1
      <3>2. CASE n # l
        <4>1. n \in 0 .. (l - 1) BY <3>2
        <4>2. f[n] = IF n = 0 THEN base ELSE step[<<n, f[n - 1]>>] BY <2>1, <4>1
        <4>3. n # 0 => n - 1 \in 0 .. l /\ n - 1 # l BY <4>1
        <4> QED BY <3>2, <4>2, <4>3
      <3> QED BY <3>1, <3>2
    <2>6. Def(g, l)
      <3>1. g = [n \in 0 .. l |-> g[n]] OBVIOUS
      <3> HIDE DEF g
      <3> QED BY <2>5, <3>1
    <2>7. l \in 0 .. last OBVIOUS
    <2> HIDE DEF Def, g
    <2> QED BY <2>4, <2>6, <2>7
  <1>3. 0 .. last \subseteq Has
    <2> HIDE DEF Has
    <2> QED BY <1>1, <1>2, EveryPosition
  <1>4. PICK f \in [0 .. last -> V] : Def(f, last)
    <2> HIDE DEF Def
    <2> QED BY <1>3
  <1>5. ASSUME NEW n \in 0 .. last
        PROVE  f[n] = IF n = 0 THEN base ELSE step[<<n, f[n - 1]>>]
    BY <1>4
  <1>6. 0 \in 0 .. last OBVIOUS
  <1>7. ASSUME NEW n \in 1 .. last PROVE n \in 0 .. last /\ n # 0 OBVIOUS
  <1> QED BY <1>5, <1>6, <1>7 DEF Iterates

-----------------------------------------------------------------------------
(* What the recursive definitions compute.                                 *)

\* A sum, by its parts.
LEMMA TotalDef ==
    ASSUME NEW s \in Seq(Nat)
    PROVE  \E sum \in [0 .. Len(s) -> Nat] :
             /\ Total(s) = sum[Len(s)]
             /\ sum[0] = 0
             /\ \A n \in 1 .. Len(s) : sum[n] = sum[n - 1] + s[n]
  <1> DEFINE L == Len(s)
             step == [x \in (1 .. L) \X Nat |-> x[2] + s[x[1]]]
             Def(f) == f = [n \in 0 .. L |-> IF n = 0 THEN 0 ELSE f[n - 1] + s[n]]
  <1>1. L \in Nat OBVIOUS
  <1>2. step \in [(1 .. L) \X Nat -> Nat] OBVIOUS
  <1>3. PICK g : Iterates(g, 0, step, L, Nat)
    <2>1. Steps(step, L, Nat) BY <1>2 DEF Steps
    <2>2. 0 \in Nat OBVIOUS
    <2> HIDE DEF step, L
    <2> QED BY <1>1, <2>1, <2>2, RecursionExists
  <1>4. ASSUME NEW n \in 1 .. L PROVE step[<<n, g[n - 1]>>] = g[n - 1] + s[n]
    <2>1. n - 1 \in 0 .. L OBVIOUS
    <2>2. g[n - 1] \in Nat BY <1>3, <2>1 DEF Iterates
    <2> QED BY <2>2
  <1>5. Def(g)
    <2>1. ASSUME NEW n \in 0 .. L
          PROVE  g[n] = IF n = 0 THEN 0 ELSE g[n - 1] + s[n]
      <3>1. n # 0 => n \in 1 .. L OBVIOUS
      <3> HIDE DEF step, L
      <3> QED BY <1>3, <1>4, <3>1 DEF Iterates
    <2>2. g = [n \in 0 .. L |-> g[n]] BY <1>3 DEF Iterates
    <2> HIDE DEF step, L
    <2> QED BY <2>1, <2>2
  <1>6. PICK f : Def(f) /\ Total(s) = f[L]
    <2>1. \E f : Def(f) BY <1>5
    <2> HIDE DEF step
    <2> QED BY <2>1, Zenon DEF Total
  <1>7. ASSUME NEW n \in 1 .. L PROVE f[n] = f[n - 1] + s[n]
    <2>1. n \in 0 .. L /\ n # 0 OBVIOUS
    <2> HIDE DEF L
    <2> QED BY <1>6, <2>1
  <1>8. f[0] = 0
    <2>1. 0 \in 0 .. L OBVIOUS
    <2> HIDE DEF L
    <2> QED BY <1>6, <2>1
  <1> DEFINE T == {n \in 0 .. L : f[n] \in Nat}
  <1>9. 0 .. L \subseteq T
    <2>1. 0 \in T BY <1>8
    <2>2. ASSUME NEW n \in 1 .. L, n - 1 \in T PROVE n \in T
      <3>1. s[n] \in Nat OBVIOUS
      <3>2. f[n - 1] \in Nat BY <2>2
      <3> QED BY <1>7, <3>1, <3>2
    <2> HIDE DEF T, L
    <2> QED BY <1>1, <2>1, <2>2, EveryPosition
  <1>10. f \in [0 .. L -> Nat]
    <2>1. f = [n \in 0 .. L |-> f[n]]
      <3> HIDE DEF L
      <3> QED BY <1>6
    <2> QED BY <1>9, <2>1
  <1> QED BY <1>6, <1>7, <1>8, <1>10

\* The elements of a kind are elements of that kind.
LEMMA OfKindType ==
    ASSUME NEW E, NEW elems \in Seq(E), NEW kind
    PROVE  OfKind(elems, kind) \in Seq({e \in E : e.is = kind})
  <1> DEFINE K == {e \in E : e.is = kind}
             V == Seq(K)
             L == Len(elems)
             step == [x \in (1 .. L) \X V |->
                        IF elems[x[1]].is = kind THEN Append(x[2], elems[x[1]]) ELSE x[2]]
             Def(f) == f = [n \in 0 .. L |->
                              IF n = 0 THEN <<>>
                              ELSE IF elems[n].is = kind THEN Append(f[n - 1], elems[n])
                              ELSE f[n - 1]]
  <1>1. L \in Nat OBVIOUS
  <1>2. ASSUME NEW n \in 1 .. L, NEW v \in V
        PROVE  IF elems[n].is = kind THEN Append(v, elems[n]) \in V ELSE v \in V
    <2>1. elems[n] \in E OBVIOUS
    <2>2. CASE elems[n].is = kind
      <3>1. elems[n] \in K BY <2>1, <2>2
      <3> HIDE DEF K
      <3> QED BY <2>2, <3>1
    <2> QED BY <2>2
  <1>3. PICK g : Iterates(g, <<>>, step, L, V)
    <2>1. <<>> \in V OBVIOUS
    <2>2. Steps(step, L, V)
      <3> HIDE DEF V, L
      <3> QED BY <1>2 DEF Steps
    <2> HIDE DEF step, L, V
    <2> QED BY <1>1, <2>1, <2>2, RecursionExists
  <1>4. ASSUME NEW n \in 1 .. L
        PROVE  step[<<n, g[n - 1]>>] =
                 IF elems[n].is = kind THEN Append(g[n - 1], elems[n]) ELSE g[n - 1]
    <2>1. n - 1 \in 0 .. L OBVIOUS
    <2> HIDE DEF V
    <2>2. g[n - 1] \in V BY <1>3, <2>1 DEF Iterates
    <2> QED BY <2>2
  <1>5. Def(g)
    <2>1. ASSUME NEW n \in 0 .. L
          PROVE  g[n] = IF n = 0 THEN <<>>
                        ELSE IF elems[n].is = kind THEN Append(g[n - 1], elems[n])
                        ELSE g[n - 1]
      <3>1. n # 0 => n \in 1 .. L OBVIOUS
      <3> HIDE DEF step, L, V
      <3> QED BY <1>3, <1>4, <3>1 DEF Iterates
    <2>2. g = [n \in 0 .. L |-> g[n]] BY <1>3 DEF Iterates
    <2> HIDE DEF step, L
    <2> QED BY <2>1, <2>2
  <1>6. PICK f : Def(f) /\ OfKind(elems, kind) = f[L]
    <2>1. \E f : Def(f) BY <1>5
    <2> HIDE DEF step
    <2> QED BY <2>1, Zenon DEF OfKind
  <1> DEFINE T == {n \in 0 .. L : f[n] \in V}
  <1>7. 0 .. L \subseteq T
    <2>1. 0 \in T
      <3>1. 0 \in 0 .. L OBVIOUS
      <3>2. f[0] = <<>>
        <4> HIDE DEF L
        <4> QED BY <1>6, <3>1
      <3>3. <<>> \in V OBVIOUS
      <3> HIDE DEF V, L
      <3> QED BY <3>1, <3>2, <3>3
    <2>2. ASSUME NEW n \in 1 .. L, n - 1 \in T PROVE n \in T
      <3>1. n \in 0 .. L /\ n # 0 OBVIOUS
      <3> HIDE DEF L, V
      <3>2. f[n] = IF elems[n].is = kind THEN Append(f[n - 1], elems[n]) ELSE f[n - 1]
        BY <1>6, <3>1
      <3>3. f[n - 1] \in V BY <2>2
      <3> QED BY <1>2, <3>1, <3>2, <3>3
    <2> HIDE DEF T, L
    <2> QED BY <1>1, <2>1, <2>2, EveryPosition
  <1>8. L \in T BY <1>7
  <1> QED BY <1>6, <1>8

\* What values are made of, one after another, is made of the same.
LEMMA FlattenedType ==
    ASSUME NEW E, NEW values, NEW L \in Nat, Len(values) = L,
           \A k \in 1 .. L : values[k].elems \in Seq(E)
    PROVE  Flattened(values) \in Seq(E)
  <1> DEFINE V == Seq(E)
             step == [x \in (1 .. L) \X V |-> x[2] \o values[x[1]].elems]
             Def(f) == f = [n \in 0 .. L |-> IF n = 0 THEN <<>> ELSE f[n - 1] \o values[n].elems]
  <1>1. ASSUME NEW n \in 1 .. L, NEW v \in V PROVE v \o values[n].elems \in V
    OBVIOUS
  <1>2. PICK g : Iterates(g, <<>>, step, L, V)
    <2>1. <<>> \in V OBVIOUS
    <2>2. Steps(step, L, V)
      <3> HIDE DEF V
      <3> QED BY <1>1 DEF Steps
    <2> HIDE DEF step, V
    <2> QED BY <2>1, <2>2, RecursionExists
  <1>3. ASSUME NEW n \in 1 .. L
        PROVE  step[<<n, g[n - 1]>>] = g[n - 1] \o values[n].elems
    <2>1. n - 1 \in 0 .. L OBVIOUS
    <2> HIDE DEF V
    <2>2. g[n - 1] \in V BY <1>2, <2>1 DEF Iterates
    <2> QED BY <2>2
  <1>4. Def(g)
    <2>1. ASSUME NEW n \in 0 .. L
          PROVE  g[n] = IF n = 0 THEN <<>> ELSE g[n - 1] \o values[n].elems
      <3>1. n # 0 => n \in 1 .. L OBVIOUS
      <3> HIDE DEF step, V
      <3> QED BY <1>2, <1>3, <3>1 DEF Iterates
    <2>2. g = [n \in 0 .. L |-> g[n]] BY <1>2 DEF Iterates
    <2> HIDE DEF step
    <2> QED BY <2>1, <2>2
  <1>5. PICK f : Def(f) /\ Flattened(values) = f[L]
    <2>1. \E f : Def(f) BY <1>4
    <2> HIDE DEF step
    <2> QED BY <2>1, Zenon DEF Flattened
  <1> DEFINE T == {n \in 0 .. L : f[n] \in V}
  <1>6. 0 .. L \subseteq T
    <2>1. 0 \in T
      <3>1. 0 \in 0 .. L OBVIOUS
      <3>2. f[0] = <<>> BY <1>5, <3>1
      <3>3. <<>> \in V OBVIOUS
      <3> HIDE DEF V
      <3> QED BY <3>1, <3>2, <3>3
    <2>2. ASSUME NEW n \in 1 .. L, n - 1 \in T PROVE n \in T
      <3>1. n \in 0 .. L /\ n # 0 OBVIOUS
      <3> HIDE DEF V
      <3>2. f[n] = f[n - 1] \o values[n].elems BY <1>5, <3>1
      <3>3. f[n - 1] \in V BY <2>2
      <3> QED BY <1>1, <3>1, <3>2, <3>3
    <2> HIDE DEF T
    <2> QED BY <2>1, <2>2, EveryPosition
  <1>7. L \in T BY <1>6
  <1> QED BY <1>5, <1>7

\* Ranges of addresses, and how far the first n of them reach.
ARange == [start : Nat, end : Nat]

\* How far the first ranges reach.
LEMMA FarthestFacts ==
    ASSUME NEW xs \in Seq(ARange)
    PROVE  \A n \in 0 .. Len(xs) :
             /\ Farthest(xs)[n] \in Nat
             /\ \A j \in 1 .. n : xs[j].end <= Farthest(xs)[n]
             /\ Farthest(xs)[n] = 0 \/ \E j \in 1 .. n : xs[j].end = Farthest(xs)[n]
  <1> DEFINE L == Len(xs)
             Further(n, v) == IF xs[n].end > v THEN xs[n].end ELSE v
             step == [x \in (1 .. L) \X Nat |-> Further(x[1], x[2])]
             Def(f) == f = [n \in 0 .. L |-> IF n = 0 THEN 0
                                             ELSE IF xs[n].end > f[n - 1] THEN xs[n].end
                                             ELSE f[n - 1]]
  <1>1. L \in Nat OBVIOUS
  <1>2. ASSUME NEW n \in 1 .. L PROVE xs[n].end \in Nat
    <2>1. xs[n] \in ARange OBVIOUS
    <2> QED BY <2>1 DEF ARange
  <1>3. PICK g : Iterates(g, 0, step, L, Nat)
    <2>1. 0 \in Nat OBVIOUS
    <2>2. Steps(step, L, Nat)
      <3> HIDE DEF L
      <3> QED BY <1>2 DEF Steps
    <2> HIDE DEF step, L
    <2> QED BY <1>1, <2>1, <2>2, RecursionExists
  <1>4. ASSUME NEW n \in 1 .. L PROVE step[<<n, g[n - 1]>>] = Further(n, g[n - 1])
    <2>1. n - 1 \in 0 .. L OBVIOUS
    <2>2. g[n - 1] \in Nat BY <1>3, <2>1 DEF Iterates
    <2> HIDE DEF Further
    <2> QED BY <2>2
  <1>5. Def(g)
    <2>1. ASSUME NEW n \in 0 .. L
          PROVE  g[n] = IF n = 0 THEN 0 ELSE Further(n, g[n - 1])
      <3>1. n # 0 => n \in 1 .. L OBVIOUS
      <3> HIDE DEF step, L, Further
      <3> QED BY <1>3, <1>4, <3>1 DEF Iterates
    <2>2. g = [n \in 0 .. L |-> g[n]] BY <1>3 DEF Iterates
    <2> HIDE DEF step, L
    <2> QED BY <2>1, <2>2
  <1>6. PICK f : Def(f) /\ Farthest(xs) = f
    <2>1. \E f : Def(f) BY <1>5
    <2> HIDE DEF step
    <2> QED BY <2>1, Zenon DEF Farthest
  <1> DEFINE T == {n \in 0 .. L : /\ f[n] \in Nat
                                  /\ \A j \in 1 .. n : xs[j].end <= f[n]
                                  /\ f[n] = 0 \/ \E j \in 1 .. n : xs[j].end = f[n]}
  <1>7. 0 .. L \subseteq T
    <2>1. 0 \in T
      <3>1. 0 \in 0 .. L OBVIOUS
      <3>2. f[0] = 0
        <4> HIDE DEF L
        <4> QED BY <1>6, <3>1
      <3> QED BY <3>1, <3>2
    <2>2. ASSUME NEW n \in 1 .. L, n - 1 \in T PROVE n \in T
      <3>1. n \in 0 .. L /\ n # 0 OBVIOUS
      <3>2. f[n] = Further(n, f[n - 1])
        <4> HIDE DEF L
        <4> QED BY <1>6, <3>1
      <3>3. /\ f[n - 1] \in Nat
            /\ \A j \in 1 .. (n - 1) : xs[j].end <= f[n - 1]
            /\ f[n - 1] = 0 \/ \E j \in 1 .. (n - 1) : xs[j].end = f[n - 1]
        <4> HIDE DEF L
        <4> QED BY <2>2
      <3>4. xs[n].end \in Nat BY <1>2
      <3>5. f[n] \in Nat /\ xs[n].end <= f[n] /\ f[n - 1] <= f[n] BY <3>2, <3>3, <3>4
      <3>6. ASSUME NEW j \in 1 .. n PROVE xs[j].end <= f[n]
        <4>1. CASE j = n BY <3>5, <4>1
        <4>2. CASE j # n
          <5>1. j \in 1 .. (n - 1) /\ j \in 1 .. L BY <4>2
          <5>2. xs[j].end \in Nat BY <1>2, <5>1
          <5> QED BY <3>3, <3>5, <5>1, <5>2
        <4> QED BY <4>1, <4>2
      <3>7. f[n] = 0 \/ \E j \in 1 .. n : xs[j].end = f[n]
        <4>1. CASE xs[n].end > f[n - 1]
          <5>1. xs[n].end = f[n] /\ n \in 1 .. n BY <3>2, <4>1
          <5> QED BY <5>1
        <4>2. CASE ~(xs[n].end > f[n - 1])
          <5>1. f[n] = f[n - 1] BY <3>2, <4>2
          <5>2. \A j \in 1 .. (n - 1) : j \in 1 .. n OBVIOUS
          <5> QED BY <3>3, <5>1, <5>2
        <4> QED BY <4>1, <4>2
      <3> HIDE DEF L, Further
      <3> QED BY <3>1, <3>5, <3>6, <3>7
    <2> HIDE DEF T, L
    <2> QED BY <1>1, <2>1, <2>2, EveryPosition
  <1> QED
    <2> HIDE DEF Def, L
    <2> QED BY <1>6, <1>7 DEF L

-----------------------------------------------------------------------------
(* Ranges of addresses.                                                    *)

In(x, a) == x.start <= a /\ a < x.end
Cover(xs) == {a \in Nat : \E k \in 1 .. Len(xs) : In(xs[k], a)}

\* One after another; one after another and apart.
InOrder(xs) ==
    /\ xs \in Seq(ARange)
    /\ \A k \in 1 .. Len(xs) : xs[k].start < xs[k].end
    /\ \A j, k \in 1 .. Len(xs) : j < k => xs[j].end <= xs[k].start

Apart(xs) ==
    /\ xs \in Seq(ARange)
    /\ \A k \in 1 .. Len(xs) : xs[k].start < xs[k].end
    /\ \A k \in 2 .. Len(xs) : xs[k - 1].end < xs[k].start

\* A range more changes the last range, or is the last one.
LEMMA JoinFacts ==
    ASSUME NEW s \in Seq(ARange), NEW x \in ARange
    PROVE  /\ Join(s, x) \in Seq(ARange)
           /\ s # <<>> /\ s[Len(s)].end = x.start =>
                /\ Len(Join(s, x)) = Len(s)
                /\ \A k \in 1 .. Len(s) : k # Len(s) => Join(s, x)[k] = s[k]
                /\ Join(s, x)[Len(s)] = [start |-> s[Len(s)].start, end |-> x.end]
           /\ ~(s # <<>> /\ s[Len(s)].end = x.start) => Join(s, x) = Append(s, x)
  <1>1. CASE s # <<>> /\ s[Len(s)].end = x.start
    <2> DEFINE L == Len(s)
               last == s[L]
               r == [last EXCEPT !.end = x.end]
    <2>1. L \in Nat /\ L \in 1 .. L /\ DOMAIN s = 1 .. L BY <1>1
    <2>2. last \in ARange BY <2>1
    <2>3. last = [start |-> last.start, end |-> last.end]
      <3> HIDE DEF last
      <3> QED BY <2>2 DEF ARange
    <2>4. r = [start |-> last.start, end |-> x.end]
      <3> HIDE DEF last
      <3> QED BY <2>3
    <2>5. r \in ARange
      <3> HIDE DEF last, r
      <3> QED BY <2>2, <2>4 DEF ARange
    <2>6. Join(s, x) = [s EXCEPT ![L] = r]
      BY <1>1 DEF Join, Last
    <2>7. [s EXCEPT ![L] = r] \in Seq(ARange) /\ Len([s EXCEPT ![L] = r]) = L
      <3> HIDE DEF r, last
      <3> QED BY <2>1, <2>5
    <2>8. [s EXCEPT ![L] = r][L] = r
      <3> HIDE DEF r, last
      <3> QED BY <2>1, SMTT(30)
    <2>9. \A k \in 1 .. L : k # L => [s EXCEPT ![L] = r][k] = s[k]
      <3> HIDE DEF r, last
      <3> QED BY <2>1
    <2> QED
      <3> HIDE DEF r
      <3> QED BY <1>1, <2>4, <2>6, <2>7, <2>8, <2>9
  <1>2. CASE ~(s # <<>> /\ s[Len(s)].end = x.start)
    <2>1. Join(s, x) = Append(s, x) BY <1>2 DEF Join, Last
    <2> QED BY <1>2, <2>1
  <1> QED BY <1>1, <1>2, SMTT(30)

\* What is joined is as much of it as there is, in ranges that are apart.
LEMMA JoinStep ==
    ASSUME NEW s, Apart(s), NEW x \in ARange, x.start < x.end,
           s # <<>> => s[Len(s)].end <= x.start
    PROVE  /\ Apart(Join(s, x)) /\ Join(s, x) # <<>>
           /\ Join(s, x)[Len(Join(s, x))].end = x.end
           /\ \A a \in Nat : a \in Cover(Join(s, x)) <=> a \in Cover(s) \/ In(x, a)
  <1> DEFINE t == Join(s, x)
             L == Len(s)
  <1>1. s \in Seq(ARange) /\ L \in Nat BY DEF Apart
  <1>2. t \in Seq(ARange) BY <1>1, JoinFacts
  <1>3. x.start \in Nat /\ x.end \in Nat BY DEF ARange
  <1>4. \A k \in 1 .. L : s[k].start \in Nat /\ s[k].end \in Nat
    <2>1. \A k \in 1 .. L : s[k] \in ARange BY <1>1
    <2> QED BY <2>1 DEF ARange
  <1>5. CASE s # <<>> /\ s[L].end = x.start
    <2>1. /\ Len(t) = L
          /\ \A k \in 1 .. L : k # L => t[k] = s[k]
          /\ t[L] = [start |-> s[L].start, end |-> x.end]
      BY <1>1, <1>5, JoinFacts
    <2>2. L \in 1 .. L BY <1>1, <1>5
    <2>3. t[L].start = s[L].start /\ t[L].end = x.end BY <2>1
    <2>4. s[L].start < s[L].end BY <2>2 DEF Apart
    <2> HIDE DEF t
    <2>5. \A k \in 1 .. L : t[k].start < t[k].end
      <3> TAKE k \in 1 .. L
      <3>1. CASE k = L BY <1>3, <1>4, <1>5, <2>2, <2>3, <2>4, <3>1
      <3>2. CASE k # L BY <2>1, <3>2 DEF Apart
      <3> QED BY <3>1, <3>2
    <2>6. \A k \in 2 .. L : t[k - 1].end < t[k].start
      <3> TAKE k \in 2 .. L
      <3>1. k - 1 \in 1 .. L /\ k - 1 # L /\ k \in 1 .. L BY <1>1
      <3>2. t[k - 1] = s[k - 1] BY <2>1, <3>1
      <3>3. t[k].start = s[k].start BY <2>1, <2>3, <3>1
      <3>4. s[k - 1].end < s[k].start BY DEF Apart
      <3> QED BY <3>2, <3>3, <3>4
    <2>7. ASSUME NEW a \in Nat
          PROVE  a \in Cover(t) <=> a \in Cover(s) \/ In(x, a)
      <3>1. ASSUME NEW k \in 1 .. L, In(t[k], a)
            PROVE  (\E j \in 1 .. L : In(s[j], a)) \/ In(x, a)
        <4>1. CASE k # L BY <2>1, <3>1, <4>1
        <4>2. CASE k = L
          <5>1. s[L].start <= a /\ a < x.end BY <2>3, <3>1, <4>2 DEF In
          <5>2. a < s[L].end \/ x.start <= a BY <1>3, <1>4, <1>5, <2>2
          <5> QED BY <2>2, <5>1, <5>2 DEF In
        <4> QED BY <4>1, <4>2
      <3>2. ASSUME NEW k \in 1 .. L, In(s[k], a)
            PROVE  \E j \in 1 .. L : In(t[j], a)
        <4>1. CASE k # L BY <2>1, <3>2, <4>1
        <4>2. CASE k = L
          <5>1. s[L].start <= a /\ a < s[L].end BY <3>2, <4>2 DEF In
          <5>2. a < x.end BY <1>3, <1>4, <1>5, <2>2, <5>1
          <5>3. In(t[L], a) BY <2>3, <5>1, <5>2 DEF In
          <5> QED BY <2>2, <5>3
        <4> QED BY <4>1, <4>2
      <3>3. ASSUME In(x, a) PROVE \E j \in 1 .. L : In(t[j], a)
        <4>1. x.start <= a /\ a < x.end BY <3>3 DEF In
        <4>2. s[L].start <= a BY <1>3, <1>4, <1>5, <2>2, <2>4, <4>1
        <4>3. In(t[L], a) BY <2>3, <4>1, <4>2 DEF In
        <4> QED BY <2>2, <4>3
      <3> QED BY <2>1, <3>1, <3>2, <3>3 DEF Cover
    <2>8. t # <<>> BY <1>5, <2>1, <2>2
    <2>9. Apart(t) BY <1>2, <2>1, <2>5, <2>6 DEF Apart
    <2> QED BY <2>1, <2>3, <2>7, <2>8, <2>9 DEF t
  <1>6. CASE ~(s # <<>> /\ s[L].end = x.start)
    <2>1. t = Append(s, x) BY <1>1, <1>6, JoinFacts
    <2>2. /\ Len(t) = L + 1
          /\ \A k \in 1 .. L : t[k] = s[k]
          /\ t[L + 1] = x
      BY <1>1, <2>1
    <2>3. L + 1 \in 1 .. (L + 1) BY <1>1
    <2> HIDE DEF t
    <2>5. \A k \in 1 .. (L + 1) : t[k].start < t[k].end
      <3> TAKE k \in 1 .. (L + 1)
      <3>1. CASE k = L + 1 BY <2>2, <3>1
      <3>2. CASE k # L + 1
        <4>1. k \in 1 .. L BY <1>1, <3>2
        <4> QED BY <2>2, <4>1 DEF Apart
      <3> QED BY <3>1, <3>2
    <2>6. \A k \in 2 .. (L + 1) : t[k - 1].end < t[k].start
      <3> TAKE k \in 2 .. (L + 1)
      <3>1. CASE k = L + 1
        <4>1. L \in 1 .. L /\ k - 1 = L BY <1>1, <3>1
        <4>2. s # <<>> BY <1>1, <4>1
        <4>3. s[L].end < x.start BY <1>3, <1>4, <1>6, <4>1, <4>2
        <4> QED BY <2>2, <3>1, <4>1, <4>3
      <3>2. CASE k # L + 1
        <4>1. k \in 2 .. L /\ k \in 1 .. L /\ k - 1 \in 1 .. L BY <1>1, <3>2
        <4> QED BY <2>2, <4>1 DEF Apart
      <3> QED BY <3>1, <3>2
    <2>7. ASSUME NEW a \in Nat
          PROVE  a \in Cover(t) <=> a \in Cover(s) \/ In(x, a)
      <3>1. ASSUME NEW k \in 1 .. (L + 1), In(t[k], a)
            PROVE  (\E j \in 1 .. L : In(s[j], a)) \/ In(x, a)
        <4>1. CASE k # L + 1
          <5>1. k \in 1 .. L BY <1>1, <4>1
          <5> QED BY <2>2, <3>1, <5>1
        <4>2. CASE k = L + 1 BY <2>2, <3>1, <4>2
        <4> QED BY <4>1, <4>2
      <3>2. \A k \in 1 .. L : k \in 1 .. (L + 1) BY <1>1
      <3> QED BY <2>2, <2>3, <3>1, <3>2 DEF Cover
    <2>8. t # <<>> BY <1>1, <2>2
    <2>9. Apart(t) BY <1>2, <2>2, <2>5, <2>6 DEF Apart
    <2> QED BY <2>2, <2>7, <2>8, <2>9 DEF t
  <1> QED BY <1>5, <1>6

\* Ranges in order, joined, are apart and cover the same addresses.
LEMMA JoinedFacts ==
    ASSUME NEW xs, InOrder(xs)
    PROVE  Apart(Joined(xs)) /\ Cover(Joined(xs)) = Cover(xs)
  <1> DEFINE L == Len(xs)
             V == Seq(ARange)
             step == [x \in (1 .. L) \X V |-> Join(x[2], xs[x[1]])]
             Def(f) == f = [n \in 0 .. L |-> IF n = 0 THEN <<>> ELSE Join(f[n - 1], xs[n])]
  <1>1. xs \in Seq(ARange) /\ L \in Nat BY DEF InOrder
  <1>2. \A n \in 1 .. L : xs[n] \in ARange BY <1>1
  <1>3. PICK g : Iterates(g, <<>>, step, L, V)
    <2>1. <<>> \in V OBVIOUS
    <2>2. ASSUME NEW n \in 1 .. L, NEW v \in V PROVE Join(v, xs[n]) \in V
      BY <1>2, JoinFacts
    <2>3. Steps(step, L, V)
      <3> HIDE DEF L, V
      <3> QED BY <2>2 DEF Steps
    <2> HIDE DEF step, L, V
    <2> QED BY <1>1, <2>1, <2>3, RecursionExists
  <1>4. ASSUME NEW n \in 1 .. L PROVE step[<<n, g[n - 1]>>] = Join(g[n - 1], xs[n])
    <2>1. n - 1 \in 0 .. L BY <1>1
    <2> HIDE DEF V
    <2>2. g[n - 1] \in V BY <1>3, <2>1 DEF Iterates
    <2> QED BY <2>2
  <1>5. Def(g)
    <2>1. ASSUME NEW n \in 0 .. L
          PROVE  g[n] = IF n = 0 THEN <<>> ELSE Join(g[n - 1], xs[n])
      <3>1. n # 0 => n \in 1 .. L BY <1>1
      <3> HIDE DEF step, L, V
      <3> QED BY <1>3, <1>4, <3>1 DEF Iterates
    <2>2. g = [n \in 0 .. L |-> g[n]] BY <1>3 DEF Iterates
    <2> HIDE DEF step, L
    <2> QED BY <2>1, <2>2
  <1>6. PICK f : Def(f) /\ Joined(xs) = f[L]
    <2>1. \E f : Def(f) BY <1>5
    <2> HIDE DEF step
    <2> QED BY <2>1, Zenon DEF Joined
  <1> DEFINE First(n) == {a \in Nat : \E k \in 1 .. n : In(xs[k], a)}
             Good(n) == /\ Apart(f[n])
                        /\ n = 0 => f[n] = <<>>
                        /\ n # 0 => f[n] # <<>> /\ f[n][Len(f[n])].end = xs[n].end
                        /\ \A a \in Nat : a \in Cover(f[n]) <=> a \in First(n)
             T == {n \in 0 .. L : Good(n)}
  <1>7. 0 .. L \subseteq T
    <2>1. 0 \in T
      <3>1. 0 \in 0 .. L BY <1>1
      <3>2. f[0] = <<>>
        <4> HIDE DEF L
        <4> QED BY <1>6, <3>1
      <3>3. Apart(<<>>) BY DEF Apart
      <3>4. Cover(<<>>) = {} BY DEF Cover
      <3> QED BY <3>1, <3>2, <3>3, <3>4
    <2>2. ASSUME NEW n \in 1 .. L, n - 1 \in T PROVE n \in T
      <3>1. n \in 0 .. L /\ n # 0 /\ n - 1 \in 0 .. L /\ n - 1 \in Nat BY <1>1
      <3>2. f[n] = Join(f[n - 1], xs[n])
        <4> HIDE DEF L
        <4> QED BY <1>6, <3>1
      <3> DEFINE s == f[n - 1]
                 x == xs[n]
      <3>3. Good(n - 1)
        <4> HIDE DEF Good, L
        <4> QED BY <2>2
      <3>4. x \in ARange /\ x.start < x.end BY <1>2 DEF InOrder
      <3>5. s # <<>> => s[Len(s)].end <= x.start
        <4> SUFFICES ASSUME s # <<>> PROVE s[Len(s)].end <= x.start OBVIOUS
        <4>1. n - 1 # 0 BY <3>3
        <4>2. n - 1 \in 1 .. L /\ n - 1 < n BY <3>1, <4>1
        <4>3. xs[n - 1].end <= xs[n].start BY <4>2 DEF InOrder
        <4> QED BY <3>3, <4>1, <4>3
      <3>6. /\ Apart(f[n]) /\ f[n] # <<>>
            /\ f[n][Len(f[n])].end = x.end
            /\ \A a \in Nat : a \in Cover(f[n]) <=> a \in Cover(s) \/ In(x, a)
        <4>1. Apart(s) BY <3>3
        <4> HIDE DEF s, x
        <4> QED BY <3>2, <3>4, <3>5, <4>1, JoinStep DEF s, x
      <3>7. ASSUME NEW a \in Nat PROVE a \in First(n) <=> a \in First(n - 1) \/ In(xs[n], a)
        <4>1. \A k \in 1 .. n : k = n \/ k \in 1 .. (n - 1) BY <3>1
        <4>2. \A k \in 1 .. (n - 1) : k \in 1 .. n BY <3>1
        <4>3. n \in 1 .. n BY <3>1
        <4> QED BY <4>1, <4>2, <4>3
      <3>8. Good(n)
        <4> HIDE DEF First
        <4> QED BY <3>1, <3>3, <3>6, <3>7
      <3> HIDE DEF Good
      <3> QED BY <3>1, <3>8
    <2> HIDE DEF T, L
    <2> QED BY <1>1, <2>1, <2>2, EveryPosition
  <1>8. Good(L)
    <2>1. L \in 0 .. L BY <1>1
    <2> HIDE DEF Good, L
    <2> QED BY <1>7, <2>1
  <1>9. Cover(f[L]) = First(L)
    <2>1. Cover(f[L]) \subseteq Nat BY DEF Cover
    <2>2. First(L) \subseteq Nat OBVIOUS
    <2> HIDE DEF First
    <2> QED BY <1>8, <2>1, <2>2
  <1>10. First(L) = Cover(xs) BY SMTT(30) DEF Cover
  <1> QED BY <1>6, <1>8, <1>9, <1>10

\* The addresses that ranges apart cover are as many as their bytes, and those
\* with none before them as many as the ranges.
LEMMA CoverCount ==
    ASSUME NEW xs, Apart(xs)
    PROVE  /\ IsFiniteSet(Cover(xs))
           /\ Bytes(xs) = Cardinality(Cover(xs))
           /\ {a \in Cover(xs) : a - 1 \notin Cover(xs)} = {xs[k].start : k \in 1 .. Len(xs)}
           /\ Len(xs) = Cardinality({a \in Cover(xs) : a - 1 \notin Cover(xs)})
  <1> DEFINE L == Len(xs)
             s == [k \in DOMAIN xs |-> xs[k].end - xs[k].start]
             First(n) == {a \in Nat : \E k \in 1 .. n : In(xs[k], a)}
  <1>1. xs \in Seq(ARange) /\ L \in Nat /\ DOMAIN xs = 1 .. L BY DEF Apart
  <1>2. \A k \in 1 .. L : /\ xs[k].start \in Nat /\ xs[k].end \in Nat
                          /\ xs[k].start < xs[k].end
    <2>1. \A k \in 1 .. L : xs[k] \in ARange BY <1>1
    <2> QED BY <2>1 DEF Apart, ARange
  <1>3. \A j, k \in 1 .. L : j < k => xs[j].end < xs[k].start
    <2> SUFFICES ASSUME NEW j \in 1 .. L
                 PROVE  \A k \in 1 .. L : j < k => xs[j].end < xs[k].start
      OBVIOUS
    <2> DEFINE T == {k \in 0 .. L : j < k => xs[j].end < xs[k].start}
    <2>1. 0 \in T BY <1>1
    <2>2. ASSUME NEW k \in 1 .. L, k - 1 \in T PROVE k \in T
      <3>1. CASE j < k - 1
        <4>1. k \in 2 .. L /\ k - 1 \in 1 .. L BY <1>1, <3>1
        <4>2. xs[j].end < xs[k - 1].start BY <2>2, <3>1
        <4>3. xs[k - 1].end < xs[k].start BY <4>1 DEF Apart
        <4>4. xs[j].end < xs[k].start BY <1>2, <4>1, <4>2, <4>3
        <4> QED BY <1>1, <4>4
      <3>2. CASE j = k - 1
        <4>1. k \in 2 .. L BY <1>1, <3>2
        <4>2. xs[k - 1].end < xs[k].start BY <4>1 DEF Apart
        <4> QED BY <1>1, <3>2, <4>2
      <3>3. CASE k - 1 < j BY <1>1, <3>3
      <3> QED BY <1>1, <3>1, <3>2, <3>3
    <2>3. 0 .. L \subseteq T
      <3> HIDE DEF T, L
      <3> QED BY <1>1, <2>1, <2>2, EveryPosition
    <2> QED BY <1>1, <2>3
  <1>4. s \in Seq(Nat) /\ Len(s) = L /\ \A k \in 1 .. L : s[k] = xs[k].end - xs[k].start
    <2>1. \A k \in 1 .. L : xs[k].end - xs[k].start \in Nat BY <1>2
    <2>2. s \in [1 .. L -> Nat] BY <1>1, <2>1
    <2> HIDE DEF L
    <2>3. s \in Seq(Nat) BY <1>1, <2>2
    <2> QED BY <1>1, <2>2, <2>3
  <1>5. PICK sum \in [0 .. L -> Nat] :
             /\ Total(s) = sum[L]
             /\ sum[0] = 0
             /\ \A n \in 1 .. L : sum[n] = sum[n - 1] + s[n]
    <2> HIDE DEF s
    <2> QED BY <1>4, TotalDef
  <1> DEFINE T == {n \in 0 .. L : IsFiniteSet(First(n)) /\ Cardinality(First(n)) = sum[n]}
  <1>6. 0 .. L \subseteq T
    <2>1. 0 \in T
      <3>1. First(0) = {} OBVIOUS
      <3>2. 0 \in 0 .. L BY <1>1
      <3>3. IsFiniteSet({}) /\ Cardinality({}) = 0 BY FS_EmptySet
      <3> HIDE DEF First
      <3> QED BY <1>5, <3>1, <3>2, <3>3
    <2>2. ASSUME NEW n \in 1 .. L, n - 1 \in T PROVE n \in T
      <3> DEFINE A == First(n - 1)
                 B == xs[n].start .. (xs[n].end - 1)
      <3>1. n \in 0 .. L /\ n - 1 \in Nat BY <1>1
      <3>2. IsFiniteSet(A) /\ Cardinality(A) = sum[n - 1] BY <2>2
      <3>3. IsFiniteSet(B) /\ Cardinality(B) = xs[n].end - xs[n].start
        <4> DEFINE p == xs[n].start
                   q == xs[n].end - 1
        <4>1. p \in Int /\ q \in Int /\ ~(p > q) /\ q - p + 1 = xs[n].end - xs[n].start
          BY <1>2
        <4>2. IsFiniteSet(p .. q) /\ Cardinality(p .. q) = q - p + 1
          <5> HIDE DEF p, q
          <5> QED BY <4>1, FS_Interval
        <4> QED BY <4>1, <4>2
      <3>4. First(n) = A \cup B
        <4>1. ASSUME NEW a \in First(n) PROVE a \in A \/ a \in B
          <5>1. PICK k \in 1 .. n : In(xs[k], a) OBVIOUS
          <5>2. CASE k = n BY <1>2, <5>1, <5>2 DEF In
          <5>3. CASE k # n
            <6>1. k \in 1 .. (n - 1) BY <3>1, <5>3
            <6> QED BY <5>1, <6>1
          <5> QED BY <5>2, <5>3
        <4>2. ASSUME NEW a \in A PROVE a \in First(n)
          <5>1. PICK k \in 1 .. (n - 1) : In(xs[k], a) OBVIOUS
          <5>2. k \in 1 .. n BY <3>1
          <5> QED BY <5>1, <5>2
        <4>3. ASSUME NEW a \in B PROVE a \in First(n)
          <5>1. a \in Nat /\ In(xs[n], a) /\ n \in 1 .. n BY <1>2, <3>1 DEF In
          <5> QED BY <5>1
        <4> HIDE DEF A, B, First
        <4> QED BY <4>1, <4>2, <4>3
      <3>5. A \cap B = {}
        <4> SUFFICES ASSUME NEW a \in A, a \in B PROVE FALSE OBVIOUS
        <4>1. PICK k \in 1 .. (n - 1) : In(xs[k], a) OBVIOUS
        <4>2. k \in 1 .. L /\ k < n BY <1>1, <3>1
        <4>3. xs[k].end < xs[n].start BY <1>3, <4>2
        <4> QED BY <1>2, <4>1, <4>2, <4>3 DEF In
      <3>6. /\ IsFiniteSet(First(n))
            /\ Cardinality(First(n)) = sum[n - 1] + (xs[n].end - xs[n].start)
        <4> DEFINE b == Cardinality(B)
                   c == sum[n - 1]
        <4>1. c \in Nat BY <1>1, <1>5
        <4>2. b \in Nat BY <1>2, <3>3
        <4>3. Cardinality({}) = 0 BY FS_EmptySet
        <4>4. /\ IsFiniteSet(A \cup B)
              /\ Cardinality(A \cup B) = Cardinality(A) + Cardinality(B) - Cardinality(A \cap B)
          <5> HIDE DEF A, B
          <5> QED BY <3>2, <3>3, FS_Union
        <4>5. Cardinality(A \cup B) = c + b
          <5> HIDE DEF A, B
          <5>1. Cardinality(A \cup B) = c + b - 0 BY <3>2, <3>5, <4>3, <4>4
          <5> HIDE DEF b, c
          <5> QED BY <4>1, <4>2, <5>1
        <4> HIDE DEF First, A, B
        <4> QED BY <3>3, <3>4, <4>4, <4>5
      <3>7. sum[n] = sum[n - 1] + (xs[n].end - xs[n].start) BY <1>4, <1>5
      <3> HIDE DEF First, L
      <3> QED BY <3>1, <3>6, <3>7
    <2> HIDE DEF T, L
    <2> QED BY <1>1, <2>1, <2>2, EveryPosition
  <1>7. IsFiniteSet(First(L)) /\ Cardinality(First(L)) = sum[L]
    <2>1. L \in T BY <1>1, <1>6
    <2> HIDE DEF First, L
    <2> QED BY <2>1
  <1>8. First(L) = Cover(xs) BY DEF Cover
  <1>9. Bytes(xs) = sum[L]
    <2> HIDE DEF L
    <2> QED BY <1>5 DEF Bytes
  <1> DEFINE Starts == {xs[k].start : k \in 1 .. L}
             Heads == {a \in Cover(xs) : a - 1 \notin Cover(xs)}
  <1>10. Heads = Starts
    <2>1. ASSUME NEW a \in Heads PROVE a \in Starts
      <3>1. a \in Nat BY DEF Cover
      <3>2. PICK k \in 1 .. L : In(xs[k], a) BY DEF Cover
      <3>3. CASE a = xs[k].start BY <3>3
      <3>4. CASE a # xs[k].start
        <4>1. a - 1 \in Nat /\ In(xs[k], a - 1) BY <1>2, <3>1, <3>2, <3>4 DEF In
        <4>2. a - 1 \in Cover(xs) BY <4>1 DEF Cover
        <4> QED BY <4>2
      <3> QED BY <3>3, <3>4
    <2>2. ASSUME NEW k \in 1 .. L PROVE xs[k].start \in Heads
      <3> DEFINE a == xs[k].start
      <3>1. a \in Nat /\ In(xs[k], a) BY <1>2 DEF In
      <3>2. a \in Cover(xs) BY <3>1 DEF Cover
      <3>3. ASSUME a - 1 \in Cover(xs) PROVE FALSE
        <4>1. PICK j \in 1 .. L : In(xs[j], a - 1) BY <3>3 DEF Cover
        <4>2. xs[j].start <= a - 1 /\ a - 1 < xs[j].end BY <4>1 DEF In
        <4>3. CASE j < k
          <5>1. xs[j].end < xs[k].start BY <1>3, <4>3
          <5> QED BY <1>2, <4>2, <5>1
        <4>4. CASE k < j
          <5>1. xs[k].end < xs[j].start BY <1>3, <4>4
          <5> QED BY <1>2, <4>2, <5>1
        <4>5. CASE j = k BY <1>2, <4>2, <4>5
        <4> QED BY <1>1, <4>3, <4>4, <4>5
      <3> QED BY <3>2, <3>3
    <2> QED BY <2>1, <2>2
  <1>11. Cardinality(Starts) = L
    <2> DEFINE f == [k \in 1 .. L |-> xs[k].start]
    <2>1. f \in Surjection(1 .. L, Starts) BY DEF Surjection
    <2>2. ASSUME NEW j \in 1 .. L, NEW k \in 1 .. L, f[j] = f[k] PROVE j = k
      <3>1. CASE j < k
        <4>1. xs[j].end < xs[k].start BY <1>3, <3>1
        <4> QED BY <1>2, <2>2, <4>1
      <3>2. CASE k < j
        <4>1. xs[k].end < xs[j].start BY <1>3, <3>2
        <4> QED BY <1>2, <2>2, <4>1
      <3> QED BY <1>1, <3>1, <3>2
    <2>3. f \in Injection(1 .. L, Starts)
      <3>1. f \in [1 .. L -> Starts] OBVIOUS
      <3> HIDE DEF L, f, Starts
      <3> QED BY <2>2, <3>1 DEF Injection, IsInjective
    <2>4. ExistsBijection(1 .. L, Starts)
      <3> HIDE DEF f, Starts, L
      <3> QED BY <2>1, <2>3 DEF ExistsBijection, Bijection
    <2> HIDE DEF Starts, L
    <2> QED BY <1>1, <2>4, FS_CountingElements
  <1> HIDE DEF First, Starts, Heads
  <1> QED BY <1>7, <1>8, <1>9, <1>10, <1>11 DEF Starts, Heads

-----------------------------------------------------------------------------
(* Sorting.                                                                *)

\* The positions of pairs of numbers are in a strict total order.
LEMMA BeforeOrder ==
    ASSUME NEW L \in Nat, NEW keys \in [1 .. L -> Nat \X Nat]
    PROVE  /\ \A j \in 1 .. L : ~Before(keys, j, j)
           /\ \A j, k \in 1 .. L : j # k => Before(keys, j, k) \/ Before(keys, k, j)
           /\ \A i, j, k \in 1 .. L :
                Before(keys, i, j) /\ Before(keys, j, k) => Before(keys, i, k)
  <1>1. \A j \in 1 .. L : /\ keys[j] = <<keys[j][1], keys[j][2]>>
                          /\ keys[j][1] \in Nat /\ keys[j][2] \in Nat
    OBVIOUS
  <1>2. \A j, k \in 1 .. L :
          keys[j] = keys[k] <=> keys[j][1] = keys[k][1] /\ keys[j][2] = keys[k][2]
    BY <1>1
  <1>3. \A j \in 1 .. L : ~Before(keys, j, j) BY <1>1 DEF Before
  <1>4. ASSUME NEW j \in 1 .. L, NEW k \in 1 .. L, j # k
        PROVE  Before(keys, j, k) \/ Before(keys, k, j)
    BY <1>1, <1>2, <1>4 DEF Before
  <1>5. ASSUME NEW i \in 1 .. L, NEW j \in 1 .. L, NEW k \in 1 .. L,
               Before(keys, i, j), Before(keys, j, k)
        PROVE  Before(keys, i, k)
    <2>1. /\ \/ keys[i][1] < keys[j][1]
             \/ keys[i][1] = keys[j][1] /\ keys[i][2] < keys[j][2]
             \/ keys[i][1] = keys[j][1] /\ keys[i][2] = keys[j][2] /\ i < j
          /\ \/ keys[j][1] < keys[k][1]
             \/ keys[j][1] = keys[k][1] /\ keys[j][2] < keys[k][2]
             \/ keys[j][1] = keys[k][1] /\ keys[j][2] = keys[k][2] /\ j < k
      BY <1>2, <1>5 DEF Before
    <2>2. \/ keys[i][1] < keys[k][1]
          \/ keys[i][1] = keys[k][1] /\ keys[i][2] < keys[k][2]
          \/ keys[i][1] = keys[k][1] /\ keys[i][2] = keys[k][2] /\ i < k
      BY <1>1, <2>1, SMTT(30)
    <2> QED BY <1>2, <2>2 DEF Before
  <1> QED BY <1>3, <1>4, <1>5

\* Each position has a place of its own.
LEMMA PlaceFacts ==
    ASSUME NEW L \in Nat, NEW keys \in [1 .. L -> Nat \X Nat]
    PROVE  /\ \A k \in 1 .. L : Place(keys, k) \in 1 .. L
           /\ \A j, k \in 1 .. L : Before(keys, j, k) => Place(keys, j) < Place(keys, k)
           /\ \A n \in 1 .. L : \E k \in 1 .. L : Place(keys, k) = n
  <1> DEFINE Below(k) == {j \in 1 .. L : Before(keys, j, k)}
  <1>1. DOMAIN keys = 1 .. L OBVIOUS
  <1>2. IsFiniteSet(1 .. L) /\ Cardinality(1 .. L) = L
    <2>1. 1 \in Int /\ L \in Int /\ (IF 1 > L THEN 0 ELSE L - 1 + 1) = L OBVIOUS
    <2> QED BY <2>1, FS_Interval
  <1>3. ASSUME NEW k \in 1 .. L
        PROVE  /\ IsFiniteSet(Below(k)) /\ Cardinality(Below(k)) \in Nat
               /\ Place(keys, k) = Cardinality(Below(k)) + 1
               /\ Place(keys, k) \in 1 .. L
    <2>1. IsFiniteSet((1 .. L) \ {k}) /\ Cardinality((1 .. L) \ {k}) = L - 1
      BY <1>2, FS_RemoveElement
    <2>2. Below(k) \in SUBSET ((1 .. L) \ {k})
      <3>1. ~Before(keys, k, k) BY BeforeOrder
      <3> QED BY <3>1
    <2>3. IsFiniteSet(Below(k)) /\ Cardinality(Below(k)) <= L - 1
      <3> HIDE DEF Below
      <3> QED BY <2>1, <2>2, FS_Subset
    <2>4. Cardinality(Below(k)) \in Nat
      <3> HIDE DEF Below
      <3> QED BY <2>3, FS_CardinalityType
    <2>5. Place(keys, k) = Cardinality(Below(k)) + 1 BY <1>1 DEF Place
    <2> HIDE DEF Below
    <2> QED BY <2>3, <2>4, <2>5
  <1>4. ASSUME NEW j \in 1 .. L, NEW k \in 1 .. L, Before(keys, j, k)
        PROVE  Place(keys, j) < Place(keys, k)
    <2>1. j \notin Below(j) BY BeforeOrder
    <2>2. Below(j) \cup {j} \in SUBSET Below(k)
      <3>1. \A i \in Below(j) : i \in Below(k) BY <1>4, BeforeOrder
      <3>2. j \in Below(k) BY <1>4
      <3> HIDE DEF Below
      <3> QED BY <3>1, <3>2
    <2>3. Cardinality(Below(j) \cup {j}) = Cardinality(Below(j)) + 1
      <3>1. IsFiniteSet(Below(j)) BY <1>3
      <3> HIDE DEF Below
      <3> QED BY <2>1, <3>1, FS_AddElement
    <2>4. Cardinality(Below(j) \cup {j}) <= Cardinality(Below(k))
      <3>1. IsFiniteSet(Below(k)) BY <1>3
      <3> HIDE DEF Below
      <3> QED BY <2>2, <3>1, FS_Subset
    <2> HIDE DEF Below
    <2> QED BY <1>3, <2>3, <2>4
  <1>5. ASSUME NEW n \in 1 .. L, \A k \in 1 .. L : Place(keys, k) # n PROVE FALSE
    <2> DEFINE S == 1 .. L
               U == S \ {n}
               f == [k \in S |-> Place(keys, k)]
    <2>1. IsFiniteSet(U) /\ Cardinality(U) = L - 1
      BY <1>2, FS_RemoveElement
    <2>2. f \in [S -> U] BY <1>3, <1>5
    <2>3. L - 1 < L OBVIOUS
    <2>4. \E x, y \in S : x # y /\ f[x] = f[y]
      <3>1. Cardinality(U) < Cardinality(S) BY <1>2, <2>1, <2>3
      <3>2. IsFiniteSet(S) BY <1>2
      <3> HIDE DEF f, S, U
      <3> QED BY <2>1, <2>2, <3>1, <3>2, FS_PigeonHole
    <2>5. PICK x \in S, y \in S : x # y /\ f[x] = f[y] BY <2>4
    <2>6. Place(keys, x) = Place(keys, y) BY <2>5
    <2>7. Before(keys, x, y) \/ Before(keys, y, x) BY <2>5, BeforeOrder
    <2>8. Place(keys, x) \in 1 .. L /\ Place(keys, y) \in 1 .. L BY <1>3
    <2> QED BY <1>4, <2>6, <2>7, <2>8
  <1> QED BY <1>3, <1>4, <1>5

\* Sorting puts every element in one place, none after one that it goes
\* before.
LEMMA SortedByFacts ==
    ASSUME NEW L \in Nat, NEW keys \in [1 .. L -> Nat \X Nat]
    PROVE  \E p \in [1 .. L -> 1 .. L] :
             /\ \A m2, n \in 1 .. L : m2 < n => Before(keys, p[m2], p[n])
             /\ \A k \in 1 .. L : \E n \in 1 .. L : p[n] = k
             /\ \A s : DOMAIN s = 1 .. L => SortedBy(keys, s) = [n \in 1 .. L |-> s[p[n]]]
  <1> DEFINE p == [n \in 1 .. L |-> CHOOSE k \in 1 .. L : Place(keys, k) = n]
  <1>1. \A n \in 1 .. L : p[n] \in 1 .. L /\ Place(keys, p[n]) = n BY PlaceFacts
  <1>2. p \in [1 .. L -> 1 .. L]
    <2>1. p = [n \in 1 .. L |-> p[n]] OBVIOUS
    <2> HIDE DEF p
    <2> QED BY <1>1, <2>1
  <1>3. ASSUME NEW m2 \in 1 .. L, NEW n \in 1 .. L, m2 < n
        PROVE  Before(keys, p[m2], p[n])
    <2> DEFINE j == p[m2]
               k == p[n]
    <2>1. j \in 1 .. L /\ k \in 1 .. L /\ Place(keys, j) = m2 /\ Place(keys, k) = n
      BY <1>1
    <2> HIDE DEF j, k
    <2>2. j # k BY <1>3, <2>1
    <2>3. ~Before(keys, k, j)
      <3> SUFFICES ASSUME Before(keys, k, j) PROVE FALSE OBVIOUS
      <3>1. Place(keys, k) < Place(keys, j) BY <2>1, PlaceFacts
      <3> QED BY <1>3, <2>1, <3>1
    <2>4. Before(keys, j, k) BY <2>1, <2>2, <2>3, BeforeOrder
    <2> QED BY <2>4 DEF j, k
  <1>4. ASSUME NEW k \in 1 .. L PROVE \E n \in 1 .. L : p[n] = k
    <2> DEFINE n == Place(keys, k)
    <2>1. n \in 1 .. L BY PlaceFacts
    <2>2. p[n] \in 1 .. L /\ Place(keys, p[n]) = n BY <1>1, <2>1
    <2> DEFINE j == p[n]
    <2>3. j = k
      <3>1. j \in 1 .. L /\ Place(keys, j) = Place(keys, k) BY <2>2
      <3>2. Place(keys, j) \in 1 .. L /\ Place(keys, k) \in 1 .. L BY <3>1, PlaceFacts
      <3> HIDE DEF j
      <3> SUFFICES ASSUME j # k PROVE FALSE OBVIOUS
      <3>3. Before(keys, j, k) \/ Before(keys, k, j) BY <3>1, BeforeOrder
      <3>4. Place(keys, j) < Place(keys, k) \/ Place(keys, k) < Place(keys, j)
        BY <3>1, <3>3, PlaceFacts
      <3> QED BY <3>1, <3>2, <3>4
    <2> QED BY <2>1, <2>3
  <1>5. ASSUME NEW s, DOMAIN s = 1 .. L
        PROVE  SortedBy(keys, s) = [n \in 1 .. L |-> s[p[n]]]
    BY <1>5 DEF SortedBy
  <1> HIDE DEF p
  <1> QED BY <1>2, <1>3, <1>4, <1>5

-----------------------------------------------------------------------------
(* The instructions of a function.                                         *)

ExtentOf(op) == [start |-> op.at, end |-> op.at + op.len]

\* Sorted, instructions that are valid are ranges; one that begins before
\* another comes first, and each is there.
LEMMA SortedFacts ==
    ASSUME NEW ops \in Seq(AnOp), \A k \in 1 .. Len(ops) : ValidOp(ops[k])
    PROVE  /\ Sorted(ops) \in Seq(ARange) /\ Len(Sorted(ops)) = Len(ops)
           /\ \A n \in 1 .. Len(ops) : Sorted(ops)[n].start < Sorted(ops)[n].end
           /\ \A m2, n \in 1 .. Len(ops) : m2 < n => Sorted(ops)[m2].start <= Sorted(ops)[n].start
           /\ \E p \in [1 .. Len(ops) -> 1 .. Len(ops)] :
                /\ \A n \in 1 .. Len(ops) : Sorted(ops)[n] = ExtentOf(ops[p[n]])
                /\ \A k \in 1 .. Len(ops) : \E n \in 1 .. Len(ops) : p[n] = k
                /\ \A m2, n \in 1 .. Len(ops) : m2 < n => p[m2] # p[n]
  <1> DEFINE L == Len(ops)
             keys == [k \in DOMAIN ops |-> <<ops[k].at, ops[k].at + ops[k].len>>]
             es == [k \in DOMAIN ops |-> [start |-> ops[k].at, end |-> ops[k].at + ops[k].len]]
             xs == Sorted(ops)
  <1>1. L \in Nat /\ DOMAIN ops = 1 .. L OBVIOUS
  <1>2. ASSUME NEW k \in 1 .. L
        PROVE  ops[k].at \in Nat /\ ops[k].len \in {2, 4}
    <2>1. ops[k] \in AnOp BY <1>1
    <2>2. ops[k].at \in Number /\ ops[k].at # Absent /\ ops[k].len \in {2, 4}
      BY <2>1 DEF AnOp, ValidOp
    <2> QED BY <2>2 DEF Number
  <1>3. keys \in [1 .. L -> Nat \X Nat]
    <2>1. ASSUME NEW k \in 1 .. L PROVE <<ops[k].at, ops[k].at + ops[k].len>> \in Nat \X Nat
      BY <1>2
    <2> QED BY <1>1, <2>1
  <1>4. \A k \in 1 .. L : keys[k] = <<ops[k].at, ops[k].at + ops[k].len>> BY <1>1
  <1>5. DOMAIN es = 1 .. L /\ \A k \in 1 .. L : es[k] = ExtentOf(ops[k])
    BY <1>1 DEF ExtentOf
  <1>6. xs = SortedBy(keys, es) BY DEF Sorted
  <1>7. PICK p \in [1 .. L -> 1 .. L] :
             /\ \A m2, n \in 1 .. L : m2 < n => Before(keys, p[m2], p[n])
             /\ \A k \in 1 .. L : \E n \in 1 .. L : p[n] = k
             /\ \A s : DOMAIN s = 1 .. L => SortedBy(keys, s) = [n \in 1 .. L |-> s[p[n]]]
    <2> HIDE DEF keys, L
    <2> QED BY <1>1, <1>3, SortedByFacts
  <1>8. xs = [n \in 1 .. L |-> es[p[n]]]
    <2> HIDE DEF keys, L, es, xs
    <2> QED BY <1>5, <1>6, <1>7
  <1>9. ASSUME NEW n \in 1 .. L
        PROVE  /\ p[n] \in 1 .. L /\ xs[n] = ExtentOf(ops[p[n]])
               /\ xs[n] \in ARange /\ xs[n].start < xs[n].end
    <2> DEFINE k == p[n]
    <2>1. k \in 1 .. L BY <1>7
    <2>2. xs[n] = es[k]
      <3> HIDE DEF xs, es, L
      <3> QED BY <1>8
    <2> HIDE DEF k
    <2>3. xs[n] = ExtentOf(ops[k])
      <3> HIDE DEF xs, es, L
      <3> QED BY <1>5, <2>1, <2>2
    <2>4. ops[k].at \in Nat /\ ops[k].len \in {2, 4} BY <1>2, <2>1
    <2>5. ExtentOf(ops[k]) \in ARange /\ ExtentOf(ops[k]).start < ExtentOf(ops[k]).end
      BY <2>4 DEF ExtentOf, ARange
    <2> HIDE DEF xs
    <2> QED BY <2>1, <2>3, <2>5 DEF k
  <1>10. xs \in Seq(ARange) /\ Len(xs) = L
    <2> HIDE DEF xs, es, L
    <2>1. xs \in [1 .. L -> ARange] BY <1>8, <1>9
    <2>2. xs \in Seq(ARange) BY <1>1, <2>1
    <2> QED BY <1>1, <2>1, <2>2
  <1>11. ASSUME NEW m2 \in 1 .. L, NEW n \in 1 .. L, m2 < n
         PROVE  xs[m2].start <= xs[n].start /\ p[m2] # p[n]
    <2> DEFINE j == p[m2]
               k == p[n]
    <2>1. j \in 1 .. L /\ k \in 1 .. L BY <1>7
    <2>2. Before(keys, j, k) BY <1>7, <1>11
    <2>3. xs[m2] = ExtentOf(ops[j]) /\ xs[n] = ExtentOf(ops[k]) BY <1>9
    <2> HIDE DEF j, k
    <2>4. ops[j].at \in Nat /\ ops[k].at \in Nat BY <1>2, <2>1
    <2>5. keys[j][1] = ops[j].at /\ keys[k][1] = ops[k].at BY <1>4, <2>1
    <2>6. keys[j][1] < keys[k][1] \/ keys[j][1] = keys[k][1]
      <3> HIDE DEF keys
      <3> QED BY <2>2 DEF Before
    <2>7. ops[j].at <= ops[k].at BY <2>4, <2>5, <2>6
    <2>8. j # k
      <3>1. ~Before(keys, k, k)
        <4> HIDE DEF keys, L
        <4> QED BY <1>1, <1>3, <2>1, BeforeOrder
      <3> QED BY <2>2, <3>1
    <2> QED BY <2>3, <2>7, <2>8 DEF ExtentOf, j, k
  <1>12. /\ p \in [1 .. L -> 1 .. L]
         /\ \A n \in 1 .. L : xs[n] = ExtentOf(ops[p[n]])
         /\ \A k \in 1 .. L : \E n \in 1 .. L : p[n] = k
         /\ \A m2, n \in 1 .. L : m2 < n => p[m2] # p[n]
    <2> HIDE DEF xs
    <2> QED BY <1>7, <1>9, <1>11
  <1>13. /\ \A n \in 1 .. L : xs[n].start < xs[n].end
         /\ \A m2, n \in 1 .. L : m2 < n => xs[m2].start <= xs[n].start
    <2> HIDE DEF xs
    <2> QED BY <1>9, <1>11
  <1> HIDE DEF keys, es
  <1> QED BY <1>10, <1>12, <1>13

\* Sorted instructions overlap unless they are in order.
LEMMA OverlapFacts ==
    ASSUME NEW xs \in Seq(ARange), \A k \in 1 .. Len(xs) : xs[k].start < xs[k].end
    PROVE  Overlap(xs) <=> ~InOrder(xs)
  <1> DEFINE L == Len(xs)
             far == Farthest(xs)
  <1>1. L \in Nat /\ DOMAIN xs = 1 .. L OBVIOUS
  <1>2. \A k \in 1 .. L : xs[k].start \in Nat /\ xs[k].end \in Nat
    <2>1. \A k \in 1 .. L : xs[k] \in ARange BY <1>1
    <2> QED BY <2>1 DEF ARange
  <1>3. \A n \in 0 .. L :
          /\ far[n] \in Nat
          /\ \A j \in 1 .. n : xs[j].end <= far[n]
          /\ far[n] = 0 \/ \E j \in 1 .. n : xs[j].end = far[n]
    BY FarthestFacts
  <1>4. ASSUME Overlap(xs) PROVE ~InOrder(xs)
    <2>1. PICK k \in 1 .. L : xs[k].start < far[k - 1] BY <1>1, <1>4 DEF Overlap
    <2>2. k - 1 \in 0 .. L BY <1>1
    <2>3. far[k - 1] # 0 BY <1>2, <2>1
    <2>4. PICK j \in 1 .. (k - 1) : xs[j].end = far[k - 1]
      <3> HIDE DEF L, far
      <3> QED BY <1>3, <2>2, <2>3
    <2>5. j \in 1 .. L /\ j < k BY <1>1
    <2>6. ~(xs[j].end <= xs[k].start) BY <1>2, <2>1, <2>4, <2>5
    <2> QED BY <2>5, <2>6 DEF InOrder
  <1>5. ASSUME ~Overlap(xs) PROVE InOrder(xs)
    <2>1. ASSUME NEW j \in 1 .. L, NEW k \in 1 .. L, j < k
          PROVE  xs[j].end <= xs[k].start
      <3>1. k - 1 \in 0 .. L /\ j \in 1 .. (k - 1) BY <1>1, <2>1
      <3>2. far[k - 1] \in Nat /\ xs[j].end <= far[k - 1]
        <4> HIDE DEF L, far
        <4> QED BY <1>3, <3>1
      <3>3. ~(xs[k].start < far[k - 1]) BY <1>1, <1>5 DEF Overlap
      <3> HIDE DEF far
      <3> QED BY <1>2, <3>2, <3>3
    <2> QED BY <2>1 DEF InOrder
  <1> QED BY <1>4, <1>5

\* Valid instructions are in order, sorted, exactly when none lies over another.
LEMMA DisjointIsInOrder ==
    ASSUME NEW ops \in Seq(AnOp), \A k \in 1 .. Len(ops) : ValidOp(ops[k])
    PROVE  /\ ~Overlap(Sorted(ops)) <=>
                \A j, k \in 1 .. Len(ops) : j # k => Extent(ops[j]) \cap Extent(ops[k]) = {}
           /\ ~Overlap(Sorted(ops)) => InOrder(Sorted(ops))
           /\ (\A k \in 1 .. Len(ops) : Aligned(Sorted(ops)[k])) <=>
                \A k \in 1 .. Len(ops) : ops[k].at % 2 = 0
           /\ \A a \in Nat : a \in Cover(Sorted(ops)) <=>
                \E k \in 1 .. Len(ops) : a \in Extent(ops[k])
  <1> DEFINE L == Len(ops)
             xs == Sorted(ops)
  <1>1. L \in Nat OBVIOUS
  <1>2. ASSUME NEW k \in 1 .. L
        PROVE  ops[k].at \in Nat /\ ops[k].len \in {2, 4}
    <2>1. ops[k] \in AnOp OBVIOUS
    <2>2. ops[k].at \in Number /\ ops[k].at # Absent /\ ops[k].len \in {2, 4}
      BY <2>1 DEF AnOp, ValidOp
    <2> QED BY <2>2 DEF Number
  <1>3. /\ xs \in Seq(ARange) /\ Len(xs) = L
        /\ \A n \in 1 .. L : xs[n].start < xs[n].end
        /\ \A m2, n \in 1 .. L : m2 < n => xs[m2].start <= xs[n].start
    BY SortedFacts
  <1>4. PICK p \in [1 .. L -> 1 .. L] :
             /\ \A n \in 1 .. L : xs[n] = ExtentOf(ops[p[n]])
             /\ \A k \in 1 .. L : \E n \in 1 .. L : p[n] = k
             /\ \A m2, n \in 1 .. L : m2 < n => p[m2] # p[n]
    BY SortedFacts
  <1>5. \A n \in 1 .. L : p[n] \in 1 .. L BY <1>4
  <1>6. ASSUME NEW k \in 1 .. L, NEW a \in Int
        PROVE  a \in Extent(ops[k]) <=> In(ExtentOf(ops[k]), a)
    BY <1>2 DEF Extent, ExtentOf, In
  <1>7. \A n \in 1 .. L : xs[n].start \in Nat /\ xs[n].end \in Nat
    <2>1. \A n \in 1 .. L : xs[n] \in ARange
      <3> HIDE DEF xs
      <3> QED BY <1>3
    <2> QED BY <2>1 DEF ARange
  <1> HIDE DEF xs, L
  <1>8. ~Overlap(xs) <=> InOrder(xs) BY <1>3, OverlapFacts
  <1>9. ASSUME InOrder(xs), NEW j \in 1 .. L, NEW k \in 1 .. L, j # k
        PROVE  Extent(ops[j]) \cap Extent(ops[k]) = {}
    <2> SUFFICES ASSUME NEW a \in Extent(ops[j]), a \in Extent(ops[k]) PROVE FALSE
      OBVIOUS
    <2>1. a \in Int BY DEF Extent
    <2>2. PICK m2 \in 1 .. L : p[m2] = j BY <1>4
    <2>3. PICK n \in 1 .. L : p[n] = k BY <1>4
    <2>4. In(xs[m2], a) /\ In(xs[n], a)
      <3>1. xs[m2] = ExtentOf(ops[j]) /\ xs[n] = ExtentOf(ops[k]) BY <1>4, <2>2, <2>3
      <3>2. a \in Extent(ops[j]) /\ a \in Extent(ops[k]) OBVIOUS
      <3> QED BY <1>6, <2>1, <3>1, <3>2
    <2>5. m2 # n BY <1>9, <2>2, <2>3
    <2>6. CASE m2 < n
      <3>1. xs[m2].end <= xs[n].start BY <1>3, <1>9, <2>6 DEF InOrder
      <3> QED BY <1>7, <2>1, <2>4, <3>1 DEF In
    <2>7. CASE n < m2
      <3>1. xs[n].end <= xs[m2].start BY <1>3, <1>9, <2>7 DEF InOrder
      <3> QED BY <1>7, <2>1, <2>4, <3>1 DEF In
    <2> QED BY <1>1, <2>5, <2>6, <2>7
  <1>10. ASSUME \A j, k \in 1 .. L : j # k => Extent(ops[j]) \cap Extent(ops[k]) = {}
         PROVE  InOrder(xs)
    <2> SUFFICES ASSUME NEW m2 \in 1 .. L, NEW n \in 1 .. L, m2 < n,
                        ~(xs[m2].end <= xs[n].start)
                 PROVE  FALSE
      BY <1>3 DEF InOrder
    <2> DEFINE a == xs[n].start
    <2>1. a \in Int /\ In(xs[n], a) BY <1>3, <1>7 DEF In
    <2>2. In(xs[m2], a) BY <1>3, <1>7 DEF In
    <2>3. p[m2] \in 1 .. L /\ p[n] \in 1 .. L /\ p[m2] # p[n] BY <1>4, <1>5
    <2> HIDE DEF a
    <2>4. a \in Extent(ops[p[m2]]) /\ a \in Extent(ops[p[n]])
      BY <1>4, <1>6, <2>1, <2>2, <2>3
    <2> QED BY <1>10, <2>3, <2>4
  <1>11. ASSUME NEW k \in 1 .. L
         PROVE  Aligned(ExtentOf(ops[k])) <=> ops[k].at % 2 = 0
    <2>1. ops[k].at + ops[k].len - ops[k].at = ops[k].len BY <1>2
    <2>2. 2 % 2 = 0 /\ 4 % 2 = 0 OBVIOUS
    <2>3. ops[k].len % 2 = 0 BY <1>2, <2>2
    <2>4. ExtentOf(ops[k]).start = ops[k].at /\ ExtentOf(ops[k]).end = ops[k].at + ops[k].len
      BY DEF ExtentOf
    <2> DEFINE d == ExtentOf(ops[k]).end - ExtentOf(ops[k]).start
    <2>5. d % 2 = 0
      <3>1. d = ops[k].len BY <1>2, <2>4
      <3> HIDE DEF d
      <3> QED BY <2>3, <3>1
    <2> QED BY <2>4, <2>5 DEF Aligned
  <1>12. (\A n \in 1 .. L : Aligned(xs[n])) <=> \A k \in 1 .. L : ops[k].at % 2 = 0
    <2>1. ASSUME \A n \in 1 .. L : Aligned(xs[n]), NEW k \in 1 .. L PROVE ops[k].at % 2 = 0
      <3>1. PICK n \in 1 .. L : p[n] = k BY <1>4
      <3>2. xs[n] = ExtentOf(ops[k]) BY <1>4, <3>1
      <3>3. Aligned(xs[n]) BY <2>1
      <3> QED BY <1>11, <3>2, <3>3
    <2>2. ASSUME \A k \in 1 .. L : ops[k].at % 2 = 0, NEW n \in 1 .. L PROVE Aligned(xs[n])
      <3>1. xs[n] = ExtentOf(ops[p[n]]) /\ p[n] \in 1 .. L BY <1>4, <1>5
      <3> QED BY <1>11, <2>2, <3>1
    <2> QED BY <2>1, <2>2
  <1>13. ASSUME NEW a \in Nat
         PROVE  a \in Cover(xs) <=> \E k \in 1 .. L : a \in Extent(ops[k])
    <2>1. ASSUME NEW n \in 1 .. L, In(xs[n], a) PROVE \E k \in 1 .. L : a \in Extent(ops[k])
      <3>1. p[n] \in 1 .. L /\ In(ExtentOf(ops[p[n]]), a) BY <1>4, <1>5, <2>1
      <3>2. a \in Extent(ops[p[n]]) BY <1>6, <3>1
      <3> QED BY <3>1, <3>2
    <2>2. ASSUME NEW k \in 1 .. L, a \in Extent(ops[k]) PROVE \E n \in 1 .. L : In(xs[n], a)
      <3>1. PICK n \in 1 .. L : p[n] = k BY <1>4
      <3>2. In(xs[n], a) BY <1>4, <1>6, <2>2, <3>1
      <3> QED BY <3>2
    <2> QED BY <1>3, <2>1, <2>2 DEF Cover
  <1> QED BY <1>8, <1>9, <1>10, <1>12, <1>13 DEF xs, L

\* What a function's projection is: its instructions' addresses, in ranges
\* apart, when they are acceptable, and else nothing.
LEMMA ProjectionFacts ==
    ASSUME NEW f \in AFunction, NEW body \in ABody \cup {NoBody}
    PROVE  /\ RefAccepted(f, body) =>
                /\ Apart(Projection(f, body)) /\ Projection(f, body) # <<>>
                /\ Cover(Projection(f, body)) = Covered(body)
           /\ ~RefAccepted(f, body) => Projection(f, body) = <<>>
  <1>1. CASE body = NoBody BY <1>1 DEF Projection, RefAccepted
  <1>2. CASE body # NoBody
    <2> DEFINE ops == body.ops
               L == Len(ops)
    <2>1. ops \in Seq(AnOp) BY <1>2 DEF ABody
    <2>2. L \in Nat /\ DOMAIN ops = 1 .. L BY <2>1
    <2>3. ASSUME NEW k \in 1 .. L PROVE ops[k] \in Range(ops)
      BY <2>2 DEF Range
    <2>4. ASSUME NEW op \in Range(ops) PROVE \E k \in 1 .. L : op = ops[k]
      BY <2>2 DEF Range
    <2> HIDE DEF ops, L
    <2>5. CASE \E k \in 1 .. L : ~ValidOp(ops[k])
      <3>1. Projection(f, body) = <<>> BY <1>2, <2>2, <2>5 DEF Projection, ops
      <3>2. ~RefAccepted(f, body) BY <2>3, <2>5 DEF RefAccepted, ops
      <3> QED BY <3>1, <3>2
    <2>6. CASE \A k \in 1 .. L : ValidOp(ops[k])
      <3> DEFINE xs == Sorted(ops)
                 ranges == Joined(xs)
                 Fine == /\ \A k \in 1 .. L : InImage(ops[k]) /\ ops[k].same
                         /\ \A k \in 1 .. L : Aligned(xs[k])
                         /\ ~Overlap(xs)
                         /\ \E k \in DOMAIN ranges : ranges[k].start = f.entry
      <3>1. /\ ~Overlap(xs) <=>
                  \A j, k \in 1 .. L : j # k => Extent(ops[j]) \cap Extent(ops[k]) = {}
            /\ ~Overlap(xs) => InOrder(xs)
            /\ (\A k \in 1 .. L : Aligned(xs[k])) <=> \A k \in 1 .. L : ops[k].at % 2 = 0
            /\ \A a \in Nat : a \in Cover(xs) <=> \E k \in 1 .. L : a \in Extent(ops[k])
        BY <2>1, <2>6, DisjointIsInOrder DEF L
      <3>2. DOMAIN xs = 1 .. L
        <4>1. xs \in Seq(ARange) /\ Len(xs) = L BY <2>1, <2>6, SortedFacts DEF L
        <4> HIDE DEF xs
        <4> QED BY <4>1
      <3>3. Projection(f, body) = IF Fine THEN ranges ELSE <<>>
        <4>1. ~(body = NoBody \/ \E k \in DOMAIN body.ops : ~ValidOp(body.ops[k]))
          BY <1>2, <2>2, <2>6 DEF ops
        <4>2. /\ (\A k \in DOMAIN body.ops : InImage(body.ops[k]) /\ body.ops[k].same) <=>
                   \A k \in 1 .. L : InImage(ops[k]) /\ ops[k].same
              /\ (\A k \in DOMAIN Sorted(body.ops) : Aligned(Sorted(body.ops)[k])) <=>
                   \A k \in 1 .. L : Aligned(xs[k])
          BY <2>2, <3>2 DEF ops
        <4> QED BY <4>1, <4>2 DEF Projection, ops
      <3> HIDE DEF xs, ranges
      <3>4. ASSUME InOrder(xs)
            PROVE  /\ Apart(ranges) /\ Cover(ranges) = Covered(body)
                   /\ (\E k \in DOMAIN ranges : ranges[k].start = f.entry) <=>
                        f.entry \in Covered(body) /\ f.entry - 1 \notin Covered(body)
        <4>1. Apart(ranges) /\ Cover(ranges) = Cover(xs) BY <3>4, JoinedFacts DEF ranges
        <4>2. Cover(xs) = Covered(body)
          <5>1. ASSUME NEW a \in Covered(body) PROVE a \in Nat /\ \E k \in 1 .. L : a \in Extent(ops[k])
            <6>1. PICK op \in Range(ops) : a \in Extent(op) BY DEF Covered, ops
            <6>2. PICK k \in 1 .. L : op = ops[k] BY <2>4
            <6>3. ops[k] \in AnOp BY <2>1 DEF L
            <6>4. ops[k].at \in Nat /\ ops[k].len \in Nat
              BY <2>6, <6>3 DEF ValidOp, AnOp, Number
            <6>5. a \in Nat BY <6>1, <6>2, <6>4 DEF Extent
            <6> QED BY <6>1, <6>2, <6>5
          <5>2. ASSUME NEW k \in 1 .. L, NEW a \in Extent(ops[k]) PROVE a \in Covered(body)
            BY <2>3 DEF Covered, ops
          <5>3. Cover(xs) \subseteq Nat BY DEF Cover
          <5> QED BY <3>1, <5>1, <5>2, <5>3
        <4>3. {a \in Cover(ranges) : a - 1 \notin Cover(ranges)} =
                {ranges[k].start : k \in 1 .. Len(ranges)}
          BY <4>1, CoverCount
        <4>4. DOMAIN ranges = 1 .. Len(ranges) BY <4>1 DEF Apart
        <4>5. (\E k \in DOMAIN ranges : ranges[k].start = f.entry) <=>
                f.entry \in {a \in Cover(ranges) : a - 1 \notin Cover(ranges)}
          BY <4>3, <4>4
        <4> QED BY <4>1, <4>2, <4>5
      <3>5. RefAccepted(f, body) <=>
              /\ \A k \in 1 .. L : InImage(ops[k]) /\ ops[k].same
              /\ \A k \in 1 .. L : ops[k].at % 2 = 0
              /\ \A j, k \in 1 .. L : j # k => Extent(ops[j]) \cap Extent(ops[k]) = {}
              /\ f.entry \in Covered(body) /\ f.entry - 1 \notin Covered(body)
        <4>1. (\A op \in Range(ops) : ValidOp(op) /\ InImage(op) /\ op.same /\ op.at % 2 = 0) <=>
                /\ \A k \in 1 .. L : InImage(ops[k]) /\ ops[k].same
                /\ \A k \in 1 .. L : ops[k].at % 2 = 0
          BY <2>3, <2>4, <2>6
        <4> QED BY <1>2, <2>2, <4>1 DEF RefAccepted, ops
      <3>6. RefAccepted(f, body) <=> Fine BY <3>1, <3>4, <3>5
      <3>7. Fine => ranges # <<>>
        <4> SUFFICES ASSUME Fine PROVE ranges # <<>> OBVIOUS
        <4>1. PICK k \in DOMAIN ranges : ranges[k].start = f.entry OBVIOUS
        <4> QED BY <4>1
      <3>8. Fine => InOrder(xs) BY <3>1
      <3> HIDE DEF Fine
      <3> QED BY <3>3, <3>4, <3>6, <3>7, <3>8
    <2> QED BY <2>5, <2>6
  <1> QED BY <1>1, <1>2

-----------------------------------------------------------------------------
(* Which function gets which body.                                         *)

\* Min of a set of numbers.
LEMMA LeastOfSet ==
    ASSUME NEW S, S \subseteq Nat, S # {}
    PROVE  Min(S) \in S /\ \A y \in S : Min(S) <= y
  <1>1. \E x \in S : \A y \in S : x <= y BY LeastNat
  <1> QED BY <1>1, Zenon DEF Min

\* Each function has the first body of its address that no function before it
\* has, and none when there is none.
Greedy(s) ==
    /\ s \in Seq(Nat)
    /\ \A i \in 1 .. Len(s) : s[i] # 0 =>
         /\ s[i] \in DOMAIN Bodies
         /\ BodyEntry(Bodies[s[i]]) = fns[i].entry
         /\ \A j \in 1 .. (i - 1) : s[j] # s[i]
    /\ \A i \in 1 .. Len(s), k \in DOMAIN Bodies :
         BodyEntry(Bodies[k]) = fns[i].entry =>
           (\E j \in 1 .. (i - 1) : s[j] = k) \/ (s[i] # 0 /\ s[i] <= k)

\* The bodies of the reference are given out greedily.
LEMMA ByEntryFacts ==
    ASSUME fns \in Seq(AFunction), Bodies \in Seq(ABody)
    PROVE  Len(RefByEntry[Len(fns)]) = Len(fns) /\ Greedy(RefByEntry[Len(fns)])
  <1> DEFINE L == Len(fns)
             V == Seq(Nat)
             Free(n, s) == {k \in DOMAIN Bodies \ Range(s) : BodyEntry(Bodies[k]) = fns[n].entry}
             Chosen(n, s) == IF Free(n, s) = {} THEN 0 ELSE Min(Free(n, s))
             step == [x \in (1 .. L) \X V |-> Append(x[2], Chosen(x[1], x[2]))]
             Def(f) == f = [n \in 0 .. L |-> IF n = 0 THEN <<>>
                                             ELSE Append(f[n - 1], Chosen(n, f[n - 1]))]
  <1>1. L \in Nat /\ DOMAIN Bodies = 1 .. Len(Bodies) /\ DOMAIN Bodies \subseteq Nat
        /\ 0 \notin DOMAIN Bodies
    OBVIOUS
  <1>2. ASSUME NEW n, NEW s
        PROVE  /\ Chosen(n, s) \in Nat
               /\ Chosen(n, s) = 0 <=> Free(n, s) = {}
               /\ Chosen(n, s) # 0 => /\ Chosen(n, s) \in Free(n, s)
                                      /\ \A k \in Free(n, s) : Chosen(n, s) <= k
    <2>1. Free(n, s) \subseteq Nat /\ 0 \notin Free(n, s) BY <1>1
    <2> HIDE DEF Free
    <2>2. Free(n, s) # {} => Min(Free(n, s)) \in Free(n, s)
                            /\ \A y \in Free(n, s) : Min(Free(n, s)) <= y
      BY <2>1, LeastOfSet
    <2> QED BY <2>1, <2>2
  <1>3. PICK g : Iterates(g, <<>>, step, L, V)
    <2>1. <<>> \in V OBVIOUS
    <2>2. ASSUME NEW n \in 1 .. L, NEW v \in V PROVE Append(v, Chosen(n, v)) \in V
      <3>1. Chosen(n, v) \in Nat BY <1>2
      <3> HIDE DEF Chosen
      <3> QED BY <3>1
    <2>3. Steps(step, L, V)
      <3> HIDE DEF L, V, Chosen
      <3> QED BY <2>2 DEF Steps
    <2> HIDE DEF step, L, V
    <2> QED BY <1>1, <2>1, <2>3, RecursionExists
  <1>4. ASSUME NEW n \in 1 .. L
        PROVE  step[<<n, g[n - 1]>>] = Append(g[n - 1], Chosen(n, g[n - 1]))
    <2>1. n - 1 \in 0 .. L BY <1>1
    <2> HIDE DEF V, Chosen
    <2>2. g[n - 1] \in V BY <1>3, <2>1 DEF Iterates
    <2> QED BY <2>2
  <1>5. Def(g)
    <2>1. ASSUME NEW n \in 0 .. L
          PROVE  g[n] = IF n = 0 THEN <<>> ELSE Append(g[n - 1], Chosen(n, g[n - 1]))
      <3>1. n # 0 => n \in 1 .. L BY <1>1
      <3> HIDE DEF step, L, V, Chosen
      <3> QED BY <1>3, <1>4, <3>1 DEF Iterates
    <2>2. g = [n \in 0 .. L |-> g[n]] BY <1>3 DEF Iterates
    <2> HIDE DEF step, L, Chosen
    <2> QED BY <2>1, <2>2
  <1>6. Def(RefByEntry)
    <2>1. \E f : Def(f) BY <1>5
    <2> HIDE DEF step
    <2> QED BY <2>1, Zenon DEF RefByEntry
  <1> DEFINE f == RefByEntry
             Good(n) == Len(f[n]) = n /\ Greedy(f[n])
             T == {n \in 0 .. L : Good(n)}
  <1>7. 0 .. L \subseteq T
    <2>1. 0 \in T
      <3>1. 0 \in 0 .. L BY <1>1
      <3>2. f[0] = <<>>
        <4> HIDE DEF L
        <4> QED BY <1>6, <3>1
      <3>3. Greedy(<<>>) BY DEF Greedy
      <3> QED BY <3>1, <3>2, <3>3
    <2>2. ASSUME NEW n \in 1 .. L, n - 1 \in T PROVE n \in T
      <3>1. n \in 0 .. L /\ n # 0 /\ n - 1 \in 0 .. L /\ n - 1 \in Nat /\ n \in Nat BY <1>1
      <3> DEFINE s == f[n - 1]
                 v == Chosen(n, s)
                 t == f[n]
      <3>2. t = Append(s, v)
        <4> HIDE DEF L, Chosen
        <4> QED BY <1>6, <3>1
      <3>3. Len(s) = n - 1 /\ Greedy(s) BY <2>2
      <3>4. s \in Seq(Nat) BY <3>3 DEF Greedy
      <3>5. v \in Nat BY <1>2
      <3>6. /\ t \in Seq(Nat) /\ Len(t) = n
            /\ t[n] = v
            /\ \A i \in 1 .. (n - 1) : t[i] = s[i]
        <4> HIDE DEF t, v, s
        <4> QED BY <3>1, <3>2, <3>3, <3>4, <3>5
      <3>7. Range(s) = {s[j] : j \in 1 .. (n - 1)}
        <4>1. DOMAIN s = 1 .. (n - 1) BY <3>3, <3>4
        <4> HIDE DEF s
        <4> QED BY <4>1 DEF Range
      <3>8. /\ v = 0 <=> Free(n, s) = {}
            /\ v # 0 => v \in Free(n, s) /\ \A k \in Free(n, s) : v <= k
        BY <1>2
      <3>9. ASSUME NEW k PROVE
              k \in Free(n, s) <=> /\ k \in DOMAIN Bodies /\ BodyEntry(Bodies[k]) = fns[n].entry
                                  /\ \A j \in 1 .. (n - 1) : s[j] # k
        BY <3>7
      <3> HIDE DEF t, v, s, Free, Chosen
      <3>10. ASSUME NEW i \in 1 .. n, t[i] # 0
             PROVE  /\ t[i] \in DOMAIN Bodies /\ BodyEntry(Bodies[t[i]]) = fns[i].entry
                    /\ \A j \in 1 .. (i - 1) : t[j] # t[i]
        <4>1. CASE i = n
          <5>1. v # 0 /\ v \in Free(n, s) BY <3>6, <3>8, <3>10, <4>1
          <5>2. /\ v \in DOMAIN Bodies /\ BodyEntry(Bodies[v]) = fns[n].entry
                /\ \A j \in 1 .. (n - 1) : s[j] # v
            BY <3>9, <5>1
          <5> QED BY <3>6, <4>1, <5>2
        <4>2. CASE i # n
          <5>1. i \in 1 .. (n - 1) /\ \A j \in 1 .. (i - 1) : j \in 1 .. (n - 1)
            BY <3>1, <4>2
          <5>2. i \in 1 .. Len(s) BY <3>3, <5>1
          <5>3. t[i] = s[i] BY <3>6, <5>1
          <5>4. /\ s[i] \in DOMAIN Bodies /\ BodyEntry(Bodies[s[i]]) = fns[i].entry
                /\ \A j \in 1 .. (i - 1) : s[j] # s[i]
            BY <3>3, <3>10, <5>2, <5>3 DEF Greedy
          <5> QED BY <3>6, <5>1, <5>3, <5>4
        <4> QED BY <4>1, <4>2
      <3>11. ASSUME NEW i \in 1 .. n, NEW k \in DOMAIN Bodies,
                    BodyEntry(Bodies[k]) = fns[i].entry
             PROVE  (\E j \in 1 .. (i - 1) : t[j] = k) \/ (t[i] # 0 /\ t[i] <= k)
        <4>1. CASE i = n
          <5>1. CASE k \in Free(n, s)
            <6>1. v # 0 /\ v <= k BY <3>8, <5>1
            <6> QED BY <3>6, <4>1, <6>1
          <5>2. CASE k \notin Free(n, s)
            <6>1. PICK j \in 1 .. (n - 1) : s[j] = k BY <3>9, <3>11, <4>1, <5>2
            <6> QED BY <3>6, <4>1, <6>1
          <5> QED BY <5>1, <5>2
        <4>2. CASE i # n
          <5>1. i \in 1 .. (n - 1) /\ \A j \in 1 .. (i - 1) : j \in 1 .. (n - 1)
            BY <3>1, <4>2
          <5>2. i \in 1 .. Len(s) BY <3>3, <5>1
          <5>3. (\E j \in 1 .. (i - 1) : s[j] = k) \/ (s[i] # 0 /\ s[i] <= k)
            BY <3>3, <3>11, <5>2 DEF Greedy
          <5> QED BY <3>6, <5>1, <5>3
        <4> QED BY <4>1, <4>2
      <3>12. Greedy(t) BY <3>6, <3>10, <3>11 DEF Greedy
      <3> QED BY <3>1, <3>6, <3>12 DEF t
    <2> HIDE DEF T, L
    <2> QED BY <1>1, <2>1, <2>2, EveryPosition
  <1>8. L \in T BY <1>1, <1>7
  <1> QED BY <1>8

-----------------------------------------------------------------------------
(* Sums.                                                                   *)

\* A sum of numbers is a number.
LEMMA TotalType == ASSUME NEW s \in Seq(Nat) PROVE Total(s) \in Nat
  <1>1. PICK sum \in [0 .. Len(s) -> Nat] : Total(s) = sum[Len(s)] BY TotalDef
  <1>2. Len(s) \in 0 .. Len(s) OBVIOUS
  <1> QED BY <1>1, <1>2

\* A sum of larger numbers is larger.
LEMMA TotalGrows ==
    ASSUME NEW s \in Seq(Nat), NEW t \in Seq(Nat), Len(s) = Len(t),
           \A k \in 1 .. Len(s) : s[k] <= t[k]
    PROVE  Total(s) <= Total(t)
  <1> DEFINE L == Len(s)
  <1>1. L \in Nat OBVIOUS
  <1>2. PICK a \in [0 .. L -> Nat] :
          Total(s) = a[L] /\ a[0] = 0 /\ \A n \in 1 .. L : a[n] = a[n - 1] + s[n]
    BY TotalDef
  <1>3. PICK b \in [0 .. L -> Nat] :
          Total(t) = b[L] /\ b[0] = 0 /\ \A n \in 1 .. L : b[n] = b[n - 1] + t[n]
    <2>1. \E b \in [0 .. Len(t) -> Nat] :
            Total(t) = b[Len(t)] /\ b[0] = 0 /\ \A n \in 1 .. Len(t) : b[n] = b[n - 1] + t[n]
      BY TotalDef
    <2>2. L = Len(t) OBVIOUS
    <2> HIDE DEF L
    <2> QED BY <2>1, <2>2
  <1> DEFINE T == {n \in 0 .. L : a[n] <= b[n]}
  <1>4. 0 .. L \subseteq T
    <2>1. 0 \in T BY <1>2, <1>3
    <2>2. ASSUME NEW n \in 1 .. L, n - 1 \in T PROVE n \in T
      <3>1. n \in 0 .. L /\ n - 1 \in 0 .. L BY <1>1
      <3>2. a[n - 1] \in Nat /\ b[n - 1] \in Nat /\ s[n] \in Nat /\ t[n] \in Nat
        <4>1. n \in 1 .. Len(s) /\ n \in 1 .. Len(t) OBVIOUS
        <4>2. s[n] \in Nat /\ t[n] \in Nat BY <4>1
        <4>3. a[n - 1] \in Nat
          <5> HIDE DEF L
          <5> QED BY <1>2, <3>1
        <4>4. b[n - 1] \in Nat
          <5> HIDE DEF L
          <5> QED BY <1>3, <3>1
        <4> QED BY <4>2, <4>3, <4>4
      <3>3. a[n - 1] <= b[n - 1] /\ s[n] <= t[n] BY <2>2
      <3>4. a[n] = a[n - 1] + s[n] /\ b[n] = b[n - 1] + t[n] BY <1>2, <1>3
      <3> QED BY <3>1, <3>2, <3>3, <3>4
    <2> HIDE DEF T, L
    <2> QED BY <1>1, <2>1, <2>2, EveryPosition
  <1>5. L \in T BY <1>1, <1>4
  <1> QED BY <1>2, <1>3, <1>5

\* Nothing sums up to nothing.
LEMMA TotalZero ==
    ASSUME NEW s \in Seq(Nat), \A k \in 1 .. Len(s) : s[k] = 0
    PROVE  Total(s) = 0
  <1> DEFINE L == Len(s)
  <1>1. L \in Nat OBVIOUS
  <1>2. PICK a \in [0 .. L -> Nat] :
          Total(s) = a[L] /\ a[0] = 0 /\ \A n \in 1 .. L : a[n] = a[n - 1] + s[n]
    BY TotalDef
  <1> DEFINE T == {n \in 0 .. L : a[n] = 0}
  <1>4. 0 .. L \subseteq T
    <2>1. 0 \in T BY <1>2
    <2>2. ASSUME NEW n \in 1 .. L, n - 1 \in T PROVE n \in T
      <3>1. n \in 0 .. L /\ n - 1 \in 0 .. L BY <1>1
      <3>2. a[n - 1] = 0 /\ s[n] = 0 BY <2>2
      <3>4. a[n] = a[n - 1] + s[n] BY <1>2
      <3> QED BY <3>1, <3>2, <3>4
    <2> HIDE DEF T, L
    <2> QED BY <1>1, <2>1, <2>2, EveryPosition
  <1>5. L \in T BY <1>1, <1>4
  <1> QED BY <1>2, <1>5

\* One number in the place of a zero adds that number.
LEMMA TotalAdds ==
    ASSUME NEW s \in Seq(Nat), NEW t \in Seq(Nat), Len(s) = Len(t),
           NEW i \in 1 .. Len(s), s[i] = 0,
           \A k \in 1 .. Len(s) : k # i => s[k] = t[k]
    PROVE  Total(t) = Total(s) + t[i]
  <1> DEFINE L == Len(s)
  <1>1. L \in Nat /\ t[i] \in Nat OBVIOUS
  <1>2. PICK a \in [0 .. L -> Nat] :
          Total(s) = a[L] /\ a[0] = 0 /\ \A n \in 1 .. L : a[n] = a[n - 1] + s[n]
    BY TotalDef
  <1>3. PICK b \in [0 .. L -> Nat] :
          Total(t) = b[L] /\ b[0] = 0 /\ \A n \in 1 .. L : b[n] = b[n - 1] + t[n]
    <2>1. \E b \in [0 .. Len(t) -> Nat] :
            Total(t) = b[Len(t)] /\ b[0] = 0 /\ \A n \in 1 .. Len(t) : b[n] = b[n - 1] + t[n]
      BY TotalDef
    <2>2. L = Len(t) OBVIOUS
    <2> HIDE DEF L
    <2> QED BY <2>1, <2>2
  <1> DEFINE T == {n \in 0 .. L : b[n] = IF n < i THEN a[n] ELSE a[n] + t[i]}
  <1>4. 0 .. L \subseteq T
    <2>1. 0 \in T BY <1>1, <1>2, <1>3
    <2>2. ASSUME NEW n \in 1 .. L, n - 1 \in T PROVE n \in T
      <3>1. n \in 0 .. L /\ n - 1 \in 0 .. L BY <1>1
      <3>2. a[n - 1] \in Nat /\ b[n - 1] \in Nat /\ s[n] \in Nat /\ t[n] \in Nat
        <4>1. n \in 1 .. Len(s) /\ n \in 1 .. Len(t) OBVIOUS
        <4>2. s[n] \in Nat /\ t[n] \in Nat BY <4>1
        <4>3. a[n - 1] \in Nat
          <5> HIDE DEF L
          <5> QED BY <1>2, <3>1
        <4>4. b[n - 1] \in Nat
          <5> HIDE DEF L
          <5> QED BY <1>3, <3>1
        <4> QED BY <4>2, <4>3, <4>4
      <3>3. b[n - 1] = IF n - 1 < i THEN a[n - 1] ELSE a[n - 1] + t[i] BY <2>2
      <3>4. a[n] = a[n - 1] + s[n] /\ b[n] = b[n - 1] + t[n] BY <1>2, <1>3
      <3>5. CASE n < i
        <4>1. n - 1 < i /\ s[n] = t[n] BY <3>1, <3>5
        <4>2. b[n] = a[n] BY <3>3, <3>4, <4>1
        <4> QED BY <3>1, <3>5, <4>2
      <3>6. CASE n = i
        <4>1. n - 1 < i /\ s[n] = 0 /\ ~(n < i) BY <3>1, <3>6
        <4>2. b[n] = a[n] + t[i] BY <3>2, <3>3, <3>4, <3>6, <4>1
        <4> QED BY <3>1, <4>1, <4>2
      <3>7. CASE n > i
        <4>1. ~(n - 1 < i) /\ s[n] = t[n] /\ ~(n < i) BY <3>1, <3>7
        <4> DEFINE d == t[i]
        <4>2. d \in Nat /\ b[n - 1] = a[n - 1] + d BY <1>1, <3>3, <4>1
        <4>3. t[n] = s[n] BY <4>1
        <4>4. b[n] = a[n] + d
          <5> HIDE DEF d
          <5> QED BY <3>2, <3>4, <4>2, <4>3, SMTT(30)
        <4> QED BY <3>1, <4>1, <4>4 DEF T
      <3> QED BY <3>1, <3>5, <3>6, <3>7
    <2> HIDE DEF T, L
    <2> QED BY <1>1, <2>1, <2>2, EveryPosition
  <1>5. L \in T /\ ~(L < i) BY <1>1, <1>4
  <1> QED BY <1>2, <1>3, <1>5

-----------------------------------------------------------------------------
(* What the stream is made of.                                             *)

\* The values of a capture, and the bodies among what follows its inventory.
LEMMA StreamTypes ==
    ASSUME capture \in Captures
    PROVE  /\ Values \in Seq([kind : {"object", "array"}, elems : Seq(AnElement)])
           /\ Bodies \in Seq(ABody)
  <1> DEFINE AValue == [kind : {"object", "array"}, elems : Seq(AnElement)]
             last == IF Rizin THEN Len(Values) - 1 ELSE Len(Values)
             first == InventoryAt + 1
  <1>1. Values \in Seq(AValue) BY CapturesAssumption DEF Values
  <1>2. DOMAIN Values = 1 .. Len(Values) /\ Len(Values) \in Nat BY <1>1
  <1>3. InventoryAt \in Nat
    <2> DEFINE found == {k \in DOMAIN Values : Inventory(Values[k]) \/ TooMany(Values[k])}
    <2>1. found \subseteq Nat BY <1>2
    <2>2. InventoryAt = IF found = {} THEN 0 ELSE Min(found) BY DEF InventoryAt
    <2>3. found # {} => Min(found) \in found
      <3> HIDE DEF found
      <3> QED BY <2>1, LeastOfSet
    <2> HIDE DEF found
    <2> QED BY <2>1, <2>2, <2>3
  <1>4. first \in Int /\ last \in Int /\ first >= 1 /\ last <= Len(Values) BY <1>2, <1>3
  <1>5. Following = SubSeq(Values, first, last) BY DEF Following
  <1> HIDE DEF first, last
  <1>6. Following \in Seq(AValue)
    <2>1. \A i \in first .. last : i \in DOMAIN Values BY <1>2, <1>4
    <2>2. \A i \in first .. last : Values[i] \in AValue
      <3> HIDE DEF AValue
      <3> QED BY <1>1, <1>2, <2>1
    <2> HIDE DEF AValue
    <2> QED BY <1>4, <1>5, <2>2, SubSeqProperties
  <1>7. Len(Following) \in Nat /\ \A k \in 1 .. Len(Following) : Following[k].elems \in Seq(AnElement)
    <2>1. Len(Following) \in Nat /\ \A k \in 1 .. Len(Following) : Following[k] \in AValue
      <3> HIDE DEF AValue
      <3> QED BY <1>6
    <2> QED BY <2>1
  <1>8. Flattened(Following) \in Seq(AnElement)
    BY <1>7, FlattenedType
  <1>9. {e \in AnElement : e.is = "body"} \subseteq ABody
    BY DEF AnElement, AFunction, AReference
  <1> DEFINE E == {e \in AnElement : e.is = "body"}
  <1>10. Bodies \in Seq(E)
    BY <1>8, OfKindType DEF Bodies
  <1>11. Bodies \in Seq(ABody)
    <2>1. \A k \in 1 .. Len(Bodies) : Bodies[k] \in E
      <3> HIDE DEF E
      <3> QED BY <1>10
    <2>2. \A k \in 1 .. Len(Bodies) : Bodies[k] \in ABody BY <1>9, <2>1
    <2>3. Bodies \in [1 .. Len(Bodies) -> ABody] /\ Len(Bodies) \in Nat
      <3> HIDE DEF E
      <3> QED BY <1>10, <2>2
    <2> QED BY <2>3
  <1> QED BY <1>1, <1>11

-----------------------------------------------------------------------------
(* What the whole capture says of each function.                           *)

ByEntry == RefByEntry[Len(fns)]
RangesOf(i) == Projection(fns[i], RefBody(i))

\* Each function has the body of its address or the one of its position, and
\* no two have the same.
LEMMA PairsFacts ==
    ASSUME fns \in Seq(AFunction), Bodies \in Seq(ABody)
    PROVE  /\ ByEntry \in [1 .. Len(fns) -> Nat] /\ Greedy(ByEntry)
           /\ RefPairs \in [1 .. Len(fns) -> 0 .. Len(Bodies)]
           /\ \A i \in 1 .. Len(fns) : ByEntry[i] # 0 => RefPairs[i] = ByEntry[i]
           /\ \A i \in 1 .. Len(fns) : ByEntry[i] = 0 => RefPairs[i] \in {0, i}
           /\ \A i \in 1 .. Len(fns) : ByEntry[i] = 0 =>
                (RefPairs[i] # 0 <=> /\ i \in DOMAIN Bodies
                                     /\ \A j \in 1 .. Len(fns) : ByEntry[j] # i
                                     /\ MayTake(i, Bodies[i]))
           /\ \A i, j \in 1 .. Len(fns) : RefPairs[i] # 0 /\ RefPairs[i] = RefPairs[j] => i = j
  <1> DEFINE R == ByEntry
             N1 == Len(fns)
             Free(i) == /\ R[i] = 0 /\ i \in DOMAIN Bodies \ Range(R)
                       /\ BodyEntry(Bodies[i]) \in {Absent, fns[i].entry}
  <1>1. N1 \in Nat /\ DOMAIN fns = 1 .. N1 /\ Len(Bodies) \in Nat /\ DOMAIN Bodies = 1 .. Len(Bodies)
    OBVIOUS
  <1>2. Len(R) = N1 /\ Greedy(R) BY ByEntryFacts DEF ByEntry
  <1>3. R \in [1 .. N1 -> Nat] /\ DOMAIN R = 1 .. N1
    <2>1. R \in Seq(Nat) BY <1>2 DEF Greedy
    <2> HIDE DEF R, N1
    <2> QED BY <1>2, <2>1
  <1>4. RefPairs = [i \in 1 .. N1 |-> IF Free(i) THEN i ELSE R[i]]
    BY <1>1 DEF RefPairs, ByEntry
  <1>5. \A i \in 1 .. N1 : Free(i) <=> /\ R[i] = 0 /\ i \in DOMAIN Bodies
                                      /\ \A j \in 1 .. N1 : R[j] # i
                                      /\ MayTake(i, Bodies[i])
    <2>1. Range(R) = {R[j] : j \in 1 .. N1} BY <1>3 DEF Range
    <2> QED BY <2>1 DEF MayTake
  <1>6. \A i \in 1 .. N1 : R[i] # 0 => /\ R[i] \in DOMAIN Bodies
                                       /\ \A j \in 1 .. (i - 1) : R[j] # R[i]
    BY <1>2 DEF Greedy
  <1> HIDE DEF Free, R, N1
  <1>7. \A i \in 1 .. N1 : /\ R[i] \in Nat
                           /\ R[i] # 0 => RefPairs[i] = R[i] /\ R[i] \in DOMAIN Bodies
                           /\ R[i] = 0 => RefPairs[i] = IF Free(i) THEN i ELSE 0
    BY <1>3, <1>4, <1>5, <1>6
  <1>8. \A i \in 1 .. N1 : RefPairs[i] \in 0 .. Len(Bodies)
    BY <1>1, <1>5, <1>7
  <1>9. ASSUME NEW i \in 1 .. N1, NEW j \in 1 .. N1, RefPairs[i] # 0, RefPairs[i] = RefPairs[j]
        PROVE  i = j
    <2>0. i \in Nat /\ j \in Nat BY <1>1
    <2>1. CASE R[i] # 0 /\ R[j] # 0
      <3>1. R[i] = R[j] BY <1>7, <1>9, <2>1
      <3>2. i \notin 1 .. (j - 1) /\ j \notin 1 .. (i - 1) BY <1>6, <2>1, <3>1
      <3> QED BY <1>1, <2>0, <3>2
    <2>2. CASE R[i] = 0 /\ R[j] # 0
      <3>1. Free(i) /\ R[j] = i BY <1>7, <1>9, <2>2
      <3> QED BY <1>5, <3>1
    <2>3. CASE R[i] # 0 /\ R[j] = 0
      <3>1. Free(j) /\ R[i] = j BY <1>7, <1>9, <2>3, <2>0
      <3> QED BY <1>5, <3>1
    <2>4. CASE R[i] = 0 /\ R[j] = 0
      BY <1>7, <1>9, <2>4
    <2> QED BY <2>1, <2>2, <2>3, <2>4
  <1>10. RefPairs \in [1 .. N1 -> 0 .. Len(Bodies)]
    <2>1. RefPairs = [i \in 1 .. N1 |-> RefPairs[i]] BY <1>4
    <2> QED BY <1>8, <2>1
  <1>11. \A i \in 1 .. N1 : R[i] = 0 => (RefPairs[i] # 0 <=> Free(i)) /\ RefPairs[i] \in {0, i}
    BY <1>1, <1>7
  <1>12. \A i \in 1 .. N1 : R[i] = 0 =>
                (RefPairs[i] # 0 <=> /\ i \in DOMAIN Bodies
                                     /\ \A j \in 1 .. N1 : R[j] # i
                                     /\ MayTake(i, Bodies[i]))
    BY <1>5, <1>11
  <1> USE DEF R, N1
  <1> QED BY <1>2, <1>3, <1>7, <1>9, <1>10, <1>11, <1>12

\* The numbers of the reference are those of the ranges that are written.
LEMMA CountFacts ==
    ASSUME fns \in Seq(AFunction), Bodies \in Seq(ABody), NEW i \in 1 .. Len(fns)
    PROVE  /\ RefBody(i) \in ABody \cup {NoBody} /\ Apart(RangesOf(i))
           /\ RefAccepted(fns[i], RefBody(i)) => Cover(RangesOf(i)) = Covered(RefBody(i))
           /\ ~RefAccepted(fns[i], RefBody(i)) => RangesOf(i) = <<>>
           /\ RefCount(i) = Len(RangesOf(i)) /\ RefCount(i) \in Nat
           /\ RefBytes(i) = Bytes(RangesOf(i)) /\ RefBytes(i) \in Nat
           /\ (RefBytes(i) > 0 => \A a \in Covered(RefBody(i)) : a < fns[i].end) <=>
              (\A k \in DOMAIN RangesOf(i) : RangesOf(i)[k].end <= fns[i].end)
  <1> DEFINE f == fns[i]
             b == RefBody(i)
             r == RangesOf(i)
  <1>1. f \in AFunction OBVIOUS
  <1>2. b \in ABody \cup {NoBody}
    <2>1. RefPairs[i] \in 0 .. Len(Bodies) BY PairsFacts
    <2>2. Len(Bodies) \in Nat OBVIOUS
    <2>3. RefPairs[i] # 0 => RefPairs[i] \in 1 .. Len(Bodies) BY <2>1, <2>2
    <2> QED BY <2>3 DEF RefBody
  <1>3. r = Projection(f, b) BY DEF RangesOf
  <1> HIDE DEF f, b, r
  <1>4. /\ RefAccepted(f, b) => Apart(r) /\ r # <<>> /\ Cover(r) = Covered(b)
        /\ ~RefAccepted(f, b) => r = <<>>
    BY <1>1, <1>2, <1>3, ProjectionFacts
  <1>5. Apart(<<>>) /\ Len(<<>>) = 0 /\ DOMAIN <<>> = {}
    BY DEF Apart
  <1>6. Apart(r) BY <1>4, <1>5
  <1>7. r \in Seq(ARange) /\ DOMAIN r = 1 .. Len(r) /\ Len(r) \in Nat
        /\ \A k \in 1 .. Len(r) : r[k] \in ARange /\ r[k].start < r[k].end
    BY <1>6 DEF Apart
  <1>8. /\ IsFiniteSet(Cover(r)) /\ Bytes(r) = Cardinality(Cover(r))
        /\ Len(r) = Cardinality({a \in Cover(r) : a - 1 \notin Cover(r)})
    BY <1>6, CoverCount
  <1>9. Bytes(r) \in Nat BY <1>8, FS_CardinalityType
  <1>10. f.end \in Int BY <1>1 DEF AFunction, Number, Absent
  <1>11. Bytes(<<>>) = 0
    <2>1. Cover(<<>>) = {} BY DEF Cover
    <2>2. Bytes(<<>>) = Cardinality(Cover(<<>>)) BY <1>5, CoverCount
    <2> QED BY <2>1, <2>2, FS_EmptySet
  <1>12. /\ RefCount(i) = Len(r) /\ RefBytes(i) = Bytes(r)
    <2>1. CASE RefAccepted(f, b)
      <3>1. Cover(r) = Covered(b) BY <1>4, <2>1
      <3>2. RefAccepted(fns[i], RefBody(i)) BY <2>1 DEF f, b
      <3> QED BY <1>8, <3>1, <3>2 DEF RefCount, RefBytes, b
    <2>2. CASE ~RefAccepted(f, b)
      <3>1. r = <<>> BY <1>4, <2>2
      <3>2. ~RefAccepted(fns[i], RefBody(i)) BY <2>2 DEF f, b
      <3> QED BY <1>5, <1>11, <3>1, <3>2 DEF RefCount, RefBytes
    <2> QED BY <2>1, <2>2
  <1>13. (Bytes(r) > 0 => \A a \in Covered(b) : a < f.end) <=>
         (\A k \in DOMAIN r : r[k].end <= f.end)
    <2>1. CASE ~RefAccepted(f, b) BY <1>4, <1>5, <1>11, <2>1
    <2>2. CASE RefAccepted(f, b)
      <3>1. r # <<>> /\ Cover(r) = Covered(b) BY <1>4, <2>2
      <3>2. Bytes(r) > 0
        <4>1. Len(r) # 0 BY <1>7, <3>1
        <4>2. 1 \in 1 .. Len(r) BY <1>7, <4>1
        <4>3. r[1].start \in Nat /\ In(r[1], r[1].start) BY <1>7, <4>2 DEF In, ARange
        <4>4. r[1].start \in Cover(r) BY <4>2, <4>3 DEF Cover
        <4>5. Cardinality(Cover(r)) # 0 BY <1>8, <4>4, FS_EmptySet
        <4> QED BY <1>8, <1>9, <4>5
      <3>3. ASSUME \A a \in Cover(r) : a < f.end, NEW k \in DOMAIN r PROVE r[k].end <= f.end
        <4>1. r[k].start \in Nat /\ r[k].end \in Nat /\ r[k].start < r[k].end
          BY <1>7 DEF ARange
        <4>2. r[k].end - 1 \in Nat /\ In(r[k], r[k].end - 1) BY <4>1 DEF In
        <4>3. r[k].end - 1 \in Cover(r) BY <1>7, <4>2 DEF Cover
        <4>4. r[k].end - 1 < f.end BY <3>3, <4>3
        <4> QED BY <1>10, <4>1, <4>4
      <3>4. ASSUME \A k \in DOMAIN r : r[k].end <= f.end, NEW a \in Cover(r) PROVE a < f.end
        <4>1. PICK k \in 1 .. Len(r) : In(r[k], a) BY DEF Cover
        <4>2. r[k].end \in Nat /\ a \in Nat /\ r[k].end <= f.end
          BY <1>7, <3>4 DEF ARange, Cover
        <4> QED BY <1>10, <4>1, <4>2 DEF In
      <3> QED BY <3>1, <3>2, <3>3, <3>4
    <2> QED BY <2>1, <2>2
  <1> USE DEF f, b, r
  <1> QED BY <1>2, <1>4, <1>6, <1>7, <1>9, <1>12, <1>13

-----------------------------------------------------------------------------
(* The reference does not change while capture and inventory do not.       *)

\* What follows the inventory is the same as long as the capture is.
LEMMA SameCapture ==
    ASSUME capture' = capture
    PROVE  Bodies' = Bodies /\ Xrefs' = Xrefs
  <1>1. Values' = Values BY DEF Values
  <1>2. Rizin' = Rizin BY DEF Rizin
  <1>3. InventoryAt' = InventoryAt BY <1>1 DEF InventoryAt
  <1>4. Following' = Following BY <1>1, <1>2, <1>3 DEF Following
  <1>5. Bodies' = Bodies BY <1>4 DEF Bodies
  <1>6. Xrefs' = Xrefs BY <1>1, <1>2 DEF Xrefs
  <1> QED BY <1>5, <1>6

\* And so is all the reference says of an inventory.
LEMMA SameReference ==
    ASSUME capture' = capture, fns' = fns
    PROVE  /\ Bodies' = Bodies /\ Xrefs' = Xrefs /\ RefPairs' = RefPairs /\ ByEntry' = ByEntry
           /\ RefOk' <=> RefOk
           /\ \A i : RefBody(i)' = RefBody(i) /\ RangesOf(i)' = RangesOf(i)
           /\ \A i : RefCount(i)' = RefCount(i) /\ RefBytes(i)' = RefBytes(i)
           /\ \A r : References(r)' = References(r)
  <1>1. Bodies' = Bodies /\ Xrefs' = Xrefs BY SameCapture
  <1>2. RefByEntry' = RefByEntry BY <1>1 DEF RefByEntry
  <1>3. ByEntry' = ByEntry BY <1>2 DEF ByEntry
  <1>4. RefPairs' = RefPairs BY <1>1, <1>2 DEF RefPairs
  <1>5. ASSUME NEW i
        PROVE  /\ RefBody(i)' = RefBody(i) /\ RangesOf(i)' = RangesOf(i)
               /\ RefCount(i)' = RefCount(i) /\ RefBytes(i)' = RefBytes(i)
    <2>1. RefBody(i)' = RefBody(i) BY <1>1, <1>4 DEF RefBody
    <2>2. RangesOf(i)' = RangesOf(i) BY <2>1 DEF RangesOf
    <2>3. RefCount(i)' = RefCount(i) BY <2>1 DEF RefCount
    <2>4. RefBytes(i)' = RefBytes(i) BY <2>1 DEF RefBytes
    <2> QED BY <2>1, <2>2, <2>3, <2>4
  <1>6. ASSUME NEW r PROVE References(r)' = References(r) BY <1>1 DEF References
  <1>7. RefOk' <=> RefOk BY <1>1, <1>4, <1>5 DEF RefOk
  <1> QED BY <1>1, <1>3, <1>4, <1>5, <1>6, <1>7

-----------------------------------------------------------------------------
(***************************************************************************)
(* The invariant.  The reference of ThumbRegion is of the whole capture;   *)
(* the invariant says which part of it is done in each pass.               *)
(***************************************************************************)
Slot(i) == [fn |-> i, body |-> RefBody(i), ranges |-> RangesOf(i),
            refs |-> References(RangesOf(i))]

\* A record that does not fail the region by itself.
Clean(i) ==
    /\ Sound(fns[i]) /\ Len(RangesOf(i)) <= MaxRangesEach
    /\ \A k \in DOMAIN RangesOf(i) : RangesOf(i)[k].end <= fns[i].end

Spilled == {spill[k].fn : k \in DOMAIN spill}
CountsOf(S) == [i \in DOMAIN fns |-> IF i \in S THEN RefCount(i) ELSE 0]
BytesOf(S) == [i \in DOMAIN fns |-> IF i \in S THEN RefBytes(i) ELSE 0]

PairedInv ==
    /\ paired \subseteq DOMAIN fns
    /\ \A i \in paired : RefPairs[i] # 0
    /\ used = {RefPairs[i] : i \in paired}

\* Slots are those of the reference, each function has one at most, and what
\* they take of the budget is what is charged.
SlotsInv ==
    /\ spill \in Seq({Slot(i) : i \in DOMAIN fns})
    /\ \A k \in DOMAIN spill : Clean(spill[k].fn)
    /\ \A j, k \in DOMAIN spill : spill[j].fn = spill[k].fn => j = k
    /\ charged.ranges = Total(CountsOf(Spilled))
    /\ charged.bytes = Total(BytesOf(Spilled))

ScanInv ==
    phase = "inventory" =>
        /\ fns = <<>> /\ pos = 1 /\ paired = {} /\ used = {} /\ spill = <<>>
        /\ charged = [ranges |-> 0, bytes |-> 0]

ReadInv ==
    phase \in {"match", "fallback", "rest"} =>
        /\ fns # <<>> /\ pos \in Nat \ {0} /\ SlotsInv
        /\ \A i \in DOMAIN fns : fns[i].entry # Absent

MatchInv ==
    phase = "match" =>
        /\ paired = {i \in DOMAIN fns : ByEntry[i] \in 1 .. pos - 1}
        /\ Spilled = {i \in paired : ~Overflows(fns[i])}

FallbackInv ==
    phase = "fallback" =>
        /\ paired = {i \in DOMAIN fns : ByEntry[i] # 0 \/ (RefPairs[i] # 0 /\ i < pos)}
        /\ Spilled = {i \in paired : ~Overflows(fns[i])}

RestInv ==
    phase = "rest" =>
        /\ paired = {i \in DOMAIN fns : RefPairs[i] # 0}
        /\ paired # {} /\ used = DOMAIN Bodies
        /\ Spilled = paired \cup {i \in DOMAIN fns : i < pos}
        /\ pos <= Len(fns) + 1

DoneInv ==
    phase = "done" =>
        /\ outcome = "failed" => spill = <<>> /\ (fns # <<>> => ~RefOk)
        /\ outcome = "ok" => spill = [i \in 1 .. Len(fns) |-> Slot(i)] /\ RefOk

RegionTypes ==
    /\ capture \in Captures /\ fns \in Seq(AFunction) /\ Len(fns) <= MaxFunctions
    /\ phase \in {"inventory", "match", "fallback", "rest", "done"}
    /\ outcome \in {"none", "ok", "failed"} /\ (phase = "done" <=> outcome # "none")
    /\ charged \in [ranges : 0 .. MaxRanges, bytes : 0 .. MaxBytes]

RegionInv ==
    /\ RegionTypes /\ PairedInv /\ ScanInv /\ ReadInv
    /\ MatchInv /\ FallbackInv /\ RestInv /\ DoneInv

\* And so is what should be written and charged.
LEMMA SameSlots ==
    ASSUME capture' = capture, fns' = fns
    PROVE  /\ \A i : Slot(i)' = Slot(i) /\ (Clean(i)' <=> Clean(i))
           /\ \A S : CountsOf(S)' = CountsOf(S) /\ BytesOf(S)' = BytesOf(S)
  <1>1. \A i : RefBody(i)' = RefBody(i) /\ RangesOf(i)' = RangesOf(i) BY SameReference
  <1>2. \A i : RefCount(i)' = RefCount(i) /\ RefBytes(i)' = RefBytes(i) BY SameReference
  <1>3. \A r : References(r)' = References(r) BY SameReference
  <1>4. ASSUME NEW i PROVE Slot(i)' = Slot(i) /\ (Clean(i)' <=> Clean(i))
    <2>1. Slot(i)' = Slot(i) BY <1>1, <1>3 DEF Slot
    <2>2. Clean(i)' <=> Clean(i) BY <1>1 DEF Clean
    <2> QED BY <2>1, <2>2
  <1>5. ASSUME NEW S PROVE CountsOf(S)' = CountsOf(S) /\ BytesOf(S)' = BytesOf(S)
    BY <1>2 DEF CountsOf, BytesOf
  <1> QED BY <1>4, <1>5

\* Sums over some of the functions.
LEMMA SumFacts ==
    ASSUME fns \in Seq(AFunction), Bodies \in Seq(ABody), NEW S
    PROVE  /\ Total(CountsOf(S)) \in Nat /\ Total(BytesOf(S)) \in Nat
           /\ Total(CountsOf(S)) <= Total(CountsOf(DOMAIN fns))
           /\ Total(BytesOf(S)) <= Total(BytesOf(DOMAIN fns))
           /\ \A i \in 1 .. Len(fns) : i \notin S =>
                /\ Total(CountsOf(S \cup {i})) = Total(CountsOf(S)) + RefCount(i)
                /\ Total(BytesOf(S \cup {i})) = Total(BytesOf(S)) + RefBytes(i)
           /\ S = {} => Total(CountsOf(S)) = 0 /\ Total(BytesOf(S)) = 0
  <1> DEFINE L == Len(fns)
  <1>1. L \in Nat /\ DOMAIN fns = 1 .. L OBVIOUS
  <1>2. \A i \in 1 .. L : RefCount(i) \in Nat /\ RefBytes(i) \in Nat BY CountFacts
  <1>3. ASSUME NEW U
        PROVE  /\ CountsOf(U) \in Seq(Nat) /\ Len(CountsOf(U)) = L
               /\ BytesOf(U) \in Seq(Nat) /\ Len(BytesOf(U)) = L
               /\ \A i \in 1 .. L : /\ CountsOf(U)[i] = IF i \in U THEN RefCount(i) ELSE 0
                                    /\ BytesOf(U)[i] = IF i \in U THEN RefBytes(i) ELSE 0
    BY <1>1, <1>2 DEF CountsOf, BytesOf
  <1> DEFINE c == CountsOf(S)
             w == BytesOf(S)
             cAll == CountsOf(DOMAIN fns)
             wAll == BytesOf(DOMAIN fns)
  <1>4. /\ c \in Seq(Nat) /\ cAll \in Seq(Nat) /\ Len(c) = Len(cAll)
        /\ w \in Seq(Nat) /\ wAll \in Seq(Nat) /\ Len(w) = Len(wAll)
        /\ Len(c) = L /\ Len(w) = L
    BY <1>3
  <1>5. \A i \in 1 .. L : c[i] <= cAll[i] /\ w[i] <= wAll[i]
    <2>1. ASSUME NEW i \in 1 .. L PROVE c[i] <= cAll[i] /\ w[i] <= wAll[i]
      <3>1. i \in DOMAIN fns BY <1>1
      <3>2. cAll[i] = RefCount(i) /\ wAll[i] = RefBytes(i) BY <1>3, <3>1
      <3>3. c[i] \in {RefCount(i), 0} /\ w[i] \in {RefBytes(i), 0} BY <1>3
      <3> QED BY <1>2, <3>2, <3>3
    <2> QED BY <2>1
  <1>6. Total(c) <= Total(cAll) /\ Total(w) <= Total(wAll)
    <2> HIDE DEF c, w, cAll, wAll, L
    <2> QED BY <1>4, <1>5, TotalGrows
  <1>7. Total(c) \in Nat /\ Total(w) \in Nat
    <2> HIDE DEF c, w, cAll, wAll, L
    <2> QED BY <1>4, TotalType
  <1>8. ASSUME NEW i \in 1 .. L, i \notin S
        PROVE  /\ Total(CountsOf(S \cup {i})) = Total(c) + RefCount(i)
               /\ Total(BytesOf(S \cup {i})) = Total(w) + RefBytes(i)
    <2> DEFINE c2 == CountsOf(S \cup {i})
               w2 == BytesOf(S \cup {i})
    <2>1. c2 \in Seq(Nat) /\ Len(c2) = L /\ w2 \in Seq(Nat) /\ Len(w2) = L BY <1>3
    <2>2. c[i] = 0 /\ w[i] = 0 /\ c2[i] = RefCount(i) /\ w2[i] = RefBytes(i) BY <1>3, <1>8
    <2>3. \A k \in 1 .. L : k # i => c[k] = c2[k] /\ w[k] = w2[k] BY <1>3
    <2> HIDE DEF c, w, c2, w2, L
    <2>4. i \in 1 .. Len(c) /\ i \in 1 .. Len(w) BY <1>4
    <2>5. Total(c2) = Total(c) + c2[i] BY <1>4, <2>1, <2>2, <2>3, <2>4, TotalAdds, ZenonT(60)
    <2>6. Total(w2) = Total(w) + w2[i] BY <1>4, <2>1, <2>2, <2>3, <2>4, TotalAdds, ZenonT(60)
    <2> QED BY <2>2, <2>5, <2>6 DEF c2, w2
  <1>9. ASSUME S = {} PROVE Total(c) = 0 /\ Total(w) = 0
    <2>1. \A k \in 1 .. L : c[k] = 0 /\ w[k] = 0 BY <1>3, <1>9
    <2> HIDE DEF c, w, L
    <2> QED BY <1>4, <2>1, TotalZero
  <1> QED BY <1>6, <1>7, <1>8, <1>9

\* The verdict of the reference, function by function.
LEMMA RefOkParts ==
    ASSUME fns \in Seq(AFunction), Bodies \in Seq(ABody)
    PROVE  RefOk <=>
             /\ fns # <<>> /\ Bodies # <<>>
             /\ {RefPairs[i] : i \in DOMAIN fns} \ {0} = DOMAIN Bodies
             /\ \A i \in DOMAIN fns : Clean(i)
             /\ Total(CountsOf(DOMAIN fns)) <= MaxRanges
             /\ Total(BytesOf(DOMAIN fns)) <= MaxBytes
  <1>1. DOMAIN fns = 1 .. Len(fns) OBVIOUS
  <1>2. CountsOf(DOMAIN fns) = [i \in DOMAIN fns |-> RefCount(i)] BY DEF CountsOf
  <1>3. BytesOf(DOMAIN fns) = [i \in DOMAIN fns |-> RefBytes(i)] BY DEF BytesOf
  <1>4. ASSUME NEW i \in DOMAIN fns
        PROVE  Clean(i) <=>
                 /\ Sound(fns[i]) /\ RefCount(i) <= MaxRangesEach
                 /\ RefBytes(i) > 0 => \A a \in Covered(RefBody(i)) : a < fns[i].end
    <2>1. i \in 1 .. Len(fns) BY <1>1
    <2>2. RefCount(i) = Len(RangesOf(i)) BY <2>1, CountFacts
    <2>3. (RefBytes(i) > 0 => \A a \in Covered(RefBody(i)) : a < fns[i].end) <=>
          (\A k \in DOMAIN RangesOf(i) : RangesOf(i)[k].end <= fns[i].end)
      BY <2>1, CountFacts
    <2> QED BY <2>2, <2>3 DEF Clean
  <1>5. (\A i \in DOMAIN fns : Clean(i)) <=>
        \A i \in DOMAIN fns :
          /\ Sound(fns[i]) /\ RefCount(i) <= MaxRangesEach
          /\ RefBytes(i) > 0 => \A a \in Covered(RefBody(i)) : a < fns[i].end
    BY <1>4
  <1> QED BY <1>2, <1>3, <1>5 DEF RefOk

-----------------------------------------------------------------------------
(* A slot is written, or the region fails for a reason the reference has.  *)

Budget == [ranges : 0 .. MaxRanges, bytes : 0 .. MaxBytes]

\* Writing one more slot keeps slots and budget as they should be.
LEMMA SlotStep ==
    ASSUME fns \in Seq(AFunction), Bodies \in Seq(ABody), SlotsInv, charged \in Budget,
           capture' = capture, fns' = fns,
           NEW i \in 1 .. Len(fns), i \notin Spilled,
           NEW body, body = RefBody(i), NormalizeAndSpill(i, body)
    PROVE  \/ /\ UNCHANGED <<phase, outcome>>
              /\ SlotsInv' /\ charged' \in Budget /\ Spilled' = Spilled \cup {i}
           \/ /\ phase' = "done" /\ outcome' = "failed" /\ spill' = <<>>
              /\ charged' = charged /\ ~RefOk
  <1> DEFINE r == RangesOf(i)
             total == [ranges |-> charged.ranges + Len(r), bytes |-> charged.bytes + Bytes(r)]
             good == /\ Sound(fns[i])
                     /\ Len(r) <= MaxRangesEach /\ total.ranges <= MaxRanges
                     /\ total.bytes <= MaxBytes
                     /\ \A k \in DOMAIN r : r[k].end <= fns[i].end
             e == Slot(i)
  <1>1. DOMAIN fns = 1 .. Len(fns) OBVIOUS
  <1>2. r = Projection(fns[i], body) BY DEF RangesOf
  <1>3. e = [fn |-> i, body |-> body, ranges |-> r, refs |-> References(r)] BY DEF Slot
  <1>4. IF good
        THEN /\ spill' = Append(spill, e) /\ charged' = total /\ UNCHANGED <<outcome, phase>>
        ELSE Fail /\ UNCHANGED charged
    BY <1>2, <1>3 DEF NormalizeAndSpill
  <1>5. /\ RefCount(i) = Len(r) /\ Len(r) \in Nat
        /\ RefBytes(i) = Bytes(r) /\ Bytes(r) \in Nat
    <2>1. /\ RefCount(i) = Len(RangesOf(i)) /\ RefCount(i) \in Nat
          /\ RefBytes(i) = Bytes(RangesOf(i)) /\ RefBytes(i) \in Nat
      BY CountFacts
    <2> QED BY <2>1
  <1>6. /\ charged = [ranges |-> charged.ranges, bytes |-> charged.bytes]
        /\ charged.ranges \in 0 .. MaxRanges /\ charged.bytes \in 0 .. MaxBytes
    BY DEF Budget
  <1>7. charged.ranges = Total(CountsOf(Spilled)) /\ charged.bytes = Total(BytesOf(Spilled))
    BY DEF SlotsInv
  <1> DEFINE W == Spilled
             U == W \cup {i}
  <1>8. /\ Total(CountsOf(U)) = Total(CountsOf(W)) + RefCount(i)
        /\ Total(BytesOf(U)) = Total(BytesOf(W)) + RefBytes(i)
    <2>1. i \notin W OBVIOUS
    <2> HIDE DEF W
    <2> QED BY <2>1, SumFacts
  <1>9. /\ Total(CountsOf(U)) = charged.ranges + Len(r)
        /\ Total(BytesOf(U)) = charged.bytes + Bytes(r)
    BY <1>5, <1>7, <1>8
  <1>10. /\ Total(CountsOf(U)) <= Total(CountsOf(DOMAIN fns))
         /\ Total(BytesOf(U)) <= Total(BytesOf(DOMAIN fns))
    <2> HIDE DEF U
    <2> QED BY SumFacts
  <1>11. /\ Total(CountsOf(DOMAIN fns)) \in Nat /\ Total(BytesOf(DOMAIN fns)) \in Nat
    <2> DEFINE D == DOMAIN fns
    <2> HIDE DEF D
    <2> QED BY SumFacts DEF D
  <1>12. MaxRanges \in Nat /\ MaxBytes \in Nat BY RegionAssumption
  <1>13. Clean(i) <=> /\ Sound(fns[i]) /\ Len(r) <= MaxRangesEach
                      /\ \A k \in DOMAIN r : r[k].end <= fns[i].end
    BY DEF Clean
  <1>14. CASE ~good
    <2>1. phase' = "done" /\ outcome' = "failed" /\ spill' = <<>> /\ charged' = charged
      BY <1>4, <1>14 DEF Fail
    <2>2. ASSUME RefOk PROVE FALSE
      <3>1. /\ \A j \in DOMAIN fns : Clean(j)
            /\ Total(CountsOf(DOMAIN fns)) <= MaxRanges
            /\ Total(BytesOf(DOMAIN fns)) <= MaxBytes
        BY <2>2, RefOkParts
      <3>2. Clean(i) BY <1>1, <3>1
      <3>3. charged.ranges + Len(r) > MaxRanges \/ charged.bytes + Bytes(r) > MaxBytes
        <4> HIDE DEF r
        <4> QED BY <1>5, <1>6, <1>12, <1>13, <1>14, <3>2
      <3>4. Total(CountsOf(U)) > MaxRanges \/ Total(BytesOf(U)) > MaxBytes BY <1>9, <3>3
      <3>5. charged.ranges + Len(r) \in Nat /\ charged.bytes + Bytes(r) \in Nat
        <4> HIDE DEF r
        <4> QED BY <1>5, <1>6, <1>12
      <3> DEFINE a1 == Total(CountsOf(U))
                 b1 == Total(BytesOf(U))
                 a2 == Total(CountsOf(DOMAIN fns))
                 b2 == Total(BytesOf(DOMAIN fns))
      <3>6. a1 \in Nat /\ b1 \in Nat /\ a2 \in Nat /\ b2 \in Nat BY <1>9, <1>11, <3>5
      <3>7. a1 <= a2 /\ b1 <= b2 /\ a2 <= MaxRanges /\ b2 <= MaxBytes
            /\ (a1 > MaxRanges \/ b1 > MaxBytes)
        BY <1>10, <3>1, <3>4
      <3> HIDE DEF a1, a2, b1, b2
      <3> QED BY <1>12, <3>6, <3>7
    <2> QED BY <2>1, <2>2
  <1>15. CASE good
    <2>1. spill' = Append(spill, e) /\ charged' = total /\ UNCHANGED <<outcome, phase>>
      BY <1>4, <1>15
    <2> DEFINE E == {Slot(j) : j \in DOMAIN fns}
               L == Len(spill)
    <2>2. spill \in Seq(E) BY DEF SlotsInv
    <2>3. e \in E BY <1>1
    <2>4. e.fn = i BY <1>3
    <2> HIDE DEF E, e, r, total
    <2>5. /\ spill' \in Seq(E) /\ L \in Nat /\ DOMAIN spill = 1 .. L /\ DOMAIN spill' = 1 .. L + 1
          /\ spill'[L + 1] = e /\ \A k \in 1 .. L : spill'[k] = spill[k]
      BY <2>1, <2>2, <2>3
    <2>6. \A k \in DOMAIN spill' : k = L + 1 \/ k \in DOMAIN spill
      <3> HIDE DEF L
      <3> QED BY <2>5
    <2>7. Spilled' = U
      <3>1. Spilled' = {spill'[k].fn : k \in DOMAIN spill'} BY DEF Spilled
      <3>2. W = {spill[k].fn : k \in DOMAIN spill} BY DEF Spilled
      <3>3. L + 1 \in DOMAIN spill' /\ DOMAIN spill \subseteq DOMAIN spill'
        <4> HIDE DEF L
        <4> QED BY <2>5
      <3>4. ASSUME NEW x \in Spilled' PROVE x \in U
        <4>1. PICK k \in DOMAIN spill' : x = spill'[k].fn BY <3>1
        <4>2. CASE k = L + 1 BY <2>4, <2>5, <4>1, <4>2
        <4>3. CASE k \in DOMAIN spill
          <5>1. x = spill[k].fn BY <2>5, <4>1, <4>3
          <5> QED BY <3>2, <4>3, <5>1
        <4> QED BY <2>6, <4>2, <4>3
      <3>5. ASSUME NEW x \in U PROVE x \in Spilled'
        <4>1. CASE x = i BY <2>4, <2>5, <3>1, <3>3, <4>1
        <4>2. CASE x \in W
          <5>1. PICK k \in DOMAIN spill : x = spill[k].fn BY <3>2, <4>2
          <5>2. spill'[k] = spill[k] BY <2>5
          <5> QED BY <3>1, <3>3, <5>1, <5>2
        <4> QED BY <4>1, <4>2
      <3> QED BY <3>4, <3>5
    <2>8. charged' \in Budget
      <3>1. charged.ranges + Len(r) \in 0 .. MaxRanges /\ charged.bytes + Bytes(r) \in 0 .. MaxBytes
        BY <1>5, <1>6, <1>12, <1>15 DEF total
      <3> QED BY <2>1, <3>1 DEF Budget, total
    <2>9. charged'.ranges = Total(CountsOf(U)) /\ charged'.bytes = Total(BytesOf(U))
      BY <1>9, <2>1 DEF total
    <2>10. SlotsInv'
      <3>1. E' = E
        <4>1. \A j : Slot(j)' = Slot(j) BY SameSlots
        <4> QED BY <4>1 DEF E
      <3>2. \A k \in DOMAIN spill' : Clean(spill'[k].fn)
        <4>1. Clean(i) BY <1>13, <1>15
        <4>2. \A k \in DOMAIN spill : Clean(spill[k].fn) BY DEF SlotsInv
        <4> QED BY <2>4, <2>5, <2>6, <4>1, <4>2
      <3>3. \A j, k \in DOMAIN spill' : spill'[j].fn = spill'[k].fn => j = k
        <4>1. \A k \in DOMAIN spill : spill[k].fn # i BY DEF Spilled
        <4>2. \A j, k \in DOMAIN spill : spill[j].fn = spill[k].fn => j = k BY DEF SlotsInv
        <4> QED BY <2>4, <2>5, <2>6, <4>1, <4>2
      <3>4. \A j : Clean(j)' <=> Clean(j) BY SameSlots
      <3>5. CountsOf(Spilled)' = CountsOf(U) /\ BytesOf(Spilled)' = BytesOf(U)
        <4>1. \A j : RefCount(j)' = RefCount(j) /\ RefBytes(j)' = RefBytes(j)
          BY SameReference
        <4> QED BY <2>7, <4>1 DEF CountsOf, BytesOf
      <3>6. /\ (spill \in Seq({Slot(j) : j \in DOMAIN fns}))'
        BY <2>5, <3>1 DEF E
      <3>7. (\A k \in DOMAIN spill : Clean(spill[k].fn))'
        <4> HIDE DEF L
        <4>1. ASSUME NEW k \in DOMAIN spill' PROVE Clean(spill[k].fn)'
          <5>1. Clean(spill'[k].fn) BY <3>2
          <5>2. RefPairs' = RefPairs /\ Bodies' = Bodies BY SameReference
          <5>3. RangesOf(spill[k].fn)' = RangesOf(spill'[k].fn) BY <5>2 DEF RangesOf, RefBody
          <5> QED BY <5>1, <5>3 DEF Clean
        <4> QED BY <4>1
      <3> QED BY <2>9, <3>3, <3>5, <3>6, <3>7 DEF SlotsInv
    <2> QED BY <2>1, <2>7, <2>8, <2>10
  <1> HIDE DEF good
  <1> QED BY <1>14, <1>15

\* So does writing nothing.
LEMMA SameSpill ==
    ASSUME capture' = capture, fns' = fns, spill' = spill, charged' = charged, SlotsInv
    PROVE  SlotsInv' /\ Spilled' = Spilled
  <1>1. Spilled' = Spilled BY DEF Spilled
  <1>2. \A i : Slot(i)' = Slot(i) BY SameSlots
  <1>3. RefPairs' = RefPairs /\ Bodies' = Bodies BY SameReference
  <1>4. ASSUME NEW k \in DOMAIN spill' PROVE Clean(spill[k].fn)'
    <2>1. Clean(spill[k].fn) BY DEF SlotsInv
    <2>2. RangesOf(spill[k].fn)' = RangesOf(spill[k].fn) BY <1>3 DEF RangesOf, RefBody
    <2> QED BY <2>1, <2>2 DEF Clean
  <1>5. \A j : RefCount(j)' = RefCount(j) /\ RefBytes(j)' = RefBytes(j) BY SameReference
  <1>6. CountsOf(Spilled)' = CountsOf(Spilled) /\ BytesOf(Spilled)' = BytesOf(Spilled)
    BY <1>1, <1>5 DEF CountsOf, BytesOf
  <1>7. {Slot(i) : i \in DOMAIN fns}' = {Slot(i) : i \in DOMAIN fns} BY <1>2
  <1>8. (spill \in Seq({Slot(i) : i \in DOMAIN fns}))' BY <1>7 DEF SlotsInv
  <1>9. (\A j, k \in DOMAIN spill : spill[j].fn = spill[k].fn => j = k)' BY DEF SlotsInv
  <1>10. (charged.ranges = Total(CountsOf(Spilled)))' /\ (charged.bytes = Total(BytesOf(Spilled)))'
    BY <1>6 DEF SlotsInv
  <1> QED BY <1>1, <1>4, <1>8, <1>9, <1>10 DEF SlotsInv

\* Pairing nothing keeps the pairs.
LEMMA SamePaired ==
    ASSUME capture' = capture, fns' = fns, paired' = paired, used' = used, PairedInv
    PROVE  PairedInv'
  <1>1. RefPairs' = RefPairs BY SameReference
  <1> QED BY <1>1 DEF PairedInv

\* A function takes a body that is its own by the reference.
LEMMA PairStep ==
    ASSUME fns \in Seq(AFunction), Bodies \in Seq(ABody), SlotsInv, charged \in Budget, PairedInv,
           capture' = capture, fns' = fns, pos \in 1 .. Len(Bodies),
           NEW i \in DOMAIN fns \ paired, RefPairs[i] = pos,
           Spilled = {j \in paired : ~Overflows(fns[j])}, Pair(i)
    PROVE  /\ PairedInv' /\ paired' = paired \cup {i}
           /\ \/ /\ UNCHANGED <<phase, outcome>> /\ SlotsInv' /\ charged' \in Budget
                 /\ Spilled' = {j \in paired' : ~Overflows(fns[j])}
              \/ /\ phase' = "done" /\ outcome' = "failed" /\ spill' = <<>>
                 /\ charged' = charged /\ ~RefOk
  <1>1. DOMAIN fns = 1 .. Len(fns) OBVIOUS
  <1>2. paired' = paired \cup {i} /\ used' = used \cup {pos} BY DEF Pair
  <1>3. Len(Bodies) \in Nat OBVIOUS
  <1>4. PairedInv'
    <2>1. RefPairs' = RefPairs BY SameReference
    <2>2. pos # 0 BY <1>3
    <2>3. paired' \subseteq DOMAIN fns' BY <1>2 DEF PairedInv
    <2>4. \A j \in paired' : RefPairs[j] # 0 BY <1>2, <2>2 DEF PairedInv
    <2>5. used' = {RefPairs[j] : j \in paired'} BY <1>2 DEF PairedInv
    <2> QED BY <2>1, <2>3, <2>4, <2>5 DEF PairedInv
  <1>5. CASE Overflows(fns[i])
    <2>1. UNCHANGED <<spill, charged, outcome, phase>> BY <1>5 DEF Pair
    <2>2. SlotsInv' /\ Spilled' = Spilled BY <2>1, SameSpill
    <2>3. Spilled' = {j \in paired' : ~Overflows(fns[j])} BY <1>2, <1>5, <2>2
    <2> QED BY <1>2, <1>4, <2>1, <2>2, <2>3
  <1>6. CASE ~Overflows(fns[i])
    <2> DEFINE b == Bodies[pos]
    <2>1. NormalizeAndSpill(i, b) BY <1>6 DEF Pair
    <2>2. b = RefBody(i) BY <1>3 DEF RefBody
    <2>3. i \notin Spilled /\ i \in 1 .. Len(fns) BY <1>1
    <2> HIDE DEF b
    <2>4. \/ /\ UNCHANGED <<phase, outcome>>
             /\ SlotsInv' /\ charged' \in Budget /\ Spilled' = Spilled \cup {i}
          \/ /\ phase' = "done" /\ outcome' = "failed" /\ spill' = <<>>
             /\ charged' = charged /\ ~RefOk
      BY <2>1, <2>2, <2>3, SlotStep
    <2>5. Spilled \cup {i} = {j \in paired' : ~Overflows(fns[j])} BY <1>2, <1>6
    <2> QED BY <1>2, <1>4, <2>4, <2>5
  <1> QED BY <1>5, <1>6

\* A failure is the end.
LEMMA FailStep ==
    ASSUME RegionTypes, capture' = capture, fns' = fns, PairedInv',
           phase' = "done", outcome' = "failed", spill' = <<>>, charged' = charged,
           fns # <<>> => ~RefOk
    PROVE  RegionInv'
  <1>1. RefOk' <=> RefOk BY SameReference
  <1>2. RegionTypes' BY DEF RegionTypes
  <1>3. DoneInv' BY <1>1 DEF DoneInv
  <1>4. ScanInv' /\ ReadInv' /\ MatchInv' /\ FallbackInv' /\ RestInv'
    BY DEF ScanInv, ReadInv, MatchInv, FallbackInv, RestInv
  <1> QED BY <1>2, <1>3, <1>4 DEF RegionInv

\* What every step may use.
LEMMA Reading ==
    ASSUME RegionInv
    PROVE  /\ fns \in Seq(AFunction) /\ DOMAIN fns = 1 .. Len(fns) /\ Len(fns) \in Nat
           /\ Bodies \in Seq(ABody) /\ DOMAIN Bodies = 1 .. Len(Bodies) /\ Len(Bodies) \in Nat
           /\ charged \in Budget /\ PairedInv /\ RegionTypes
  <1>1. fns \in Seq(AFunction) /\ capture \in Captures /\ charged \in Budget /\ PairedInv /\ RegionTypes
    BY DEF RegionInv, RegionTypes, Budget
  <1>2. Bodies \in Seq(ABody) BY <1>1, StreamTypes
  <1> QED BY <1>1, <1>2

-----------------------------------------------------------------------------
(* The passes.                                                             *)

\* A: the inventory is taken or the region fails before it has one.
LEMMA ScanStep == ASSUME RegionInv, ScanInventory PROVE RegionInv'
  <1> DEFINE v == Values[InventoryAt]
             bad == \/ Rizin /\ ~RizinShape
                    \/ InventoryAt = 0 \/ TooMany(v)
                    \/ \E k \in DOMAIN v.elems : v.elems[k].entry = Absent
  <1>1. /\ phase = "inventory" /\ UNCHANGED <<capture, pos, paired, used, charged>>
        /\ IF bad THEN Fail /\ UNCHANGED fns
           ELSE fns' = v.elems /\ phase' = "match" /\ UNCHANGED <<spill, outcome>>
    BY DEF ScanInventory
  <1>2. /\ fns = <<>> /\ pos = 1 /\ paired = {} /\ used = {} /\ spill = <<>>
        /\ charged = [ranges |-> 0, bytes |-> 0]
    BY <1>1 DEF RegionInv, ScanInv
  <1>3. CASE bad
    <2>1. fns' = fns /\ phase' = "done" /\ outcome' = "failed" /\ spill' = <<>>
      <3> HIDE DEF bad
      <3> QED BY <1>1, <1>3 DEF Fail
    <2>2. PairedInv' BY <1>1, <2>1, SamePaired, Reading
    <2>3. RegionTypes BY Reading
    <2> QED BY <1>1, <1>2, <2>1, <2>2, <2>3, FailStep
  <1>4. CASE ~bad
    <2>1. fns' = v.elems /\ phase' = "match" /\ UNCHANGED <<spill, outcome>>
      <3> HIDE DEF bad
      <3> QED BY <1>1, <1>4
    <2> DEFINE found == {k \in DOMAIN Values : Inventory(Values[k]) \/ TooMany(Values[k])}
    <2>2. capture \in Captures BY DEF RegionInv, RegionTypes
    <2>3. Values \in Seq([kind : {"object", "array"}, elems : Seq(AnElement)])
      BY <2>2, StreamTypes
    <2>4. DOMAIN Values \subseteq Nat /\ Len(Values) \in Nat BY <2>3
    <2>5. InventoryAt # 0 /\ InventoryAt \in found
      <3>1. InventoryAt # 0 BY <1>4
      <3>2. InventoryAt = IF found = {} THEN 0 ELSE Min(found) BY DEF InventoryAt
      <3>3. found \subseteq Nat BY <2>4
      <3> HIDE DEF found
      <3> QED BY <3>1, <3>2, <3>3, LeastOfSet
    <2>6. InventoryAt \in DOMAIN Values /\ Inventory(v)
      BY <1>4, <2>5
    <2>7. v.elems \in Seq(AnElement)
      <3> DEFINE A == [kind : {"object", "array"}, elems : Seq(AnElement)]
      <3>1. v \in A
        <4>1. Values \in Seq(A) BY <2>3
        <4> HIDE DEF A
        <4> QED BY <2>6, <4>1
      <3> HIDE DEF v
      <3> QED BY <3>1
    <2> DEFINE s == v.elems
    <2>8. /\ Len(s) >= 1 /\ Len(s) <= MaxFunctions
          /\ \A k \in DOMAIN s : s[k].is = "function"
      BY RegionAssumption, <2>6 DEF Inventory, AllFunctions
    <2>9. \A k \in DOMAIN s : s[k].entry # Absent BY <1>4
    <2> HIDE DEF v, s, bad, found
    <2>10. fns' = s /\ s \in Seq(AnElement) BY <2>1, <2>7 DEF s
    <2>11. \A e \in AnElement : e.is = "function" => e \in AFunction
      BY DEF AnElement, AFunction, ABody, AReference
    <2>12. s \in Seq(AFunction)
      <3>1. \A k \in 1 .. Len(s) : s[k] \in AnElement BY <2>10
      <3>2. \A k \in 1 .. Len(s) : s[k] \in AFunction BY <2>8, <2>10, <2>11, <3>1
      <3>3. Len(s) \in Nat /\ DOMAIN s = 1 .. Len(s) /\ s = [k \in 1 .. Len(s) |-> s[k]] BY <2>10
      <3> QED BY <3>2, <3>3
    <2>13. fns' # <<>> BY <2>8, <2>10
    <2>14. Bodies' = Bodies BY <1>1, SameCapture
    <2>15. Bodies \in Seq(ABody) BY <2>2, StreamTypes
    <2>16. RegionTypes' BY <1>1, <2>1, <2>8, <2>10, <2>12 DEF RegionInv, RegionTypes
    <2>17. PairedInv' BY <1>1, <1>2 DEF PairedInv
    <2>18. /\ Spilled' = {} /\ spill' = <<>> BY <1>2, <2>1 DEF Spilled
    <2>19. Total(CountsOf({}))' = 0 /\ Total(BytesOf({}))' = 0
      <3>2. CountsOf({})' = [k \in 1 .. Len(s) |-> 0] BY <2>10, <2>12 DEF CountsOf
      <3>3. BytesOf({})' = [k \in 1 .. Len(s) |-> 0] BY <2>10, <2>12 DEF BytesOf
      <3> DEFINE z == [k \in 1 .. Len(s) |-> 0]
      <3>4. z \in Seq(Nat) /\ \A k \in 1 .. Len(z) : z[k] = 0 BY <2>12
      <3>5. Total(z) = 0
        <4> HIDE DEF z
        <4> QED BY <3>4, TotalZero
      <3>6. Total(CountsOf({}))' = Total(z) BY <3>2
      <3>7. Total(BytesOf({}))' = Total(z) BY <3>3
      <3> QED BY <3>5, <3>6, <3>7
    <2>20. SlotsInv'
      <3>1. CountsOf(Spilled)' = CountsOf({})' /\ BytesOf(Spilled)' = BytesOf({})'
        BY <2>18 DEF CountsOf, BytesOf
      <3>2. (charged.ranges = Total(CountsOf(Spilled)))' /\ (charged.bytes = Total(BytesOf(Spilled)))'
        BY <1>1, <1>2, <2>19, <3>1
      <3>3. (spill \in Seq({Slot(i) : i \in DOMAIN fns}))' BY <2>18
      <3>4. DOMAIN spill' = {} BY <2>18
      <3> QED BY <3>2, <3>3, <3>4 DEF SlotsInv
    <2>21. ReadInv'
      <3>1. (\A i \in DOMAIN fns : fns[i].entry # Absent)' BY <2>9, <2>10
      <3> QED BY <1>1, <1>2, <2>13, <2>20, <3>1 DEF ReadInv
    <2>22. MatchInv'
      <3>1. 1 .. pos' - 1 = {} BY <1>1, <1>2
      <3> QED BY <1>1, <1>2, <2>18, <3>1 DEF MatchInv
    <2>23. ScanInv' /\ FallbackInv' /\ RestInv' /\ DoneInv'
      BY <2>1 DEF ScanInv, FallbackInv, RestInv, DoneInv
    <2> QED BY <2>16, <2>17, <2>21, <2>22, <2>23 DEF RegionInv
  <1> HIDE DEF bad
  <1> QED BY <1>3, <1>4

\* B1: the body goes to the function that has it by the reference, or no
\* function has it by address.
LEMMA MatchStep == ASSUME RegionInv, Match PROVE RegionInv'
  <1> DEFINE b == Bodies[pos]
             entry == BodyEntry(b)
             free == {i \in DOMAIN fns \ paired : fns[i].entry = entry}
             R == ByEntry
  <1>1. /\ fns \in Seq(AFunction) /\ DOMAIN fns = 1 .. Len(fns) /\ Len(fns) \in Nat
        /\ Bodies \in Seq(ABody) /\ DOMAIN Bodies = 1 .. Len(Bodies) /\ Len(Bodies) \in Nat
        /\ charged \in Budget /\ PairedInv /\ RegionTypes
    BY Reading
  <1>2. /\ phase = "match" /\ pos <= Len(Bodies) /\ pos' = pos + 1
        /\ capture' = capture /\ fns' = fns
        /\ IF entry = Absent \/ free = {} THEN Pass ELSE Pair(Min(free))
    BY DEF Match
  <1>3. /\ fns # <<>> /\ pos \in Nat \ {0} /\ SlotsInv
        /\ \A i \in DOMAIN fns : fns[i].entry # Absent
        /\ paired = {i \in DOMAIN fns : R[i] \in 1 .. pos - 1}
        /\ Spilled = {i \in paired : ~Overflows(fns[i])}
    BY <1>2 DEF RegionInv, ReadInv, MatchInv
  <1>4. pos \in 1 .. Len(Bodies) /\ pos \in Nat /\ pos # 0 BY <1>1, <1>2, <1>3
  <1>5. /\ R \in [1 .. Len(fns) -> Nat]
        /\ \A i \in 1 .. Len(fns) : R[i] # 0 => RefPairs[i] = R[i]
        /\ \A i, j \in 1 .. Len(fns) : RefPairs[i] # 0 /\ RefPairs[i] = RefPairs[j] => i = j
    BY <1>1, PairsFacts
  <1>6. /\ \A i \in 1 .. Len(fns) : R[i] # 0 => BodyEntry(Bodies[R[i]]) = fns[i].entry
        /\ \A i \in 1 .. Len(fns), k \in DOMAIN Bodies :
             BodyEntry(Bodies[k]) = fns[i].entry =>
               (\E j \in 1 .. (i - 1) : R[j] = k) \/ (R[i] # 0 /\ R[i] <= k)
    <2>1. Greedy(R) BY <1>1, PairsFacts
    <2>2. Len(R) = Len(fns)
      <3> HIDE DEF R
      <3> QED BY <1>1, <1>5
    <2> HIDE DEF R
    <2> QED BY <2>1, <2>2 DEF Greedy
  <1>7. R' = R BY <1>2, SameReference
  <1> HIDE DEF R
  <1>8. \A i \in DOMAIN fns : R[i] \in Nat /\ (i \in paired <=> R[i] # 0 /\ R[i] < pos)
    BY <1>1, <1>3, <1>4, <1>5
  <1>9. ASSUME NEW j \in free
        PROVE  \/ R[j] = pos
               \/ \E i \in 1 .. (j - 1) : R[i] = pos
    <2>1. j \in 1 .. Len(fns) /\ BodyEntry(Bodies[pos]) = fns[j].entry /\ j \notin paired BY <1>1
    <2>2. (\E i \in 1 .. (j - 1) : R[i] = pos) \/ (R[j] # 0 /\ R[j] <= pos)
      BY <1>1, <1>4, <1>6, <2>1
    <2>3. ~(R[j] # 0 /\ R[j] < pos) /\ R[j] \in Nat BY <1>1, <1>8, <2>1
    <2> QED BY <1>4, <2>2, <2>3
  <1>10. paired' \subseteq DOMAIN fns =>
           ((\A i \in DOMAIN fns : i \in paired' <=> i \in paired \/ R[i] = pos)
             <=> paired' = {i \in DOMAIN fns : R[i] \in 1 .. pos' - 1})
    <2>1. \A i \in DOMAIN fns : R[i] \in 1 .. pos' - 1 <=> i \in paired \/ R[i] = pos
      BY <1>2, <1>4, <1>8
    <2> QED BY <2>1
  <1>11. CASE entry = Absent \/ free = {}
    <2>1. UNCHANGED <<paired, used, spill, charged, outcome, phase>> BY <1>2, <1>11 DEF Pass
    <2>2. \A i \in DOMAIN fns : R[i] # pos
      <3>1. ASSUME NEW i \in DOMAIN fns, R[i] = pos PROVE FALSE
        <4>1. entry = fns[i].entry BY <1>1, <1>4, <1>6, <3>1
        <4>2. i \notin paired BY <1>4, <1>8, <3>1
        <4> QED BY <1>3, <1>11, <4>1, <4>2
      <3> QED BY <3>1
    <2>3. paired' \subseteq DOMAIN fns BY <2>1 DEF PairedInv, RegionInv
    <2>4. paired' = {i \in DOMAIN fns : R[i] \in 1 .. pos' - 1}
      BY <1>10, <2>1, <2>2, <2>3
    <2>5. PairedInv' BY <1>1, <1>2, <2>1, SamePaired
    <2>6. SlotsInv' /\ Spilled' = Spilled BY <1>2, <1>3, <2>1, SameSpill
    <2>7. ReadInv' /\ MatchInv'
      <3>1. ReadInv' BY <1>2, <1>3, <1>4, <2>6 DEF ReadInv
      <3>2. MatchInv' BY <1>2, <1>3, <1>7, <2>1, <2>4, <2>6 DEF MatchInv, R
      <3> QED BY <3>1, <3>2
    <2>8. RegionTypes' BY <1>1, <1>2, <2>1 DEF RegionTypes
    <2>9. ScanInv' /\ FallbackInv' /\ RestInv' /\ DoneInv'
      BY <1>2, <2>1 DEF ScanInv, FallbackInv, RestInv, DoneInv
    <2> QED BY <2>5, <2>7, <2>8, <2>9 DEF RegionInv
  <1>12. CASE ~(entry = Absent \/ free = {})
    <2> DEFINE i == Min(free)
    <2>1. i \in free /\ \A j \in free : i <= j
      <3>1. free \subseteq Nat /\ free # {} BY <1>1, <1>12
      <3> HIDE DEF free
      <3> QED BY <3>1, LeastOfSet
    <2>2. Pair(i) BY <1>2, <1>12
    <2> HIDE DEF i
    <2>3. i \in DOMAIN fns \ paired /\ fns[i].entry = entry /\ i \in Nat BY <1>1, <2>1
    <2>4. R[i] = pos
      <3>1. CASE \E j \in 1 .. (i - 1) : R[j] = pos
        <4>1. PICK j \in 1 .. (i - 1) : R[j] = pos BY <3>1
        <4>2. j \in DOMAIN fns /\ j < i /\ j \in Nat BY <1>1, <2>3
        <4>3. fns[j].entry = entry BY <1>1, <1>4, <1>6, <4>1, <4>2
        <4>4. j \notin paired BY <1>4, <1>8, <4>1, <4>2
        <4>5. j \in free BY <4>2, <4>3, <4>4
        <4>6. i <= j BY <2>1, <4>5
        <4> QED BY <2>3, <4>2, <4>6
      <3>2. CASE R[i] = pos BY <3>2
      <3> QED BY <1>9, <2>1, <3>1, <3>2
    <2>5. RefPairs[i] = pos BY <1>1, <1>4, <1>5, <2>3, <2>4
    <2>6. \A j \in DOMAIN fns : R[j] = pos => j = i
      BY <1>1, <1>4, <1>5, <2>3, <2>4, <2>5
    <2>7. /\ PairedInv' /\ paired' = paired \cup {i}
          /\ \/ /\ UNCHANGED <<phase, outcome>> /\ SlotsInv' /\ charged' \in Budget
                /\ Spilled' = {j \in paired' : ~Overflows(fns[j])}
             \/ /\ phase' = "done" /\ outcome' = "failed" /\ spill' = <<>>
                /\ charged' = charged /\ ~RefOk
      BY <1>1, <1>2, <1>3, <1>4, <2>2, <2>3, <2>5, PairStep
    <2>8. paired' = {j \in DOMAIN fns : R[j] \in 1 .. pos' - 1}
      <3>1. paired' \subseteq DOMAIN fns BY <1>1, <2>3, <2>7 DEF PairedInv
      <3>2. \A j \in DOMAIN fns : j \in paired' <=> j \in paired \/ R[j] = pos
        BY <2>4, <2>6, <2>7
      <3> QED BY <1>10, <3>1, <3>2
    <2>9. CASE /\ phase' = "done" /\ outcome' = "failed" /\ spill' = <<>>
               /\ charged' = charged /\ ~RefOk
      BY <1>1, <1>2, <2>7, <2>9, FailStep
    <2>10. CASE /\ UNCHANGED <<phase, outcome>> /\ SlotsInv' /\ charged' \in Budget
                /\ Spilled' = {j \in paired' : ~Overflows(fns[j])}
      <3>1. ReadInv' BY <1>2, <1>3, <1>4, <2>10 DEF ReadInv
      <3>2. MatchInv' BY <1>2, <1>7, <2>8, <2>10 DEF MatchInv, R
      <3>3. RegionTypes' BY <1>1, <1>2, <2>10 DEF RegionTypes, Budget
      <3>4. ScanInv' /\ FallbackInv' /\ RestInv' /\ DoneInv'
        BY <1>2, <2>10 DEF ScanInv, FallbackInv, RestInv, DoneInv
      <3> QED BY <2>7, <3>1, <3>2, <3>3, <3>4 DEF RegionInv
    <2> QED BY <2>7, <2>9, <2>10
  <1> HIDE DEF free, entry, b
  <1> QED BY <1>11, <1>12

\* The first reading has found all that is found by address.
LEMMA RereadStep == ASSUME RegionInv, Reread PROVE RegionInv'
  <1>1. /\ fns \in Seq(AFunction) /\ DOMAIN fns = 1 .. Len(fns) /\ Len(fns) \in Nat
        /\ Bodies \in Seq(ABody) /\ DOMAIN Bodies = 1 .. Len(Bodies) /\ Len(Bodies) \in Nat
        /\ charged \in Budget /\ PairedInv /\ RegionTypes
    BY Reading
  <1>2. /\ phase = "match" /\ pos > Len(Bodies) /\ phase' = "fallback" /\ pos' = 1
        /\ UNCHANGED <<capture, fns, paired, used, spill, charged, outcome>>
    BY DEF Reread
  <1>3. /\ fns # <<>> /\ pos \in Nat \ {0} /\ SlotsInv
        /\ \A i \in DOMAIN fns : fns[i].entry # Absent
        /\ paired = {i \in DOMAIN fns : ByEntry[i] \in 1 .. pos - 1}
        /\ Spilled = {i \in paired : ~Overflows(fns[i])}
    BY <1>2 DEF RegionInv, ReadInv, MatchInv
  <1>4. /\ ByEntry \in [1 .. Len(fns) -> Nat]
        /\ RefPairs \in [1 .. Len(fns) -> 0 .. Len(Bodies)]
        /\ \A i \in 1 .. Len(fns) : ByEntry[i] # 0 => RefPairs[i] = ByEntry[i]
    BY <1>1, PairsFacts
  <1>5. \A i \in DOMAIN fns : ByEntry[i] \in 1 .. pos - 1 <=> ByEntry[i] # 0 \/ (RefPairs[i] # 0 /\ i < 1)
    BY <1>1, <1>2, <1>3, <1>4
  <1>6. ByEntry' = ByEntry /\ RefPairs' = RefPairs BY <1>2, SameReference
  <1>7. SlotsInv' /\ Spilled' = Spilled BY <1>2, <1>3, SameSpill
  <1>8. PairedInv' BY <1>1, <1>2, SamePaired
  <1>9. ReadInv' BY <1>2, <1>3, <1>7 DEF ReadInv
  <1>10. FallbackInv' BY <1>2, <1>3, <1>5, <1>6, <1>7 DEF FallbackInv
  <1>11. RegionTypes' BY <1>1, <1>2 DEF RegionTypes
  <1>12. ScanInv' /\ MatchInv' /\ RestInv' /\ DoneInv'
    BY <1>2 DEF ScanInv, MatchInv, RestInv, DoneInv
  <1> QED BY <1>8, <1>9, <1>10, <1>11, <1>12 DEF RegionInv

\* B2: a function takes the body of its position exactly when the reference
\* gives it that.
LEMMA FallbackStep == ASSUME RegionInv, Fallback PROVE RegionInv'
  <1> DEFINE R == ByEntry
             P2 == RefPairs
             take == pos \notin used /\ pos \in DOMAIN fns \ paired /\ MayTake(pos, Bodies[pos])
  <1>1. /\ fns \in Seq(AFunction) /\ DOMAIN fns = 1 .. Len(fns) /\ Len(fns) \in Nat
        /\ Bodies \in Seq(ABody) /\ DOMAIN Bodies = 1 .. Len(Bodies) /\ Len(Bodies) \in Nat
        /\ charged \in Budget /\ PairedInv /\ RegionTypes
    BY Reading
  <1>2. /\ phase = "fallback" /\ pos <= Len(Bodies) /\ pos' = pos + 1
        /\ capture' = capture /\ fns' = fns
        /\ IF take THEN Pair(pos) ELSE Pass
    BY DEF Fallback
  <1>3. /\ fns # <<>> /\ pos \in Nat \ {0} /\ SlotsInv
        /\ \A i \in DOMAIN fns : fns[i].entry # Absent
        /\ paired = {i \in DOMAIN fns : R[i] # 0 \/ (P2[i] # 0 /\ i < pos)}
        /\ Spilled = {i \in paired : ~Overflows(fns[i])}
    BY <1>2 DEF RegionInv, ReadInv, FallbackInv
  <1>4. pos \in 1 .. Len(Bodies) /\ pos \in Nat /\ pos # 0 BY <1>1, <1>2, <1>3
  <1>5. /\ R \in [1 .. Len(fns) -> Nat]
        /\ P2 \in [1 .. Len(fns) -> 0 .. Len(Bodies)]
        /\ \A i \in 1 .. Len(fns) : R[i] # 0 => P2[i] = R[i]
        /\ \A i \in 1 .. Len(fns) : R[i] = 0 => P2[i] \in {0, i}
        /\ \A i \in 1 .. Len(fns) : R[i] = 0 =>
             (P2[i] # 0 <=> /\ i \in DOMAIN Bodies
                            /\ \A j \in 1 .. Len(fns) : R[j] # i
                            /\ MayTake(i, Bodies[i]))
        /\ \A i, j \in 1 .. Len(fns) : P2[i] # 0 /\ P2[i] = P2[j] => i = j
    BY <1>1, PairsFacts
  <1>6. R' = R /\ P2' = P2 BY <1>2, SameReference
  <1>7. used = {P2[i] : i \in paired} /\ \A i \in paired : P2[i] # 0 BY <1>1 DEF PairedInv
  <1> HIDE DEF R, P2
  <1>8. take <=> pos \in DOMAIN fns /\ R[pos] = 0 /\ P2[pos] # 0
    <2>1. ASSUME take PROVE pos \in DOMAIN fns /\ R[pos] = 0 /\ P2[pos] # 0
      <3>1. pos \in DOMAIN fns /\ R[pos] = 0 BY <1>3, <2>1
      <3>2. \A j \in 1 .. Len(fns) : R[j] # pos
        <4>1. ASSUME NEW j \in 1 .. Len(fns), R[j] = pos PROVE FALSE
          <5>1. j \in paired /\ P2[j] = pos BY <1>1, <1>3, <1>4, <1>5, <4>1
          <5> QED BY <1>7, <2>1, <5>1
        <4> QED BY <4>1
      <3> QED BY <1>1, <1>4, <1>5, <2>1, <3>1, <3>2
    <2>2. ASSUME pos \in DOMAIN fns, R[pos] = 0, P2[pos] # 0 PROVE take
      <3>1. pos \notin paired BY <1>3, <1>4, <2>2
      <3>2. P2[pos] = pos /\ MayTake(pos, Bodies[pos]) BY <1>1, <1>5, <2>2
      <3>3. pos \notin used
        <4>1. ASSUME NEW i \in paired, P2[i] = pos PROVE FALSE
          <5>1. i \in 1 .. Len(fns) BY <1>1, <1>3
          <5>2. i = pos BY <1>1, <1>4, <1>5, <2>2, <3>2, <4>1, <5>1
          <5> QED BY <3>1, <4>1, <5>2
        <4> QED BY <1>7, <4>1
      <3> QED BY <2>2, <3>1, <3>2, <3>3
    <2> QED BY <2>1, <2>2
  <1>9. {i \in DOMAIN fns : R[i] # 0 \/ (P2[i] # 0 /\ i < pos')}
          = paired \cup {i \in DOMAIN fns : i = pos /\ R[i] = 0 /\ P2[i] # 0}
    <2>1. \A i \in DOMAIN fns : i < pos' <=> i < pos \/ i = pos BY <1>1, <1>2, <1>4
    <2> QED BY <1>3, <2>1
  <1>10. CASE ~take
    <2>1. UNCHANGED <<paired, used, spill, charged, outcome, phase>>
      <3> HIDE DEF take
      <3> QED BY <1>2, <1>10 DEF Pass
    <2>2. paired' = {i \in DOMAIN fns : R[i] # 0 \/ (P2[i] # 0 /\ i < pos')}
      BY <1>8, <1>9, <1>10, <2>1
    <2>3. PairedInv' BY <1>1, <1>2, <2>1, SamePaired
    <2>4. SlotsInv' /\ Spilled' = Spilled BY <1>2, <1>3, <2>1, SameSpill
    <2>5. ReadInv' BY <1>2, <1>3, <1>4, <2>4 DEF ReadInv
    <2>6. FallbackInv' BY <1>2, <1>3, <1>6, <2>1, <2>2, <2>4 DEF FallbackInv, R, P2
    <2>7. RegionTypes' BY <1>1, <1>2, <2>1 DEF RegionTypes
    <2>8. ScanInv' /\ MatchInv' /\ RestInv' /\ DoneInv'
      BY <1>2, <2>1 DEF ScanInv, MatchInv, RestInv, DoneInv
    <2> QED BY <2>3, <2>5, <2>6, <2>7, <2>8 DEF RegionInv
  <1>11. CASE take
    <2>1. Pair(pos)
      <3> HIDE DEF take
      <3> QED BY <1>2, <1>11
    <2>2. pos \in DOMAIN fns \ paired /\ P2[pos] = pos BY <1>1, <1>5, <1>8, <1>11
    <2>3. /\ PairedInv' /\ paired' = paired \cup {pos}
          /\ \/ /\ UNCHANGED <<phase, outcome>> /\ SlotsInv' /\ charged' \in Budget
                /\ Spilled' = {j \in paired' : ~Overflows(fns[j])}
             \/ /\ phase' = "done" /\ outcome' = "failed" /\ spill' = <<>>
                /\ charged' = charged /\ ~RefOk
      <3> DEFINE i == pos
      <3>1. i \in DOMAIN fns \ paired /\ RefPairs[i] = pos /\ Pair(i) BY <2>1, <2>2 DEF P2
      <3> HIDE DEF i
      <3>2. /\ PairedInv' /\ paired' = paired \cup {i}
            /\ \/ /\ UNCHANGED <<phase, outcome>> /\ SlotsInv' /\ charged' \in Budget
                  /\ Spilled' = {j \in paired' : ~Overflows(fns[j])}
               \/ /\ phase' = "done" /\ outcome' = "failed" /\ spill' = <<>>
                  /\ charged' = charged /\ ~RefOk
        BY <1>1, <1>2, <1>3, <1>4, <3>1, PairStep
      <3> QED BY <3>2 DEF i
    <2>4. paired' = {i \in DOMAIN fns : R[i] # 0 \/ (P2[i] # 0 /\ i < pos')}
      BY <1>8, <1>9, <1>11, <2>3
    <2>5. CASE /\ phase' = "done" /\ outcome' = "failed" /\ spill' = <<>>
               /\ charged' = charged /\ ~RefOk
      BY <1>1, <1>2, <2>3, <2>5, FailStep
    <2>6. CASE /\ UNCHANGED <<phase, outcome>> /\ SlotsInv' /\ charged' \in Budget
               /\ Spilled' = {j \in paired' : ~Overflows(fns[j])}
      <3>1. ReadInv' BY <1>2, <1>3, <1>4, <2>6 DEF ReadInv
      <3>2. FallbackInv' BY <1>2, <1>6, <2>4, <2>6 DEF FallbackInv, R, P2
      <3>3. RegionTypes' BY <1>1, <1>2, <2>6 DEF RegionTypes, Budget
      <3>4. ScanInv' /\ MatchInv' /\ RestInv' /\ DoneInv'
        BY <1>2, <2>6 DEF ScanInv, MatchInv, RestInv, DoneInv
      <3> QED BY <2>3, <3>1, <3>2, <3>3, <3>4 DEF RegionInv
    <2> QED BY <2>3, <2>5, <2>6
  <1> HIDE DEF take
  <1> QED BY <1>10, <1>11

\* The verdict is the reference's as far as pairs and addresses go.
LEMMA VerdictStep == ASSUME RegionInv, Verdict PROVE RegionInv'
  <1> DEFINE R == ByEntry
             P2 == RefPairs
             bad == used # DOMAIN Bodies \/ paired = {} \/ \E i \in DOMAIN fns : Overflows(fns[i])
  <1>1. /\ fns \in Seq(AFunction) /\ DOMAIN fns = 1 .. Len(fns) /\ Len(fns) \in Nat
        /\ Bodies \in Seq(ABody) /\ DOMAIN Bodies = 1 .. Len(Bodies) /\ Len(Bodies) \in Nat
        /\ charged \in Budget /\ PairedInv /\ RegionTypes
    BY Reading
  <1>2. /\ phase = "fallback" /\ pos > Len(Bodies)
        /\ UNCHANGED <<capture, fns, paired, used, charged>>
        /\ IF bad THEN Fail /\ UNCHANGED pos
           ELSE phase' = "rest" /\ pos' = 1 /\ UNCHANGED <<spill, outcome>>
    BY DEF Verdict
  <1>3. /\ fns # <<>> /\ pos \in Nat \ {0} /\ SlotsInv
        /\ \A i \in DOMAIN fns : fns[i].entry # Absent
        /\ paired = {i \in DOMAIN fns : R[i] # 0 \/ (P2[i] # 0 /\ i < pos)}
        /\ Spilled = {i \in paired : ~Overflows(fns[i])}
    BY <1>2 DEF RegionInv, ReadInv, FallbackInv
  <1>4. /\ R \in [1 .. Len(fns) -> Nat]
        /\ P2 \in [1 .. Len(fns) -> 0 .. Len(Bodies)]
        /\ \A i \in 1 .. Len(fns) : R[i] # 0 => P2[i] = R[i]
        /\ \A i \in 1 .. Len(fns) : R[i] = 0 => P2[i] \in {0, i}
    BY <1>1, PairsFacts
  <1>5. P2' = P2 BY <1>2, SameReference
  <1>6. used = {P2[i] : i \in paired} /\ PairedInv BY <1>1 DEF PairedInv
  <1>7. RefOk => /\ Bodies # <<>>
                 /\ {P2[i] : i \in DOMAIN fns} \ {0} = DOMAIN Bodies
                 /\ \A i \in DOMAIN fns : Clean(i)
    BY <1>1, RefOkParts
  <1> HIDE DEF R, P2
  <1>8. paired = {i \in DOMAIN fns : P2[i] # 0}
    <2>1. \A i \in DOMAIN fns : P2[i] # 0 => R[i] # 0 \/ i < pos
      BY <1>1, <1>2, <1>3, <1>4
    <2> QED BY <1>1, <1>3, <1>4, <2>1
  <1>9. used = {P2[i] : i \in DOMAIN fns} \ {0} BY <1>6, <1>8
  <1>10. PairedInv' BY <1>1, <1>2, SamePaired
  <1>11. CASE bad
    <2>1. phase' = "done" /\ outcome' = "failed" /\ spill' = <<>>
      <3> HIDE DEF bad
      <3> QED BY <1>2, <1>11 DEF Fail
    <2>2. ASSUME RefOk PROVE FALSE
      <3>1. used = DOMAIN Bodies BY <1>7, <1>9, <2>2
      <3>2. Bodies # <<>> BY <1>7, <2>2
      <3>3. paired # {}
        <4>1. Len(Bodies) # 0 BY <1>1, <3>2
        <4>2. 1 \in used BY <1>1, <3>1, <4>1
        <4> QED BY <1>6, <4>2
      <3>4. \A i \in DOMAIN fns : ~Overflows(fns[i])
        <4>1. ASSUME NEW i \in DOMAIN fns PROVE ~Overflows(fns[i])
          <5>1. Sound(fns[i]) BY <1>7, <2>2 DEF Clean
          <5>2. fns[i].entry \in Load .. ImageEnd - 1 BY <5>1 DEF Sound
          <5>3. fns[i] \in AFunction BY <1>1
          <5>4. Load \in Int /\ ImageEnd \in Int /\ AddressEnd \in Int /\ ImageEnd < AddressEnd
            BY RegionAssumption
          <5>5. fns[i].entry < AddressEnd BY <5>2, <5>4
          <5>6. fns[i].entry \in Int BY <5>2
          <5> QED BY <5>4, <5>5, <5>6 DEF Overflows
        <4> QED BY <4>1
      <3> QED BY <1>11, <3>1, <3>3, <3>4
    <2> QED BY <1>1, <1>2, <1>10, <2>1, <2>2, FailStep
  <1>12. CASE ~bad
    <2>1. phase' = "rest" /\ pos' = 1 /\ UNCHANGED <<spill, outcome>>
      <3> HIDE DEF bad
      <3> QED BY <1>2, <1>12
    <2>2. SlotsInv' /\ Spilled' = Spilled BY <1>2, <1>3, <2>1, SameSpill
    <2>3. Spilled = paired BY <1>3, <1>6, <1>12 DEF PairedInv
    <2>4. ReadInv' BY <1>2, <1>3, <2>1, <2>2 DEF ReadInv
    <2>5. RestInv'
      <3>1. {i \in DOMAIN fns : i < 1} = {} BY <1>1
      <3>2. Bodies' = Bodies BY <1>2, SameCapture
      <3>3. pos' <= Len(fns') + 1 BY <1>1, <1>2, <2>1
      <3>4. used' = DOMAIN Bodies' /\ paired' # {} BY <1>2, <1>12, <3>2
      <3>5. Spilled' = paired' \cup {i \in DOMAIN fns' : i < pos'}
        BY <1>2, <2>1, <2>2, <2>3, <3>1
      <3>6. paired' = {i \in DOMAIN fns' : RefPairs'[i] # 0} BY <1>2, <1>5, <1>8 DEF P2
      <3> QED BY <3>3, <3>4, <3>5, <3>6 DEF RestInv
    <2>6. RegionTypes' BY <1>1, <1>2, <2>1 DEF RegionTypes
    <2>7. ScanInv' /\ MatchInv' /\ FallbackInv' /\ DoneInv'
      BY <2>1 DEF ScanInv, MatchInv, FallbackInv, DoneInv
    <2> QED BY <1>10, <2>4, <2>5, <2>6, <2>7 DEF RegionInv
  <1> HIDE DEF bad
  <1> QED BY <1>11, <1>12

\* C: functions without a body.
LEMMA RestStep == ASSUME RegionInv, Rest PROVE RegionInv'
  <1>1. /\ fns \in Seq(AFunction) /\ DOMAIN fns = 1 .. Len(fns) /\ Len(fns) \in Nat
        /\ Bodies \in Seq(ABody) /\ DOMAIN Bodies = 1 .. Len(Bodies) /\ Len(Bodies) \in Nat
        /\ charged \in Budget /\ PairedInv /\ RegionTypes
    BY Reading
  <1>2. /\ phase = "rest" /\ pos <= Len(fns) /\ pos' = pos + 1
        /\ UNCHANGED <<capture, fns, paired, used>>
        /\ IF pos \in paired THEN UNCHANGED <<spill, charged, outcome, phase>>
           ELSE NormalizeAndSpill(pos, NoBody)
    BY DEF Rest
  <1>3. /\ fns # <<>> /\ pos \in Nat \ {0} /\ SlotsInv
        /\ \A i \in DOMAIN fns : fns[i].entry # Absent
        /\ paired = {i \in DOMAIN fns : RefPairs[i] # 0}
        /\ paired # {} /\ used = DOMAIN Bodies
        /\ Spilled = paired \cup {i \in DOMAIN fns : i < pos}
    BY <1>2 DEF RegionInv, ReadInv, RestInv
  <1>4. pos \in 1 .. Len(fns) /\ pos \in Nat BY <1>1, <1>2, <1>3
  <1>5. RefPairs' = RefPairs /\ Bodies' = Bodies BY <1>2, SameReference
  <1>6. PairedInv' BY <1>1, <1>2, SamePaired
  <1>7. {i \in DOMAIN fns : i < pos'} = {i \in DOMAIN fns : i < pos} \cup {pos}
    BY <1>1, <1>2, <1>4
  <1>8. pos' <= Len(fns) + 1 /\ pos' \in Nat \ {0} BY <1>1, <1>2, <1>4
  <1>9. ASSUME UNCHANGED <<phase, outcome>>, SlotsInv', charged' \in Budget,
               Spilled' = Spilled \cup {pos}
        PROVE  RegionInv'
    <2>1. ReadInv' BY <1>2, <1>3, <1>8, <1>9 DEF ReadInv
    <2>2. RestInv'
      <3>1. Spilled' = paired' \cup {i \in DOMAIN fns' : i < pos'} BY <1>2, <1>3, <1>7, <1>9
      <3> QED BY <1>2, <1>3, <1>5, <1>8, <3>1 DEF RestInv
    <2>3. RegionTypes' BY <1>1, <1>2, <1>9 DEF RegionTypes, Budget
    <2>4. ScanInv' /\ MatchInv' /\ FallbackInv' /\ DoneInv'
      BY <1>2, <1>9 DEF ScanInv, MatchInv, FallbackInv, DoneInv
    <2> QED BY <1>6, <2>1, <2>2, <2>3, <2>4 DEF RegionInv
  <1>10. CASE pos \in paired
    <2>1. UNCHANGED <<spill, charged, outcome, phase>> BY <1>2, <1>10
    <2>2. SlotsInv' /\ Spilled' = Spilled BY <1>2, <1>3, <2>1, SameSpill
    <2>3. Spilled = Spilled \cup {pos} BY <1>3, <1>10
    <2> QED BY <1>1, <1>9, <2>1, <2>2, <2>3
  <1>11. CASE pos \notin paired
    <2> DEFINE i == pos
    <2>1. NormalizeAndSpill(i, NoBody) BY <1>2, <1>11
    <2>2. NoBody = RefBody(i) BY <1>1, <1>3, <1>4, <1>11 DEF RefBody
    <2>3. i \in 1 .. Len(fns) /\ i \notin Spilled BY <1>1, <1>3, <1>4, <1>11
    <2> HIDE DEF i
    <2>4. \/ /\ UNCHANGED <<phase, outcome>>
             /\ SlotsInv' /\ charged' \in Budget /\ Spilled' = Spilled \cup {i}
          \/ /\ phase' = "done" /\ outcome' = "failed" /\ spill' = <<>>
             /\ charged' = charged /\ ~RefOk
      <3> DEFINE body == NoBody
      <3>1. NormalizeAndSpill(i, body) /\ body = RefBody(i) BY <2>1, <2>2
      <3> HIDE DEF body
      <3> QED BY <1>1, <1>2, <1>3, <2>3, <3>1, SlotStep
    <2>5. CASE /\ UNCHANGED <<phase, outcome>>
               /\ SlotsInv' /\ charged' \in Budget /\ Spilled' = Spilled \cup {i}
      BY <1>9, <2>5 DEF i
    <2>6. CASE /\ phase' = "done" /\ outcome' = "failed" /\ spill' = <<>>
               /\ charged' = charged /\ ~RefOk
      BY <1>1, <1>2, <1>6, <2>6, FailStep
    <2> QED BY <2>4, <2>5, <2>6
  <1> QED BY <1>10, <1>11

\* What increases and misses no number counts.
Enumerates(g, L, M2) ==
    /\ g \in [1 .. L -> 1 .. M2]
    /\ \A j, k \in 1 .. L : j < k => g[j] < g[k]
    /\ \A v \in 1 .. M2 : \E k \in 1 .. L : g[k] = v

LEMMA Counting ==
    ASSUME NEW L \in Nat, NEW M2 \in Nat, NEW g, Enumerates(g, L, M2)
    PROVE  L = M2 /\ \A k \in 1 .. L : g[k] = k
  <1>0. /\ g \in [1 .. L -> 1 .. M2]
        /\ \A j, k \in 1 .. L : j < k => g[j] < g[k]
        /\ \A v \in 1 .. M2 : \E k \in 1 .. L : g[k] = v
    BY DEF Enumerates
  <1> DEFINE T == {n \in Nat : n \in 1 .. L => g[n] = n}
  <1>1. ASSUME NEW n \in 1 .. L, \A m2 \in 1 .. (n - 1) : m2 \in T PROVE n \in T
    <2>1. n \in Nat /\ g[n] \in 1 .. M2 /\ g[n] \in Nat /\ g[n] >= 1 BY <1>0
    <2>2. \A m2 \in 1 .. (n - 1) : m2 \in 1 .. L /\ m2 < n OBVIOUS
    <2>3. \A m2 \in 1 .. (n - 1) : g[m2] = m2 BY <1>1, <2>2
    <2>4. g[n] >= n
      <3>1. CASE g[n] \in 1 .. (n - 1)
        <4>1. g[g[n]] = g[n] /\ g[n] \in 1 .. L /\ g[n] < n BY <2>2, <2>3, <3>1
        <4>2. g[g[n]] < g[n] BY <1>0, <4>1
        <4> QED BY <2>1, <4>1, <4>2
      <3>2. CASE g[n] \notin 1 .. (n - 1) BY <2>1, <3>2
      <3> QED BY <3>1, <3>2
    <2>5. n \in 1 .. M2 BY <2>1, <2>4
    <2>6. PICK k \in 1 .. L : g[k] = n BY <1>0, <2>5
    <2>7. ~(k < n)
      <3>1. ASSUME k < n PROVE FALSE
        <4>1. k \in 1 .. (n - 1) BY <2>1, <3>1
        <4> QED BY <2>1, <2>3, <2>6, <3>1, <4>1
      <3> QED BY <3>1
    <2>8. ~(n < k)
      <3>1. ASSUME n < k PROVE FALSE
        <4>1. g[n] < g[k] BY <1>0, <3>1
        <4> QED BY <2>1, <2>4, <2>6, <4>1
      <3> QED BY <3>1
    <2>9. k = n BY <2>1, <2>7, <2>8
    <2> QED BY <2>1, <2>6, <2>9
  <1>2. 1 .. L \subseteq T
    <2> HIDE DEF T
    <2> QED BY <1>1, EveryPositionStrong
  <1>3. \A k \in 1 .. L : g[k] = k BY <1>2
  <1>4. L <= M2
    <2>1. CASE L = 0 BY <2>1
    <2>2. CASE L # 0
      <3>1. L \in 1 .. L BY <2>2
      <3>2. g[L] = L /\ g[L] \in 1 .. M2 BY <1>0, <1>3, <3>1
      <3> QED BY <3>2
    <2> QED BY <2>1, <2>2
  <1>5. M2 <= L
    <2>1. CASE M2 = 0 BY <2>1
    <2>2. CASE M2 # 0
      <3>1. M2 \in 1 .. M2 BY <2>2
      <3>2. PICK k \in 1 .. L : g[k] = M2 BY <1>0, <3>1
      <3> QED BY <1>3, <3>2
    <2> QED BY <2>1, <2>2
  <1> QED BY <1>3, <1>4, <1>5

\* Each function has its slot; sorted, they are the inventory.
LEMMA FinishStep == ASSUME RegionInv, Finish PROVE RegionInv'
  <1> DEFINE N2 == Len(fns)
             L == Len(spill)
             keys == [k \in DOMAIN spill |-> <<spill[k].fn, 0>>]
             E == {Slot(i) : i \in DOMAIN fns}
  <1>1. /\ fns \in Seq(AFunction) /\ DOMAIN fns = 1 .. N2 /\ N2 \in Nat
        /\ Bodies \in Seq(ABody) /\ DOMAIN Bodies = 1 .. Len(Bodies) /\ Len(Bodies) \in Nat
        /\ charged \in Budget /\ PairedInv /\ RegionTypes
    BY Reading
  <1>2. /\ phase = "rest" /\ pos > N2 /\ phase' = "done" /\ outcome' = "ok"
        /\ spill' = SortedBy(keys, spill)
        /\ UNCHANGED <<capture, fns, pos, paired, used, charged>>
    BY DEF Finish
  <1>3. /\ fns # <<>> /\ pos \in Nat \ {0} /\ SlotsInv
        /\ paired = {i \in DOMAIN fns : RefPairs[i] # 0}
        /\ paired # {} /\ used = DOMAIN Bodies
        /\ Spilled = paired \cup {i \in DOMAIN fns : i < pos}
        /\ pos <= N2 + 1
    BY <1>2 DEF RegionInv, ReadInv, RestInv
  <1>4. Spilled = DOMAIN fns
    <2>1. \A i \in DOMAIN fns : i < pos BY <1>1, <1>2, <1>3
    <2> QED BY <1>3, <2>1
  <1>5. /\ spill \in Seq(E) /\ L \in Nat /\ DOMAIN spill = 1 .. L
        /\ \A k \in 1 .. L : spill[k] \in E
    <2>1. spill \in Seq(E) BY <1>3 DEF SlotsInv
    <2> HIDE DEF E
    <2> QED BY <2>1
  <1>6. \A k \in 1 .. L : spill[k].fn \in 1 .. N2 /\ spill[k] = Slot(spill[k].fn)
    <2>1. ASSUME NEW k \in 1 .. L PROVE spill[k].fn \in 1 .. N2 /\ spill[k] = Slot(spill[k].fn)
      <3>1. PICK i \in DOMAIN fns : spill[k] = Slot(i) BY <1>5
      <3>2. Slot(i).fn = i BY DEF Slot
      <3> QED BY <1>1, <3>1, <3>2
    <2> QED BY <2>1
  <1>7. \A j, k \in 1 .. L : spill[j].fn = spill[k].fn => j = k
    BY <1>3, <1>5 DEF SlotsInv
  <1>8. \A v \in 1 .. N2 : \E k \in 1 .. L : spill[k].fn = v
    <2> HIDE DEF L, N2
    <2> QED BY <1>1, <1>4, <1>5 DEF Spilled
  <1>9. keys \in [1 .. L -> Nat \X Nat] /\ \A k \in 1 .. L : keys[k][1] = spill[k].fn /\ keys[k] = <<spill[k].fn, 0>>
    <2>1. \A k \in 1 .. L : spill[k].fn \in Nat BY <1>1, <1>6
    <2> HIDE DEF L
    <2> QED BY <1>5, <2>1
  <1> HIDE DEF keys, L, N2, E
  <1>10. PICK p \in [1 .. L -> 1 .. L] :
           /\ \A m2, n \in 1 .. L : m2 < n => Before(keys, p[m2], p[n])
           /\ \A k \in 1 .. L : \E n \in 1 .. L : p[n] = k
           /\ \A s : DOMAIN s = 1 .. L => SortedBy(keys, s) = [n \in 1 .. L |-> s[p[n]]]
    BY <1>5, <1>9, SortedByFacts
  <1>11. spill' = [n \in 1 .. L |-> spill[p[n]]] BY <1>2, <1>5, <1>10
  <1> DEFINE g == [n \in 1 .. L |-> spill[p[n]].fn]
  <1>12. g \in [1 .. L -> 1 .. N2] BY <1>6
  <1>13. ASSUME NEW j \in 1 .. L, NEW k \in 1 .. L, j < k PROVE g[j] < g[k]
    <2>1. Before(keys, p[j], p[k]) /\ p[j] \in 1 .. L /\ p[k] \in 1 .. L BY <1>10, <1>13
    <2> DEFINE a == p[j]
               b == p[k]
    <2>2. Before(keys, a, b) /\ a \in 1 .. L /\ b \in 1 .. L BY <2>1
    <2>3. g[j] = spill[a].fn /\ g[k] = spill[b].fn OBVIOUS
    <2> HIDE DEF a, b, g
    <2>4. \/ keys[a][1] < keys[b][1]
          \/ keys[a][1] = keys[b][1] /\ keys[a][2] < keys[b][2]
          \/ keys[a] = keys[b] /\ a < b
      BY <2>2 DEF Before
    <2>5. keys[a][2] = 0 /\ keys[b][2] = 0 BY <1>9, <2>2
    <2>6. ~(keys[a][2] < keys[b][2]) BY <2>5
    <2>7. ~(keys[a] = keys[b] /\ a < b)
      <3>1. ASSUME keys[a] = keys[b], a < b PROVE FALSE
        <4>1. spill[a].fn = spill[b].fn BY <1>9, <2>2, <3>1
        <4>2. a = b BY <1>7, <2>2, <4>1
        <4>3. a \in Nat BY <1>5, <2>2
        <4> QED BY <3>1, <4>2, <4>3
      <3> QED BY <3>1
    <2>8. keys[a][1] < keys[b][1] BY <2>4, <2>6, <2>7
    <2> QED BY <1>9, <2>2, <2>3, <2>8
  <1>14. \A v \in 1 .. N2 : \E n \in 1 .. L : g[n] = v
    <2>1. ASSUME NEW v \in 1 .. N2 PROVE \E n \in 1 .. L : g[n] = v
      <3>1. PICK k \in 1 .. L : spill[k].fn = v BY <1>8
      <3>2. PICK n \in 1 .. L : p[n] = k BY <1>10
      <3> QED BY <3>1, <3>2
    <2> QED BY <2>1
  <1>15. L = N2 /\ \A n \in 1 .. L : g[n] = n
    <2>1. \A j, k \in 1 .. L : j < k => g[j] < g[k] BY <1>13
    <2>2. L \in Nat /\ N2 \in Nat BY <1>1, <1>5
    <2> HIDE DEF g
    <2>3. Enumerates(g, L, N2) BY <1>12, <1>14, <2>1 DEF Enumerates
    <2> QED BY <2>2, <2>3, Counting
  <1>16. spill' = [i \in 1 .. N2 |-> Slot(i)]
    <2>1. \A n \in 1 .. L : spill[p[n]] = Slot(n)
      <3>1. ASSUME NEW n \in 1 .. L PROVE spill[p[n]] = Slot(n)
        <4>1. p[n] \in 1 .. L /\ spill[p[n]].fn = n BY <1>15
        <4> QED BY <1>6, <4>1
      <3> QED BY <3>1
    <2> QED BY <1>11, <1>15, <2>1
  <1>17. RefOk
    <2>1. Bodies # <<>>
      <3>1. PICK i \in paired : TRUE BY <1>3
      <3>2. RefPairs[i] \in used BY <1>1, <3>1 DEF PairedInv
      <3>3. DOMAIN Bodies # {} BY <1>3, <3>2
      <3> QED BY <3>3
    <2>2. {RefPairs[i] : i \in DOMAIN fns} \ {0} = DOMAIN Bodies BY <1>1, <1>3 DEF PairedInv
    <2>3. \A i \in DOMAIN fns : Clean(i)
      <3>1. ASSUME NEW i \in DOMAIN fns PROVE Clean(i)
        <4>1. PICK k \in DOMAIN spill : spill[k].fn = i BY <1>4 DEF Spilled
        <4>2. Clean(spill[k].fn) BY <1>3 DEF SlotsInv
        <4> QED BY <4>1, <4>2
      <3> QED BY <3>1
    <2>4. Total(CountsOf(DOMAIN fns)) <= MaxRanges /\ Total(BytesOf(DOMAIN fns)) <= MaxBytes
      <3>1. charged.ranges = Total(CountsOf(Spilled)) /\ charged.bytes = Total(BytesOf(Spilled))
        BY <1>3 DEF SlotsInv
      <3>2. charged.ranges \in 0 .. MaxRanges /\ charged.bytes \in 0 .. MaxBytes
        BY <1>1 DEF Budget
      <3>3. MaxRanges \in Nat /\ MaxBytes \in Nat BY RegionAssumption
      <3>4. charged.ranges <= MaxRanges /\ charged.bytes <= MaxBytes BY <3>2, <3>3
      <3> QED BY <1>4, <3>1, <3>4
    <2> QED BY <1>1, <1>3, <2>1, <2>2, <2>3, <2>4, RefOkParts
  <1>18. PairedInv' BY <1>1, <1>2, SamePaired
  <1>19. RegionTypes' BY <1>1, <1>2 DEF RegionTypes
  <1>20. DoneInv'
    <2>1. \A i : Slot(i)' = Slot(i) BY <1>2, SameSlots
    <2>2. RefOk' BY <1>2, <1>17, SameReference
    <2>3. (spill = [i \in 1 .. Len(fns) |-> Slot(i)])' BY <1>2, <1>16, <2>1 DEF N2
    <2> QED BY <1>2, <2>2, <2>3 DEF DoneInv
  <1>21. ScanInv' /\ ReadInv' /\ MatchInv' /\ FallbackInv' /\ RestInv'
    BY <1>2 DEF ScanInv, ReadInv, MatchInv, FallbackInv, RestInv
  <1> QED BY <1>18, <1>19, <1>20, <1>21 DEF RegionInv

\* Nothing is read yet.
LEMMA RegionStarts == ASSUME RegionInit PROVE RegionInv
  <1>1. /\ capture \in Captures
        /\ fns = <<>> /\ phase = "inventory" /\ pos = 1
        /\ paired = {} /\ used = {} /\ spill = <<>>
        /\ charged = [ranges |-> 0, bytes |-> 0] /\ outcome = "none"
    BY DEF RegionInit
  <1>2. charged \in [ranges : 0 .. MaxRanges, bytes : 0 .. MaxBytes]
    <2>1. MaxRanges \in Nat /\ MaxBytes \in Nat BY RegionAssumption
    <2> QED BY <1>1, <2>1
  <1>3. RegionTypes
    <2>1. MaxFunctions \in Nat /\ Len(<<>>) = 0 BY RegionAssumption
    <2> QED BY <1>1, <1>2, <2>1 DEF RegionTypes
  <1>4. PairedInv BY <1>1 DEF PairedInv
  <1>5. ScanInv /\ ReadInv /\ MatchInv /\ FallbackInv /\ RestInv /\ DoneInv
    BY <1>1 DEF ScanInv, ReadInv, MatchInv, FallbackInv, RestInv, DoneInv
  <1> QED BY <1>3, <1>4, <1>5 DEF RegionInv

\* Nothing happens.
LEMMA RegionStutters == ASSUME RegionInv, UNCHANGED regionVars PROVE RegionInv'
  <1>1. /\ capture' = capture /\ fns' = fns /\ phase' = phase /\ pos' = pos /\ paired' = paired
        /\ used' = used /\ spill' = spill /\ charged' = charged /\ outcome' = outcome
    BY DEF regionVars
  <1>2. /\ RegionTypes /\ PairedInv /\ ScanInv /\ ReadInv
        /\ MatchInv /\ FallbackInv /\ RestInv /\ DoneInv
    BY DEF RegionInv
  <1>3. /\ Bodies' = Bodies /\ RefPairs' = RefPairs /\ ByEntry' = ByEntry
        /\ RefOk' <=> RefOk
    BY <1>1, SameReference
  <1>4. \A i : Slot(i)' = Slot(i) BY <1>1, SameSlots
  <1>5. Spilled' = Spilled BY <1>1 DEF Spilled
  <1>6. SlotsInv => SlotsInv' BY <1>1, SameSpill
  <1>7. RegionTypes' BY <1>1, <1>2 DEF RegionTypes
  <1>8. PairedInv' BY <1>1, <1>2, SamePaired
  <1>9. ScanInv' BY <1>1, <1>2 DEF ScanInv
  <1>10. ReadInv' BY <1>1, <1>2, <1>6 DEF ReadInv
  <1>11. MatchInv' BY <1>1, <1>2, <1>3, <1>5 DEF MatchInv
  <1>12. FallbackInv' BY <1>1, <1>2, <1>3, <1>5 DEF FallbackInv
  <1>13. RestInv' BY <1>1, <1>2, <1>3, <1>5 DEF RestInv
  <1>14. DoneInv' BY <1>1, <1>2, <1>3, <1>4 DEF DoneInv
  <1> QED BY <1>7, <1>8, <1>9, <1>10, <1>11, <1>12, <1>13, <1>14 DEF RegionInv

\* In every pass, what has been paired, written and charged so far is the
\* part of the reference that the pass has come to.
THEOREM RegionKeepsToReference == RegionSpec => []RegionInv
  <1>1. RegionInit => RegionInv BY RegionStarts
  <1>2. ASSUME RegionInv, [RegionNext]_regionVars PROVE RegionInv'
    <2>1. CASE ScanInventory BY <1>2, <2>1, ScanStep
    <2>2. CASE Match BY <1>2, <2>2, MatchStep
    <2>3. CASE Reread BY <1>2, <2>3, RereadStep
    <2>4. CASE Fallback BY <1>2, <2>4, FallbackStep
    <2>5. CASE Verdict BY <1>2, <2>5, VerdictStep
    <2>6. CASE Rest BY <1>2, <2>6, RestStep
    <2>7. CASE Finish BY <1>2, <2>7, FinishStep
    <2>8. CASE UNCHANGED regionVars BY <1>2, <2>8, RegionStutters
    <2> QED BY <1>2, <2>1, <2>2, <2>3, <2>4, <2>5, <2>6, <2>7, <2>8 DEF RegionNext
  <1> QED BY <1>1, <1>2, PTL DEF RegionSpec

\* The counts of paired functions and of used bodies are the same.
LEMMA RegionTypesFollow == ASSUME RegionInv PROVE RegionTypeOK
  <1>1. /\ fns \in Seq(AFunction) /\ DOMAIN fns = 1 .. Len(fns) /\ Len(fns) \in Nat
        /\ Bodies \in Seq(ABody) /\ DOMAIN Bodies = 1 .. Len(Bodies) /\ Len(Bodies) \in Nat
        /\ PairedInv /\ RegionTypes
    BY Reading
  <1>2. /\ paired \subseteq DOMAIN fns
        /\ \A i \in paired : RefPairs[i] # 0
        /\ used = {RefPairs[i] : i \in paired}
    BY <1>1 DEF PairedInv
  <1>3. /\ RefPairs \in [1 .. Len(fns) -> 0 .. Len(Bodies)]
        /\ \A i, j \in 1 .. Len(fns) : RefPairs[i] # 0 /\ RefPairs[i] = RefPairs[j] => i = j
    BY <1>1, PairsFacts
  <1>4. used \subseteq DOMAIN Bodies
    <2>1. ASSUME NEW i \in paired PROVE RefPairs[i] \in DOMAIN Bodies
      <3>1. RefPairs[i] \in 0 .. Len(Bodies) /\ RefPairs[i] # 0 BY <1>1, <1>2, <1>3
      <3> QED BY <1>1, <3>1
    <2> QED BY <1>2, <2>1
  <1>5. Cardinality(paired) = Cardinality(used)
    <2>1. IsFiniteSet(paired)
      <3> DEFINE D == 1 .. Len(fns)
      <3>1. IsFiniteSet(D) BY <1>1, FS_Interval
      <3>2. paired \subseteq D BY <1>1, <1>2
      <3> HIDE DEF D
      <3> QED BY <3>1, <3>2, FS_Subset
    <2> DEFINE h == [i \in paired |-> RefPairs[i]]
    <2>2. h \in Bijection(paired, used)
      <3>1. \A i, j \in paired : RefPairs[i] = RefPairs[j] => i = j BY <1>1, <1>2, <1>3
      <3>2. h \in [paired -> used] /\ \A i \in paired : h[i] = RefPairs[i] BY <1>2
      <3> HIDE DEF h
      <3>3. h \in Injection(paired, used) BY <3>1, <3>2 DEF Injection, IsInjective
      <3>4. h \in Surjection(paired, used) BY <1>2, <3>2 DEF Surjection
      <3> QED BY <3>3, <3>4 DEF Bijection
    <2> HIDE DEF h
    <2>3. ExistsBijection(paired, used) BY <2>2 DEF ExistsBijection
    <2> QED BY <2>1, <2>3, FS_Bijection
  <1>6. outcome = "failed" => spill = <<>>
    BY <1>1 DEF RegionInv, DoneInv, RegionTypes
  <1>7. charged.ranges \in 0 .. MaxRanges /\ charged.bytes \in 0 .. MaxBytes
    BY <1>1 DEF RegionTypes
  <1> QED BY <1>1, <1>2, <1>4, <1>5, <1>6, <1>7 DEF RegionTypeOK, RegionTypes

\* What is written of a function is what the reference says of it.
LEMMA SlotFacts ==
    ASSUME fns \in Seq(AFunction), Bodies \in Seq(ABody), NEW i \in 1 .. Len(fns)
    PROVE  IF RefAccepted(fns[i], RefBody(i))
           THEN /\ RefRanges(RefBody(i), RangesOf(i))
                /\ References(RangesOf(i)) =
                     {x.to : x \in {y \in Range(Xrefs) : y.from \in Covered(RefBody(i))}}
           ELSE RangesOf(i) = <<>> /\ References(RangesOf(i)) = {}
  <1> DEFINE r == RangesOf(i)
             accepted == RefAccepted(fns[i], RefBody(i))
             C == Covered(RefBody(i))
  <1>1. /\ Apart(r)
        /\ accepted => Cover(r) = C
        /\ ~accepted => r = <<>>
    BY CountFacts
  <1>2. References(r) = {x.to : x \in {y \in Range(Xrefs) :
                           \E k \in DOMAIN r : y.from \in r[k].start .. r[k].end - 1}}
    BY DEF References
  <1> HIDE DEF r, accepted, C
  <1>3. /\ r \in Seq(ARange) /\ DOMAIN r = 1 .. Len(r) /\ Len(r) \in Nat
        /\ \A k \in DOMAIN r : r[k].start \in Nat /\ r[k].end \in Nat /\ r[k].start < r[k].end
        /\ \A k \in 2 .. Len(r) : r[k - 1].end < r[k].start
    <2>1. /\ r \in Seq(ARange)
          /\ \A k \in 1 .. Len(r) : r[k].start < r[k].end
          /\ \A k \in 2 .. Len(r) : r[k - 1].end < r[k].start
      BY <1>1 DEF Apart
    <2>2. DOMAIN r = 1 .. Len(r) /\ Len(r) \in Nat BY <2>1
    <2>3. \A k \in 1 .. Len(r) : r[k] \in ARange BY <2>1
    <2>4. \A e \in ARange : e.start \in Nat /\ e.end \in Nat BY DEF ARange
    <2> HIDE DEF ARange
    <2> QED BY <2>1, <2>2, <2>3, <2>4
  <1>4. \A a : a \in Cover(r) <=> \E k \in DOMAIN r : a \in r[k].start .. r[k].end - 1
    <2>1. ASSUME NEW a, NEW k \in DOMAIN r
          PROVE  a \in Nat /\ In(r[k], a) <=> a \in r[k].start .. r[k].end - 1
      <3>1. r[k].start \in Nat /\ r[k].end \in Nat BY <1>3
      <3> QED BY <3>1 DEF In
    <2>2. ASSUME NEW a
          PROVE  a \in Cover(r) <=> \E k \in DOMAIN r : a \in Nat /\ In(r[k], a)
      BY <1>3 DEF Cover
    <2> QED BY <2>1, <2>2
  <1>5. CASE accepted
    <2>1. Cover(r) = C BY <1>1, <1>5
    <2>2. UNION {x.start .. x.end - 1 : x \in Range(r)} = C
      <3> DEFINE U == UNION {x.start .. x.end - 1 : x \in Range(r)}
      <3>1. \A a : a \in U <=> \E k \in DOMAIN r : a \in r[k].start .. r[k].end - 1
        <4>1. Range(r) = {r[k] : k \in DOMAIN r} BY DEF Range
        <4> QED BY <4>1
      <3>2. \A a : a \in U <=> a \in Cover(r)
        <4> HIDE DEF U
        <4> QED BY <1>4, <3>1
      <3> QED BY <2>1, <3>2
    <2>3. References(r) = {x.to : x \in {y \in Range(Xrefs) : y.from \in C}}
      <3>1. {y \in Range(Xrefs) : \E k \in DOMAIN r : y.from \in r[k].start .. r[k].end - 1}
              = {y \in Range(Xrefs) : y.from \in C}
        BY <1>4, <2>1
      <3> QED BY <1>2, <3>1
    <2>4. RefRanges(RefBody(i), r) BY <1>3, <2>2 DEF RefRanges, C
    <2> QED BY <1>5, <2>3, <2>4 DEF accepted, r, C
  <1>6. CASE ~accepted
    <2>1. r = <<>> BY <1>1, <1>6
    <2>2. References(r) = {} BY <1>2, <2>1
    <2> QED BY <1>6, <2>1, <2>2 DEF accepted, r
  <1> QED BY <1>5, <1>6

\* Reading a capture as a stream, twice, and giving out bodies as they come,
\* ends as reading the whole of it does: a region succeeds on the same
\* captures, and the spill then holds each function once, in order, with the
\* reference's body, ranges and references.
THEOREM StreamIsTheDocument == RegionSpec => []SpillMatchesReference
  <1>1. ASSUME RegionInv PROVE SpillMatchesReference
    <2>1. RegionTypeOK BY <1>1, RegionTypesFollow
    <2>2. ASSUME phase = "done", fns # <<>> PROVE (outcome = "ok") <=> RefOk
      <3>1. outcome \in {"ok", "failed"} BY <1>1, <2>2 DEF RegionInv, RegionTypes
      <3>2. outcome = "failed" => ~RefOk BY <1>1, <2>2 DEF RegionInv, DoneInv
      <3>3. outcome = "ok" => RefOk BY <1>1, <2>2 DEF RegionInv, DoneInv
      <3> QED BY <3>1, <3>2, <3>3
    <2>3. ASSUME phase = "done", outcome = "ok"
          PROVE  /\ [k \in DOMAIN spill |-> spill[k].fn] = [k \in DOMAIN fns |-> k]
                 /\ \A i \in DOMAIN fns :
                      /\ spill[i].body = RefBody(i)
                      /\ IF RefAccepted(fns[i], RefBody(i))
                         THEN /\ RefRanges(RefBody(i), spill[i].ranges)
                              /\ spill[i].refs =
                                   {x.to : x \in {y \in Range(Xrefs) : y.from \in Covered(RefBody(i))}}
                         ELSE spill[i].ranges = <<>> /\ spill[i].refs = {}
      <3>1. spill = [i \in 1 .. Len(fns) |-> Slot(i)] BY <1>1, <2>3 DEF RegionInv, DoneInv
      <3>2. fns \in Seq(AFunction) /\ DOMAIN fns = 1 .. Len(fns) /\ Bodies \in Seq(ABody)
        BY <1>1, Reading
      <3>3. DOMAIN spill = DOMAIN fns /\ \A i \in DOMAIN fns : spill[i] = Slot(i) BY <3>1, <3>2
      <3>4. \A i : /\ Slot(i).fn = i /\ Slot(i).body = RefBody(i)
                   /\ Slot(i).ranges = RangesOf(i) /\ Slot(i).refs = References(RangesOf(i))
        BY DEF Slot
      <3>5. [k \in DOMAIN spill |-> spill[k].fn] = [k \in DOMAIN fns |-> k]
        BY <3>3, <3>4
      <3>6. ASSUME NEW i \in DOMAIN fns
            PROVE  /\ spill[i].body = RefBody(i)
                   /\ IF RefAccepted(fns[i], RefBody(i))
                      THEN /\ RefRanges(RefBody(i), spill[i].ranges)
                           /\ spill[i].refs =
                                {x.to : x \in {y \in Range(Xrefs) : y.from \in Covered(RefBody(i))}}
                      ELSE spill[i].ranges = <<>> /\ spill[i].refs = {}
        <4>1. /\ spill[i].body = RefBody(i) /\ spill[i].ranges = RangesOf(i)
              /\ spill[i].refs = References(RangesOf(i))
          BY <3>3, <3>4
        <4>2. i \in 1 .. Len(fns) BY <3>2
        <4>3. IF RefAccepted(fns[i], RefBody(i))
              THEN /\ RefRanges(RefBody(i), RangesOf(i))
                   /\ References(RangesOf(i)) =
                        {x.to : x \in {y \in Range(Xrefs) : y.from \in Covered(RefBody(i))}}
              ELSE RangesOf(i) = <<>> /\ References(RangesOf(i)) = {}
          BY <3>2, <4>2, SlotFacts
        <4> QED BY <4>1, <4>3
      <3> QED BY <3>5, <3>6
    <2> QED BY <2>1, <2>2, <2>3 DEF SpillMatchesReference
  <1> QED BY <1>1, RegionKeepsToReference, PTL

-----------------------------------------------------------------------------
(* Both.                                                                   *)

\* The counts a parsed region hands to the coordinator.
RegionStats ==
    [raw |-> Len(spill), accepted |-> Cardinality({k \in DOMAIN spill : spill[k].ranges # <<>>})]

\* A region that is parsed has the counts that the coordinator expects of it
\* (its Parse): at least one function, as many slots as the inventory has,
\* and no more of them accepted.
THEOREM ParsedRegionsFit == ASSUME MaxFunctions <= MaxFns
                            PROVE  RegionSpec => [](outcome = "ok" => RegionStats \in Stats)
  <1>1. ASSUME RegionInv, outcome = "ok" PROVE RegionStats \in Stats
    <2> DEFINE n == Len(spill)
               A == {k \in DOMAIN spill : spill[k].ranges # <<>>}
               a == Cardinality(A)
    <2>1. fns \in Seq(AFunction) /\ Len(fns) <= MaxFunctions /\ phase = "done"
      BY <1>1 DEF RegionInv, RegionTypes
    <2>2. Len(fns) \in Nat BY <2>1
    <2>3. spill = [i \in 1 .. Len(fns) |-> Slot(i)] /\ RefOk
      BY <1>1, <2>1 DEF RegionInv, DoneInv
    <2>4. DOMAIN spill = 1 .. Len(fns) /\ n = Len(fns) BY <2>2, <2>3
    <2>5. fns # <<>> BY <2>3 DEF RefOk
    <2>6. Len(fns) # 0 BY <2>1, <2>5
    <2>7. MaxFunctions \in Nat /\ MaxFns \in Nat BY RegionAssumption, CoordinatorAssumption
    <2>8. n \in 1 .. MaxFns BY <2>1, <2>2, <2>4, <2>6, <2>7
    <2>9. a \in Nat /\ a <= n
      <3> DEFINE D == DOMAIN spill
      <3>1. IsFiniteSet(D) /\ Cardinality(D) = n
        <4>1. D = 1 .. n /\ n \in Nat BY <2>2, <2>4
        <4> HIDE DEF D, n
        <4>2. IsFiniteSet(1 .. n) /\ Cardinality(1 .. n) = IF 1 > n THEN 0 ELSE n - 1 + 1
          BY <4>1, FS_Interval
        <4> QED BY <4>1, <4>2
      <3>2. A \subseteq D OBVIOUS
      <3> HIDE DEF A, D, n
      <3>3. IsFiniteSet(A) /\ Cardinality(A) <= Cardinality(D) BY <3>1, <3>2, FS_Subset
      <3> QED BY <3>1, <3>3, FS_CardinalityType
    <2> HIDE DEF n, A, a
    <2>10. [raw |-> n, accepted |-> a] \in Stats BY <2>7, <2>8, <2>9 DEF Stats
    <2> QED BY <2>10 DEF RegionStats, n, a, A
  <1>2. RegionInv => (outcome = "ok" => RegionStats \in Stats) BY <1>1
  <1> QED BY <1>2, RegionKeepsToReference, PTL
=============================================================================
