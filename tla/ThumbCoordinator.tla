-------------------------- MODULE ThumbCoordinator --------------------------
(***************************************************************************)
(* run_thumb_analysis of src/thumb_analysis/stream.rs: every requested     *)
(* dense-Thumb region is analyzed by radare2 and, when that fails and the  *)
(* fallback is configured, by rizin; the v3 sidecar is then assembled from *)
(* the regions' spills and published atomically (artifact.rs).             *)
(*                                                                         *)
(* A region's supervised attempt is one step, with any result that         *)
(* AttemptContract allows. Every file operation may fail, and the whole    *)
(* program may crash between any two steps and be run again over the       *)
(* directory it left behind.                                               *)
(***************************************************************************)
EXTENDS Integers, Sequences, SequencesExt

CONSTANTS
    N,          \* regions requested, in address order
    MaxFns,     \* bound: functions in one region's inventory
    MaxRuns     \* bound: invocations over the same output directory

ASSUME CoordinatorAssumption ==
    N \in Nat \ {0} /\ MaxFns \in Nat \ {0} /\ MaxRuns \in Nat \ {0}

VARIABLES
    \* --- the output directory ---
    stdout,     \* capture path -> who wrote it, in which invocation, or NoFile
    frags,      \* spill path -> NoSpill or the spill file there
    sidecar,    \* thumb_functions.json: NoDoc, Torn or a document
    temp,       \* a temporary file of the atomic writer exists
    \* --- one invocation ---
    run, pc,
    rizin,      \* tools.rizin is Some(_)
    region, prod,
    attempt,    \* the attempt in progress: its result so far
    attempts, records, spills, summary, rizinAttempted,
    result

disk == <<stdout, frags, sidecar, temp>>
memory == <<rizin, region, prod, attempt, attempts, records, spills, summary,
            rizinAttempted>>
vars == <<stdout, frags, sidecar, temp, run, pc, rizin, region, prod, attempt,
          attempts, records, spills, summary, rizinAttempted, result>>

Regions   == 1..N
Producers == <<"radare2", "rizin">>
ProducerSet == {"radare2", "rizin"}

\* Mutant: the file name lacks the producer.
MutStdoutPath(r, p) == <<r, "any">>

\* thumb/<addr>.<producer>.stdout and thumb/<addr>.<producer>.frags
StdoutPath(r, p) == <<r, p>>
FragmentPath(r, p) == <<r, p>>
Paths == Regions \X (ProducerSet \cup {"any"})

NoFile  == <<0, "none">>
Written == (1..MaxRuns) \X ProducerSet
NoSpill == [run |-> 0, slots |-> 0, accepted |-> 0]
Spills  == [run : 0..MaxRuns, slots : 0..MaxFns, accepted : 0..MaxFns]

\* RegionStats: raw functions and the accepted ones among them.
Stats == {s \in [raw : 1..MaxFns, accepted : 0..MaxFns] : s.accepted <= s.raw}

Zero == [succeeded |-> 0, failed |-> 0, radare2 |-> 0, rizin |-> 0, raw |-> 0,
         accepted |-> 0, quarantined |-> 0]

NoDoc == [kind |-> "none"]
Torn  == [kind |-> "torn"]
Doc(k, producers, regions, functions) ==
    [kind |-> "doc", run |-> k, producers |-> producers, regions |-> regions,
     functions |-> functions]

\* Of a failed attempt: was its stdout captured, did it succeed.
NoAttempt == [ok |-> FALSE, captured |-> FALSE]

Contract == INSTANCE AttemptContract
    WITH outcome <- "none", captured <- FALSE, residue <- FALSE

Init ==
    /\ stdout = [x \in Paths |-> NoFile] /\ frags = [x \in Paths |-> NoSpill]
    /\ sidecar = NoDoc /\ temp = FALSE
    /\ run = 0 /\ pc = "idle" /\ result = "none"
    /\ rizin = FALSE /\ region = 1 /\ prod = 1
    /\ attempt = NoAttempt /\ attempts = <<>>
    /\ records = <<>> /\ spills = <<>> /\ summary = Zero
    /\ rizinAttempted = FALSE

-----------------------------------------------------------------------------
(* One invocation.                                                         *)

Begin ==
    /\ pc = "idle" /\ run < MaxRuns
    /\ run' = run + 1
    /\ rizin' \in BOOLEAN
    /\ pc' = "carve"
    /\ UNCHANGED <<disk, result, region, prod, attempt, attempts, records, spills,
                   summary, rizinAttempted>>

\* The process ends: its memory is as a new process will find it.
Forget ==
    /\ pc' = "idle" /\ result' = "none"
    /\ rizin' = FALSE /\ region' = 1 /\ prod' = 1
    /\ attempt' = NoAttempt /\ attempts' = <<>>
    /\ records' = <<>> /\ spills' = <<>> /\ summary' = Zero
    /\ rizinAttempted' = FALSE

\* An error return: PendingSpills' drop follows.
Abort(kind) == pc' = "drop" /\ result' = kind

Carve ==
    /\ pc = "carve"
    /\ \/ pc' = "stale" /\ UNCHANGED result
       \/ Abort("err")
    /\ UNCHANGED <<disk, run, memory>>

Path == StdoutPath(region, Producers[prod])
FragPath == FragmentPath(region, Producers[prod])
Own == <<run, Producers[prod]>>

RemoveFragments == frags' = [frags EXCEPT ![FragPath] = NoSpill]

\* Mutant: the flag follows the current attempt.
MutMarkAttempted == rizinAttempted' = (Producers[prod] = "rizin")

MarkAttempted ==
    rizinAttempted' = (rizinAttempted \/ Producers[prod] = "rizin")

\* run_backend_region, first half: fragments of an earlier run go; a failing
\* removal is FailedRegion::setup, which is terminal.
RemoveStale ==
    /\ pc = "stale"
    /\ MarkAttempted
    /\ \/ /\ RemoveFragments
          /\ pc' = "attempt" /\ UNCHANGED result
       \/ Abort("terminal") /\ UNCHANGED frags
    /\ UNCHANGED <<stdout, sidecar, temp, run, rizin, region, prod, attempt,
                   attempts, records, spills, summary>>

\* run_backend_capture, by its contract. A capture is this run's file; a
\* failure without one leaves either no file or the file it never touched;
\* a terminal one leaves anything.
RunAttempt ==
    /\ pc = "attempt"
    /\ \E r \in Contract!AttemptResults :
        /\ attempt' = [ok |-> r.outcome = "ok", captured |-> r.captured]
        /\ \E left \in CASE r.outcome = "terminal" -> {NoFile, Own, stdout[Path]}
                         [] r.outcome # "terminal" /\ r.captured -> {Own}
                         [] OTHER -> {NoFile, stdout[Path]} :
              stdout' = [stdout EXCEPT ![Path] = left]
        /\ pc' = CASE r.outcome = "ok" -> "parse"
                   [] r.outcome = "failed" -> "clean"
                   [] OTHER -> "cleanTerminal"
    /\ UNCHANGED <<frags, sidecar, temp, run, rizin, region, prod, attempts,
                   records, spills, summary, rizinAttempted, result>>

\* The producer's parser: it writes the spill as it goes and rejects output
\* before it creates one, or with one half written.
Parse ==
    /\ pc = "parse"
    /\ \/ \E s \in Stats :
            /\ frags' = [frags EXCEPT ![FragPath] =
                            [run |-> run, slots |-> s.raw,
                             accepted |-> s.accepted]]
            /\ pc' = "select"
            /\ UNCHANGED attempt
       \/ /\ \/ UNCHANGED frags
             \/ frags' = [frags EXCEPT ![FragPath] =
                             [run |-> run, slots |-> 0, accepted |-> 0]]
          /\ attempt' = [attempt EXCEPT !.ok = FALSE]
          /\ pc' = "clean"
    /\ UNCHANGED <<stdout, sidecar, temp, run, rizin, region, prod, attempts,
                   records, spills, summary, rizinAttempted, result>>

AttemptRecord == [producer |-> Producers[prod], ok |-> attempt.ok,
                  stdout |-> attempt.captured]

Recorded == Append(attempts, AttemptRecord)

RegionRecord(att, runs) ==
    [start |-> region, attempts |-> att, runs |-> runs]

\* The next region, or the end of the loop.
Advance == IF region = N THEN pc' = "check" /\ UNCHANGED <<region, prod>>
           ELSE pc' = "carve" /\ region' = region + 1 /\ prod' = 1

\* A failed attempt: its fragments are removed, or the failure turns terminal.
\* Then the fallback runs if there is one, or the region is recorded failed.
CleanFailed ==
    /\ pc = "clean"
    /\ \/ /\ RemoveFragments
          /\ LET att == Recorded
             IN  IF prod = 1 /\ rizin
                 THEN /\ attempts' = att /\ prod' = 2 /\ pc' = "stale"
                      /\ UNCHANGED <<region, records, summary>>
                 ELSE /\ records' = Append(records, RegionRecord(att, <<>>))
                      /\ summary' = [summary EXCEPT !.failed = @ + 1]
                      /\ attempts' = <<>>
                      /\ Advance
          /\ attempt' = NoAttempt /\ UNCHANGED result
       \/ /\ Abort("terminal")
          /\ UNCHANGED <<frags, attempts, region, prod, records, summary,
                         attempt>>
    /\ UNCHANGED <<stdout, sidecar, temp, run, rizin, spills, rizinAttempted>>

CleanTerminal ==
    /\ pc = "cleanTerminal"
    /\ \/ RemoveFragments
       \/ UNCHANGED frags
    /\ Abort("terminal")
    /\ UNCHANGED <<stdout, sidecar, temp, run, memory>>

Bump(s, p) == IF p = "radare2" THEN [s EXCEPT !.radare2 = @ + 1]
              ELSE [s EXCEPT !.rizin = @ + 1]

\* Mutant: runs are numbered by the accepted functions.
MutFunctionRun(spill) ==
    [producer |-> Producers[prod], first |-> summary.accepted,
     count |-> spill.slots, accepted |-> spill.accepted,
     quarantined |-> spill.slots - spill.accepted]

FunctionRun(spill) ==
    [producer |-> Producers[prod], first |-> summary.raw,
     count |-> spill.slots, accepted |-> spill.accepted,
     quarantined |-> spill.slots - spill.accepted]

\* A successful attempt selects the region's producer: its run starts where
\* the functions of the earlier regions end.
Select ==
    /\ pc = "select"
    /\ LET spill == frags[FragPath]
       IN  /\ records' = Append(records,
                  RegionRecord(Recorded, <<FunctionRun(spill)>>))
           /\ summary' = [Bump(summary, Producers[prod]) EXCEPT
                  !.succeeded = @ + 1,
                  !.raw = @ + spill.slots,
                  !.accepted = @ + spill.accepted,
                  !.quarantined = @ + spill.slots - spill.accepted]
           /\ spills' = Append(spills, FragPath)
    /\ attempts' = <<>> /\ attempt' = NoAttempt
    /\ Advance
    /\ UNCHANGED <<disk, run, rizin, rizinAttempted, result>>

Conserving ==
    /\ summary.succeeded + summary.failed = N
    /\ summary.accepted + summary.quarantined = summary.raw
    /\ summary.radare2 + summary.rizin = summary.succeeded

CheckSummary ==
    /\ pc = "check"
    /\ IF Conserving /\ summary.succeeded > 0
       THEN pc' = "open" /\ UNCHANGED result
       ELSE Abort("err")
    /\ UNCHANGED <<disk, run, memory>>

-----------------------------------------------------------------------------
(* Assembly: assemble_v3_atomic.                                           *)

AttemptedProducers == IF rizinAttempted THEN Producers ELSE <<"radare2">>

\* The runs of all regions, in order: V3Layout::runs.
RunsOf(recs) ==
    LET upTo[i \in 0..Len(recs)] ==
            IF i = 0 THEN <<>> ELSE upTo[i - 1] \o recs[i].runs
    IN  upTo[Len(recs)]

\* next_function after the first j runs, for every j.
NextFunction(runs) ==
    LET next[j \in 0..Len(runs)] ==
            IF j = 0 THEN 0 ELSE next[j - 1] + runs[j].count
    IN  next

FunctionCount(recs) == NextFunction(RunsOf(recs))[Len(RunsOf(recs))]

\* The producers of the successful ones among one or two attempts.
Successes(att) ==
    (IF att[1].ok THEN <<att[1].producer>> ELSE <<>>)
    \o (IF Len(att) = 2 /\ att[2].ok THEN <<att[2].producer>> ELSE <<>>)

ValidRegion(rec) ==
    /\ Len(rec.attempts) \in 1..2
    /\ \A j \in DOMAIN rec.attempts :
        /\ rec.attempts[j].producer = Producers[j]
        /\ rec.attempts[j].ok => rec.attempts[j].stdout
    /\ [j \in DOMAIN rec.runs |-> rec.runs[j].producer] = Successes(rec.attempts)

AttemptedIn(recs) ==
    {a.producer : a \in UNION {Range(recs[i].attempts) : i \in DOMAIN recs}}

\* validate_v3_metadata: what every reader of the sidecar insists on.
ValidMetadata(producers, recs) ==
    LET runs == RunsOf(recs)
    IN  /\ producers \in {<<"radare2">>, Producers}
        /\ recs # <<>>
        /\ \A i \in 2..Len(recs) : recs[i - 1].start < recs[i].start
        /\ \A i \in DOMAIN recs : ValidRegion(recs[i])
        /\ \A j \in DOMAIN runs :
            /\ runs[j].first = NextFunction(runs)[j - 1] /\ runs[j].count > 0
            /\ runs[j].accepted + runs[j].quarantined = runs[j].count
        /\ AttemptedIn(recs) = Range(producers)
        /\ runs # <<>>

\* validate_v3_assembly_layout: one whole spill per run, with its counts.
ValidAssembly(producers, recs, paths) ==
    LET runs == RunsOf(recs)
    IN  /\ ValidMetadata(producers, recs)
        /\ Len(runs) = Len(paths)
        /\ \A i \in DOMAIN runs :
            /\ frags[paths[i]].slots = runs[i].count
            /\ frags[paths[i]].accepted = runs[i].accepted

\* Mutant: the sidecar is written in place.
MutOpenTemp ==
    /\ pc = "open"
    /\ sidecar' = Torn /\ temp' = TRUE /\ pc' = "write"
    /\ UNCHANGED <<stdout, frags, run, memory, result>>

\* Mutant: the old sidecar is removed before the new one is complete.
MutOpenTempUnlink ==
    /\ pc = "open"
    /\ sidecar' = NoDoc /\ temp' = TRUE /\ pc' = "write"
    /\ UNCHANGED <<stdout, frags, run, memory, result>>

OpenTemp ==
    /\ pc = "open"
    /\ \/ temp' = TRUE /\ pc' = "write" /\ UNCHANGED result
       \/ Abort("err") /\ UNCHANGED temp
    /\ UNCHANGED <<stdout, frags, sidecar, run, memory>>

\* assemble_v3_into validates before its first byte; any error drops the
\* temporary file.
WriteTemp ==
    /\ pc = "write"
    /\ \/ /\ ValidAssembly(AttemptedProducers, records, spills)
          /\ pc' = "commit" /\ UNCHANGED <<temp, result>>
       \/ Abort("err") /\ temp' = FALSE
    /\ UNCHANGED <<stdout, frags, sidecar, run, memory>>

Assembled == Doc(run, AttemptedProducers, records, summary.raw)

Commit ==
    /\ pc = "commit"
    /\ temp' = FALSE
    /\ \/ sidecar' = Assembled /\ pc' = "drop" /\ result' = "ok"
       \/ Abort("err") /\ UNCHANGED sidecar
    /\ UNCHANGED <<stdout, frags, run, memory>>

\* The spills are removed by the assembly or by PendingSpills' drop; both
\* ignore errors, so any of them may stay behind.
DropSpills ==
    /\ pc = "drop"
    /\ \E kept \in SUBSET Range(spills) :
        frags' = [x \in Paths |-> IF x \in Range(spills) \ kept THEN NoSpill
                                  ELSE frags[x]]
    /\ Forget
    /\ UNCHANGED <<stdout, sidecar, temp, run>>

\* The program dies: memory is lost, the directory stays as it is (a temporary
\* file of a random name included).
Crash ==
    /\ pc # "idle"
    /\ Forget
    /\ UNCHANGED <<disk, run>>

Next == \/ Begin \/ Carve \/ RemoveStale \/ RunAttempt \/ Parse
        \/ CleanFailed \/ CleanTerminal \/ Select \/ CheckSummary
        \/ OpenTemp \/ WriteTemp \/ Commit \/ DropSpills \/ Crash

Spec == Init /\ [][Next]_vars
-----------------------------------------------------------------------------
(* Properties.                                                             *)

Attempts  == [producer : ProducerSet, ok : BOOLEAN, stdout : BOOLEAN]
Counts    == 0..(N * MaxFns)
FnRuns    == [producer : ProducerSet, first : Counts, count : Counts,
              accepted : Counts, quarantined : Counts]
Records   == [start : Regions, attempts : Seq(Attempts), runs : Seq(FnRuns)]
Summaries == [succeeded : 0..N, failed : 0..N, radare2 : 0..N, rizin : 0..N,
              raw : Counts, accepted : Counts, quarantined : Counts]

TypeOK ==
    /\ stdout \in [Paths -> Written \cup {NoFile}]
    /\ frags \in [Paths -> Spills]
    /\ sidecar.kind \in {"none", "torn", "doc"} /\ temp \in BOOLEAN
    /\ run \in 0..MaxRuns
    /\ pc \in {"idle", "carve", "stale", "attempt", "parse", "clean",
               "cleanTerminal", "select", "check", "open", "write", "commit",
               "drop"}
    /\ rizin \in BOOLEAN /\ rizinAttempted \in BOOLEAN
    /\ region \in Regions /\ prod \in 1..2
    /\ attempt \in [ok : BOOLEAN, captured : BOOLEAN]
    /\ attempts \in Seq(Attempts) /\ Len(attempts) <= 1
    /\ records \in Seq(Records) /\ Len(records) <= N
    /\ spills \in Seq(Paths)
    /\ summary \in Summaries
    /\ result \in {"none", "ok", "err", "terminal"}

\* Readers never find a torn or half-assembled thumb_functions.json, whatever
\* fails and wherever the program dies: there is none, or a whole document
\* that passes validate_v3_metadata, covers every requested region and counts
\* exactly the functions its runs own.
SidecarIsWhole ==
    sidecar.kind # "none" =>
        /\ sidecar.kind = "doc"
        /\ ValidMetadata(sidecar.producers, sidecar.regions)
        /\ Len(sidecar.regions) = N
        /\ sidecar.functions = FunctionCount(sidecar.regions)

\* The assembly's own validation never rejects what the coordinator built, so
\* a run that reached it fails only by I/O: the spills still hold, slot for
\* slot, what the run records claim.
AssemblyAccepts ==
    pc \in {"write", "commit"} =>
        ValidAssembly(AttemptedProducers, records, spills)

\* Each recorded capture names the file its own attempt wrote: no attempt, of
\* either producer or a later region, overwrote the bytes another one recorded.
CapturesAreOwn ==
    pc \in {"check", "open", "write", "commit"} =>
        \A rec \in Range(records) : \A a \in Range(rec.attempts) :
            a.stdout => stdout[StdoutPath(rec.start, a.producer)]
                            = <<run, a.producer>>

\* A recorded failed attempt left no fragments a later step could mistake for
\* a finished spill.
NoFragmentsOfFailures ==
    pc # "idle" =>
        \A rec \in Range(records) : \A a \in Range(rec.attempts) :
            ~a.ok => frags[FragmentPath(rec.start, a.producer)] = NoSpill

\* Memory, records and directory agree: every variable is of its type, and what
\* the run records say of captures and spills is so on disk.
FilesMatchRecords == TypeOK /\ CapturesAreOwn /\ NoFragmentsOfFailures

\* validate_thumb_analysis_currentness re-derives from the summary alone
\* whether rizin was attempted; that inference agrees with what happened.
CurrentnessInference ==
    pc \in {"open", "write", "commit"} =>
        (rizinAttempted <=> summary.rizin > 0 \/ (summary.failed > 0 /\ rizin))

\* The published sidecar changes only by the commit of a run in which every
\* region was attempted to the end, none terminally, and one succeeded; every
\* other way a run can end leaves the prior sidecar untouched.
PriorSidecarKept ==
    [][sidecar' # sidecar =>
        /\ result = "none" /\ result' = "ok"
        /\ Len(records) = N
        /\ \E rec \in Range(records) : rec.runs # <<>>]_vars
=============================================================================
