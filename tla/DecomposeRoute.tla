---------------------------- MODULE DecomposeRoute ----------------------------
(***************************************************************************)
(* The orchestration of one `decompose` run, src/decompose.rs: the stages  *)
(* in order, the two symbol routes, the rows of report.json and the files  *)
(* that the stages rewrite and bind by digest.                             *)
(*                                                                         *)
(* Two kinds of state go stale here. The rows of the decompile stage are   *)
(* rebuilt from the ImageResults several times, and a rebuild forgets      *)
(* every counter that an ImageResult does not carry; each stage's outcome  *)
(* has to be kept and applied again. And symbols.json and                  *)
(* global_shapes.json bind digests of files that later steps rewrite.      *)
(*                                                                         *)
(* A file is a version number, 0 when absent: a rewrite increments it and  *)
(* a sidecar records the versions it read. Each image may have a tree that *)
(* an earlier run left. Stages fail for any subset of the images.          *)
(***************************************************************************)
EXTENDS Integers, Sequences, FiniteSets

CONSTANTS
    Images,         \* the code images, by label
    Options,        \* the command lines, with the MAIN image of the firmware:
                    \* not in Images when the firmware has none
    Lacking,        \* optional stages whose inputs the firmware lacks
    MaxFaults       \* bound: failures in one run

ASSUME RouteAssumption ==
    /\ IsFiniteSet(Images) /\ MaxFaults \in Nat
    /\ \A o \in Options : {o.noSymbol, o.noThumb, o.noTypes, o.prune} \subseteq BOOLEAN

VARIABLES
    opts,           \* --no-symbol-pass, --no-thumb-decompile, ...; the MAIN image
    todo,           \* the steps still to run
    faults,
    stages,         \* report.json: stage -> statuses of its entries, in order
    report,         \* pass1_report is Some
    res,            \* its ImageResults
    retained,       \* no report, but res is still held: retained_pass1_images
    haveRows,       \* the decompile entry has image rows
    row,            \* those rows
    kept,           \* the outcomes kept beside them
    disk,           \* the files of images/<label>/decompiled
    contexts,       \* images with a current symbolication context
    snap,           \* images with a terminal pass-2 snapshot
    maps,           \* kind -> images with a prepared map
    scheduled,      \* images dispatched to pass 2
    pruned

vars == <<opts, todo, faults, stages, report, res, retained, haveRows, row,
          kept, disk, contexts, snap, maps, scheduled, pruned>>

Stages ==
    {"extract", "locate_rootfs", "decompile", "exception_roots", "pal_tasks",
     "pal_messages", "thumb_enrich", "debug_traces", "debug_traces_refs",
     "source_tree", "source_attribution", "decode_tokens", "startup_metadata",
     "symbol_map", "globals", "global_shapes", "decompile_pass2",
     "globals_apply", "startup_metadata_apply", "thumb_enrich_post_pass2",
     "global_types_apply", "symbolicate_finalize", "decode_rf",
     "hardware_config", "prune"}
Statuses == {"ok", "failed", "skipped"}

Main == opts.main

\* The row fields that an ImageResult does not carry, by the stage that owns
\* them, and what each holds: "none" is a null field.
Groups == {"dbt", "startup", "ss", "shapes", "types"}
Nulls  == [g \in Groups |-> "none"]

Fresh == [outcome |-> "failed", thumb |-> "none", enriched |-> FALSE,
          enrichError |-> FALSE, globals |-> "none", pass2 |-> "none"]

NoFiles == [functions |-> 0, thumb |-> 0, globals |-> 0, text |-> "none",
            symbols |-> 0, shapes |-> <<0, 0, 0>>]
Earlier == [functions |-> 1, thumb |-> 1, globals |-> 1, text |-> "full",
            symbols |-> 1, shapes |-> <<1, 1, 1>>]
Inputs(i) == <<disk[i].functions, disk[i].thumb, disk[i].globals>>
HasShapes(i) == disk[i].shapes # NoFiles.shapes

(***************************************************************************)
(* The order of the stages                                                 *)
(***************************************************************************)
\* Mutant of Route: no second sweep of the shapes.
MutRouteNoRefresh(noSymbol) ==
    IF noSymbol
    THEN <<"Finalize", "RunGlobals", "FinalizeText", "RunGlobalShapes">>
    ELSE <<"RunGlobals", "RunGlobalShapes", "DispatchPass2", "PostPass2",
           "ApplyGlobalTypes", "Finalize">>

Route(noSymbol) ==
    IF noSymbol
    THEN <<"Finalize", "RunGlobals", "FinalizeText", "RunGlobalShapes">>
    ELSE <<"RunGlobals", "RunGlobalShapes", "DispatchPass2", "PostPass2",
           "ApplyGlobalTypes", "Finalize", "RefreshGlobalShapes">>

\* Mutant of Pipeline: the symbol maps built after the globals.
MutPipeline(noSymbol) ==
    <<"Extract", "LocateRootfs", "Decompile", "ThumbEnrich", "DebugTraces",
      "SourceTree", "DecodeTokens", "StartupMetadata", "RunGlobals", "SymbolMap">>
    \o Tail(Route(noSymbol)) \o <<"Decoders", "Prune">>

Pipeline(noSymbol) ==
    <<"Extract", "LocateRootfs", "Decompile", "ThumbEnrich", "DebugTraces",
      "SourceTree", "DecodeTokens", "StartupMetadata", "SymbolMap">>
    \o Route(noSymbol) \o <<"Decoders", "Prune">>

Step(s)  == todo # <<>> /\ Head(todo) = s
Continue == todo' = Tail(todo)
Stop     == todo' = <<>>     \* finalize before the rest of the pipeline

Fault(bad) == /\ faults + Cardinality(bad) <= MaxFaults
              /\ faults' = faults + Cardinality(bad)

Verdict(bad) == IF bad = {} THEN "ok" ELSE "failed"

\* One entry for each stage of the domain.
Push(entries) ==
    stages' = [s \in Stages |-> IF s \in DOMAIN entries
                                THEN Append(stages[s], entries[s])
                                ELSE stages[s]]

Init ==
    /\ opts \in Options
    /\ todo = Pipeline(opts.noSymbol)
    /\ faults = 0 /\ stages = [s \in Stages |-> <<>>]
    /\ report = FALSE /\ res = [i \in Images |-> Fresh] /\ retained = FALSE
    /\ haveRows = FALSE
    /\ row = [i \in Images |-> [base |-> Fresh, kept |-> Nulls]]
    /\ kept = [i \in Images |-> Nulls]
    /\ disk \in [Images -> {NoFiles, Earlier}]
    /\ contexts = {} /\ snap = {} /\ scheduled = {} /\ pruned = FALSE
    /\ maps = [k \in {"function", "global", "types"} |-> {}]

(***************************************************************************)
(* Rows                                                                    *)
(***************************************************************************)
\* ImageReport::from_result.
FromResults(rs) == [i \in Images |-> [base |-> rs[i], kept |-> Nulls]]

\* Mutant of Reapply: one group forgotten.
MutReapply(rs, gs, ks) ==
    [i \in Images |-> [rs[i] EXCEPT !.kept =
        [g \in Groups |-> IF g \in gs \ {"startup"} /\ ks[i][g] # "none"
                          THEN ks[i][g] ELSE @[g]]]]

\* Put the kept outcomes ks of the groups gs on the rows rs; a group with no
\* outcome is left as it is.
Reapply(rs, gs, ks) ==
    [i \in Images |-> [rs[i] EXCEPT !.kept =
        [g \in Groups |-> IF g \in gs /\ ks[i][g] # "none" THEN ks[i][g] ELSE @[g]]]]

Rows(rs) == row' = IF haveRows THEN rs ELSE row

\* Keep f's value as the outcome of group g for the images S.
Keep(g, S, f) ==
    [i \in Images |-> IF i \in S THEN [kept[i] EXCEPT ![g] = f[i]] ELSE kept[i]]

Current(S) == IF report THEN S ELSE {}

(***************************************************************************)
(* Extraction and pass 1                                                   *)
(***************************************************************************)
afterPass1 == <<retained, snap, maps, scheduled, pruned, opts>>

Extract ==
    /\ Step("Extract")
    /\ \/ Fault({}) /\ Push([extract |-> "ok"]) /\ Continue
       \/ Fault({"extract"}) /\ Push([extract |-> "failed"]) /\ Stop
    /\ UNCHANGED <<report, res, haveRows, row, kept, disk, contexts, afterPass1>>

LocateRootfs ==
    /\ Step("LocateRootfs")
    /\ \/ Fault({}) /\ Continue /\ UNCHANGED stages
       \/ Fault({"rootfs"}) /\ Push([locate_rootfs |-> "failed"]) /\ Stop
    /\ UNCHANGED <<report, res, haveRows, row, kept, disk, contexts, afterPass1>>

\* The export of an image moves to images/<label>/decompiled by one rename,
\* which an earlier run's directory in that place refuses.
Publish(i, thumb) ==
    [NoFiles EXCEPT !.functions = 2, !.text = "raw",
                    !.thumb = IF thumb = "ok" THEN 2 ELSE 0]

RunDecompile ==
    /\ Step("Decompile") /\ Continue
    /\ \/ /\ Fault({"decompile"})
          /\ Push([decompile |-> "failed", exception_roots |-> "failed",
                   pal_tasks |-> "skipped", pal_messages |-> "skipped"])
          /\ UNCHANGED <<report, res, haveRows, row, disk, contexts>>
       \/ \E bad, badThumb, unpublished, opaque, hasThumb \in SUBSET Images :
             LET analyzed == Images \ (bad \union opaque)
                 refused  == {i \in analyzed : disk[i].functions # 0}
                 failing  == unpublished \ refused
                 outcome(i) == IF i \in bad THEN "failed"
                               ELSE IF i \in opaque THEN "opaque" ELSE "analyzed"
                 thumb(i) == IF i \in badThumb THEN "error"
                             ELSE IF i \in hasThumb THEN "ok" ELSE "none"
             IN /\ bad \cap opaque = {} /\ badThumb \subseteq analyzed
                /\ hasThumb \subseteq analyzed \ badThumb
                /\ refused \subseteq unpublished /\ unpublished \subseteq analyzed
                /\ Fault({<<"run", i>> : i \in bad \union badThumb}
                         \union {<<"publish", i>> : i \in failing})
                /\ report' = TRUE /\ haveRows' = TRUE
                /\ res' = [i \in Images |->
                             [Fresh EXCEPT !.outcome = outcome(i), !.thumb = thumb(i)]]
                /\ row' = FromResults(res')
                /\ contexts' = analyzed \ unpublished
                /\ disk' = [i \in Images |-> IF i \in contexts'
                                             THEN Publish(i, thumb(i)) ELSE disk[i]]
                /\ Push([decompile |-> Verdict(bad \union badThumb \union unpublished),
                         exception_roots |-> "ok", pal_tasks |-> "ok", pal_messages |-> "ok"])
    /\ UNCHANGED <<kept, afterPass1>>

(***************************************************************************)
(* Thumb bodies. A sweep reads every image with a thumb_functions.json on  *)
(* disk, whichever run wrote it; one that the analysis reported and that   *)
(* is not there is an error. A sweep's error is never cleared.             *)
(***************************************************************************)
Sweep(bad, name) ==
    LET present == {i \in Images : disk[i].thumb # 0}
        lost    == {i \in Images \ present : res[i].thumb = "ok"}
    IN /\ bad \subseteq present /\ Fault({<<name, i>> : i \in bad})
       /\ res' = [i \in Images |->
                    [res[i] EXCEPT !.enriched = @ \/ i \in present \ bad,
                                   !.enrichError = @ \/ i \in bad \union lost]]
       /\ disk' = [i \in Images |-> IF i \in present \ bad
                                    THEN [disk[i] EXCEPT !.thumb = @ + 1] ELSE disk[i]]
       /\ Push([s \in {name} |-> Verdict(bad \union lost)])

ThumbEnrich ==
    /\ Step("ThumbEnrich") /\ Continue
    /\ \/ /\ opts.noThumb /\ Fault({}) /\ Push([thumb_enrich |-> "skipped"])
          /\ UNCHANGED <<res, row, disk>>
       \/ /\ ~opts.noThumb /\ report
          /\ \E bad \in SUBSET Images : Sweep(bad, "thumb_enrich")
          /\ Rows(FromResults(res'))
       \/ /\ ~opts.noThumb /\ ~report /\ Fault({})
          /\ Push([s \in {"thumb_enrich"}
                       \union (IF opts.noSymbol THEN {} ELSE {"thumb_enrich_post_pass2"})
                   |-> "skipped"])
          /\ UNCHANGED <<res, row, disk>>
    /\ UNCHANGED <<report, haveRows, kept, contexts, afterPass1>>

(***************************************************************************)
(* MAIN's traces and sources, tokens                                       *)
(***************************************************************************)
DebugTraces ==
    /\ Step("DebugTraces") /\ Continue
    /\ \/ /\ Main \notin Images /\ Fault({})
          /\ Push([debug_traces |-> "skipped", debug_traces_refs |-> "skipped"])
          /\ UNCHANGED <<kept, row>>
       \/ /\ Main \in Images /\ Fault({"debug_traces"})
          /\ Push([debug_traces |-> "failed", debug_traces_refs |-> "skipped"])
          /\ UNCHANGED <<kept, row>>
       \/ \E refs \in Statuses :
             /\ Main \in Images
             /\ Fault(IF refs = "failed" THEN {"debug_traces_refs"} ELSE {})
             /\ Push([debug_traces |-> "ok", debug_traces_refs |-> refs])
             /\ kept' = Keep("dbt", {Main}, [i \in Images |-> "counted"])
             /\ Rows(Reapply(row, {"dbt"}, kept'))
    /\ UNCHANGED <<report, res, haveRows, disk, contexts, afterPass1>>

\* Stages that write only what no stage here reads, each with its entry;
\* the sources want MAIN, and their attribution MAIN's functions too.
Idle == Lacking
        \union (IF Main \in Images THEN {} ELSE {"source_tree", "source_attribution"})
        \union {s \in {"source_attribution"} :
                   \E i \in Images : i = Main /\ disk[i].functions = 0}

Side(names) ==
    \E bad \in SUBSET (names \ Idle) :
        /\ Fault(bad)
        /\ Push([s \in names |-> IF s \in Idle THEN "skipped"
                                 ELSE IF s \in bad THEN "failed" ELSE "ok"])

SideStages ==
    /\ \/ Step("SourceTree") /\ Side({"source_tree", "source_attribution"})
       \/ Step("DecodeTokens") /\ Side({"decode_tokens"})
       \/ Step("Decoders") /\ Side({"decode_rf", "hardware_config"})
    /\ Continue
    /\ UNCHANGED <<report, res, haveRows, row, kept, disk, contexts, afterPass1>>

StartupMetadata ==
    /\ Step("StartupMetadata") /\ Continue
    /\ \/ /\ ~report /\ Fault({}) /\ Push([startup_metadata |-> "skipped"])
          /\ UNCHANGED <<kept, row>>
       \/ /\ report
          /\ \E found, bad \in SUBSET {i \in Images : res[i].outcome = "analyzed"} :
                LET tried == {i \in Images : res[i].outcome = "analyzed"}
                    lost  == {i \in tried : disk[i].functions = 0}
                    of(i) == IF i \in bad \union lost THEN "failed"
                             ELSE IF i \in found THEN "present" ELSE "skipped"
                IN /\ found \cap bad = {} /\ Fault({<<"startup", i>> : i \in bad})
                   /\ kept' = Keep("startup", Images, [i \in Images |-> of(i)])
                   /\ Rows(Reapply(row, {"startup"}, kept'))
                   /\ Push([startup_metadata |-> Verdict(bad \union lost)])
    /\ UNCHANGED <<report, res, haveRows, disk, contexts, afterPass1>>

(***************************************************************************)
(* Symbol maps: one snapshot per current image, and a function map from    *)
(* it. build_map's string-reference tier needs globals.json, which must    *)
(* not exist yet (see NoGuessesInMaps).                                    *)
(***************************************************************************)
SymbolMap ==
    /\ Step("SymbolMap") /\ Continue
    /\ \/ /\ opts.noSymbol /\ Fault({}) /\ Push([symbol_map |-> "skipped"])
          /\ UNCHANGED <<snap, maps, kept, row>>
       \/ /\ ~opts.noSymbol
          /\ \E noSnap, noMap, named \in SUBSET contexts :
                /\ noSnap \cap noMap = {} /\ named \cap (noSnap \union noMap) = {}
                /\ Fault({<<"snap", i>> : i \in noSnap} \union {<<"map", i>> : i \in noMap})
                /\ snap' = contexts \ noSnap
                /\ maps' = [maps EXCEPT !["function"] = named]
                /\ kept' = Keep("ss", snap' \ noMap, [i \in Images |-> "symbol_map"])
                /\ Rows(Reapply(row, {"ss"}, kept'))
                /\ Push([symbol_map |-> IF noSnap \union noMap # {} THEN "failed"
                                        ELSE IF named = {} THEN "skipped" ELSE "ok"])
    /\ UNCHANGED <<opts, report, res, retained, haveRows, disk, contexts, scheduled, pruned>>

(***************************************************************************)
(* Globals and their shapes                                                *)
(***************************************************************************)
RecordOnly ==
    [s \in {"decompile_pass2", "globals_apply", "startup_metadata_apply",
            "global_types_apply", "thumb_enrich_post_pass2"} |-> "skipped"]

RunGlobals ==
    /\ Step("RunGlobals") /\ Continue
    /\ LET active == {i \in Current(Images) : res[i].outcome # "opaque"}
           empty  == {i \in active : disk[i].functions = 0}
       IN \E bad, found \in SUBSET (active \ empty) :
             LET done == active \ (empty \union bad)
                 verdict == [s \in {"globals"} |-> Verdict(bad \union empty)]
             IN /\ bad \cap found = {}
                /\ Fault({<<"globals", i>> : i \in bad})
                /\ res' = [i \in Images |->
                             [res[i] EXCEPT !.globals = IF i \in done THEN "ok"
                                                        ELSE IF i \in active THEN "error" ELSE @]]
                /\ disk' = [i \in Images |-> IF i \in done
                                             THEN [disk[i] EXCEPT !.globals = @ + 1]
                                             ELSE disk[i]]
                /\ IF opts.noSymbol
                   THEN /\ Push([s \in DOMAIN verdict \union DOMAIN RecordOnly |->
                                   IF s = "globals" THEN verdict[s] ELSE RecordOnly[s]])
                        /\ Rows(IF report THEN Reapply(FromResults(res'),
                                                       {"dbt", "startup", "ss"}, kept)
                                ELSE row)
                        /\ UNCHANGED maps
                   ELSE /\ Push(verdict)
                        /\ maps' = [maps EXCEPT !["global"] = found]
                        /\ UNCHANGED row
    /\ UNCHANGED <<opts, report, retained, haveRows, kept, contexts, snap, scheduled, pruned>>

\* One sweep. Its results replace the kept ones and its entry replaces the
\* entry of the sweep before.
HasResult == report \/ retained
ShapesCurrent(i) ==
    /\ HasResult /\ res[i].outcome = "analyzed"
    /\ res[i].thumb # "error" /\ res[i].globals = "ok"

RecordShapes(status) == stages' = [stages EXCEPT !.global_shapes = <<status>>]

ShapesSweep ==
    \/ /\ ~haveRows /\ Fault({}) /\ RecordShapes("skipped")
       /\ kept' = Keep("shapes", Images, [i \in Images |-> "none"])
       /\ UNCHANGED <<row, disk>>
    \/ /\ haveRows
       /\ \E bad \in SUBSET {i \in Images : ShapesCurrent(i)} :
             LET of == [i \in Images |->
                          IF ShapesCurrent(i) /\ i \notin bad THEN "ok"
                          ELSE IF HasResult /\ res[i].outcome = "opaque" THEN "none"
                          ELSE "failed"]
             IN /\ Fault({<<"shapes", i>> : i \in bad})
                /\ kept' = Keep("shapes", Images, of)
                /\ row' = [i \in Images |-> [row[i] EXCEPT !.kept.shapes = of[i]]]
                /\ disk' = [i \in Images |-> IF of[i] = "ok"
                                             THEN [disk[i] EXCEPT !.shapes = Inputs(i)]
                                             ELSE disk[i]]
                /\ RecordShapes(Verdict({i \in Images : of[i] = "failed"}))

GlobalShapes ==
    /\ Step("RunGlobalShapes") \/ Step("RefreshGlobalShapes")
    /\ Continue /\ ShapesSweep
    /\ UNCHANGED <<opts, report, res, retained, haveRows, contexts, snap, maps,
                   scheduled, pruned>>

(***************************************************************************)
(* Pass 2                                                                  *)
(***************************************************************************)
PresentStartup == {i \in snap : kept[i].startup = "present"}

\* Images whose prepared maps have no snapshot to bind them.
Unbound(types) == (maps["global"] \union types) \ snap

\* Mutants of Schedule: maps dispatched without a snapshot of their image.
MutSchedule(types, unmatched) ==
    (maps["function"] \ unmatched) \union maps["global"] \union types \union PresentStartup

\* unmatched: images whose function map does not bind to the snapshot.
Schedule(types, unmatched) ==
    snap \cap ((maps["function"] \ unmatched) \union maps["global"]
               \union types \union PresentStartup)

\* Mutant of Pass2Stage: errors dropped.
MutPass2Stage(sched, errors) == IF sched = {} THEN "skipped" ELSE "ok"
Pass2Stage(sched, errors) ==
    IF sched = {} THEN "skipped" ELSE Verdict(errors)

\* globals_apply, startup_metadata_apply and global_types_apply alike.
ApplyStage(S, some, rs) ==
    IF S = {} THEN "skipped"
    ELSE IF some /\ \A i \in S : rs[i].pass2 = "ok" THEN "ok" ELSE "failed"

ApplyStages(some, rs, pass2) ==
    Push([decompile_pass2 |-> pass2,
          globals_apply |-> ApplyStage(maps["global"], some, rs),
          startup_metadata_apply |-> ApplyStage(PresentStartup, some, rs)])

\* run_two_pass and the refresh of one image's trio: the process or the
\* refresh fails, or an apply script gives no summary, or all is well.
RunTwoPass(sched, errors, unbound) ==
    \E failed, partial \in SUBSET sched :
        /\ failed \cap partial = {}
        /\ Fault({<<"pass2", i>> : i \in failed \union partial} \union errors)
        /\ res' = [i \in Images |-> [res[i] EXCEPT !.pass2 =
                     IF i \in failed THEN "failed" ELSE IF i \in partial THEN "partial"
                     ELSE IF i \in sched THEN "ok" ELSE "none"]]
        /\ disk' = [i \in Images |-> IF i \in sched \ failed
                                     THEN [disk[i] EXCEPT !.functions = @ + 1, !.text = "raw"]
                                     ELSE disk[i]]
        /\ ApplyStages(TRUE, res', Pass2Stage(sched, errors \union
                               {<<"pass2", i>> : i \in failed \union unbound}))

DispatchPass2 ==
    /\ Step("DispatchPass2") /\ Continue
    /\ \E types \in SUBSET {i \in Images : HasShapes(i) /\ ~opts.noTypes},
          unmatched \in SUBSET maps["function"] :
          LET sched  == Schedule(types, unmatched)
              errors == {<<"bind", i>> : i \in unmatched}
          IN /\ maps' = [maps EXCEPT !["types"] = types] /\ scheduled' = sched
             /\ \/ /\ ~report \/ sched = {}
                   /\ Fault(errors) /\ ApplyStages(report, res, Pass2Stage(sched, errors))
                   /\ UNCHANGED <<report, retained, res, disk, row>>
                \/ /\ report /\ sched # {}
                   /\ Fault(errors \union {<<"two_pass", "">>})
                   /\ report' = FALSE /\ retained' = TRUE
                   /\ ApplyStages(FALSE, res, "failed") /\ Rows(FromResults(res))
                   /\ UNCHANGED <<res, disk>>
                \/ /\ report /\ sched # {}
                   /\ RunTwoPass(sched, errors, Unbound(types))
                   /\ UNCHANGED <<report, retained, row>>
    /\ UNCHANGED <<opts, haveRows, kept, contexts, snap, pruned>>

\* The end of the same step: the second enrichment, the last rebuild of the
\* rows, and the kept outcomes put back on them.
PostPass2 ==
    /\ Step("PostPass2") /\ Continue
    /\ \/ /\ ~report /\ Fault({}) /\ UNCHANGED <<stages, res, disk>>
       \/ /\ report /\ opts.noThumb /\ Fault({})
          /\ Push([thumb_enrich_post_pass2 |-> "skipped"]) /\ UNCHANGED <<res, disk>>
       \/ /\ report /\ ~opts.noThumb
          /\ \E bad \in SUBSET Images : Sweep(bad, "thumb_enrich_post_pass2")
    /\ Rows(Reapply(IF report THEN FromResults(res') ELSE row, Groups \ {"types"}, kept))
    /\ UNCHANGED <<report, haveRows, kept, contexts, afterPass1>>

ApplyGlobalTypes ==
    /\ Step("ApplyGlobalTypes") /\ Continue /\ Fault({})
    /\ LET of == [i \in Images |-> IF report /\ res[i].pass2 = "ok" THEN "applied" ELSE "failed"]
       IN /\ kept' = Keep("types", maps["types"], of)
          /\ Rows(Reapply(row, {"types"}, kept'))
    /\ Push([global_types_apply |->
               IF opts.noTypes THEN "skipped" ELSE ApplyStage(maps["types"], report, res)])
    /\ UNCHANGED <<report, res, haveRows, disk, contexts, afterPass1>>

(***************************************************************************)
(* symbolicate_finalize over every current image, in order, until one      *)
(* fails; the first sweep that reports on an image's tables is the one     *)
(* that its row keeps.                                                     *)
(***************************************************************************)
\* An image whose rewrite stopped short has functions.json but not symbols.json.
Stamp(d, whole, text) ==
    [d EXCEPT !.functions = @ + 1, !.thumb = IF @ = 0 THEN 0 ELSE @ + 1,
              !.symbols = IF whole THEN d.functions + 1 ELSE @,
              !.text = IF ~text \/ d.text # "raw" THEN @
                       ELSE IF d.globals = 0 THEN "named" ELSE "full"]

MergeSs(S) == Keep("ss", {i \in S : kept[i].ss = "none"}, [i \in Images |-> "finalize"])

Finalize ==
    LET text == Step("FinalizeText") IN
    /\ Step("Finalize") \/ text
    /\ Continue
    /\ \/ /\ Fault({})
          /\ disk' = [i \in Images |-> IF i \in contexts THEN Stamp(disk[i], TRUE, text) ELSE disk[i]]
          /\ kept' = MergeSs(contexts) /\ Rows(Reapply(row, {"ss"}, kept'))
          /\ Push([symbolicate_finalize |-> "ok"])
       \/ \E whole, torn \in SUBSET contexts :
             /\ whole \cap torn = {} /\ whole # contexts /\ Cardinality(torn) <= 1
             /\ Fault({"finalize"})
             /\ disk' = [i \in Images |-> IF i \in whole \union torn
                                          THEN Stamp(disk[i], i \in whole, text) ELSE disk[i]]
             /\ Push([symbolicate_finalize |-> "failed"])
             /\ UNCHANGED <<kept, row>>
    /\ UNCHANGED <<report, res, haveRows, contexts, afterPass1>>

RunPrune ==
    /\ Step("Prune") /\ Continue
    /\ \/ ~opts.prune /\ Fault({}) /\ UNCHANGED <<stages, pruned>>
       \/ opts.prune /\ Fault({}) /\ pruned' = TRUE /\ UNCHANGED stages
       \/ opts.prune /\ Fault({"prune"}) /\ Push([prune |-> "failed"]) /\ UNCHANGED pruned
    /\ UNCHANGED <<opts, report, res, retained, haveRows, row, kept, disk, contexts,
                   snap, maps, scheduled>>

Next ==
    \/ Extract \/ LocateRootfs \/ RunDecompile \/ ThumbEnrich \/ DebugTraces
    \/ SideStages \/ StartupMetadata \/ SymbolMap \/ RunGlobals \/ GlobalShapes
    \/ DispatchPass2 \/ PostPass2 \/ ApplyGlobalTypes \/ Finalize \/ RunPrune

Spec == Init /\ [][Next]_vars

(***************************************************************************)
(* Properties                                                              *)
(***************************************************************************)
Done      == todo = <<>>
Reached(s) == \E k \in 1..Len(stages[s]) : stages[s][k] # "skipped"
Failed(s)  == \E k \in 1..Len(stages[s]) : stages[s][k] = "failed"
ReportOk  == \A s \in Stages : ~Failed(s)

\* Every variable stays in its type; a file never loses its version.
TypeOK ==
    /\ opts \in Options
    /\ faults \in 0..MaxFaults
    /\ \A s \in Stages : \A k \in 1..Len(stages[s]) : stages[s][k] \in Statuses
    /\ report \in BOOLEAN /\ retained \in BOOLEAN /\ haveRows \in BOOLEAN
    /\ pruned \in BOOLEAN /\ ~(report /\ retained)
    /\ \A i \in Images :
          /\ res[i].outcome \in {"analyzed", "opaque", "failed"}
          /\ res[i].thumb \in {"none", "ok", "error"}
          /\ kept[i].dbt \in {"none", "counted"}
          /\ kept[i].startup \in {"none", "present", "skipped", "failed"}
          /\ kept[i].ss \in {"none", "symbol_map", "finalize"}
          /\ kept[i].shapes \in {"none", "ok", "failed"}
          /\ kept[i].types \in {"none", "applied", "failed"}
    /\ contexts \subseteq Images /\ snap \subseteq contexts
    /\ scheduled \subseteq snap

\* report.json carries what the run learnt: when the pipeline ends, each row
\* is the last state of its ImageResult with every kept outcome on it, though
\* the rows were rebuilt (and those fields nulled) up to three times.
RowsAreCurrent ==
    Done /\ haveRows => \A i \in Images : row[i] = [base |-> res[i], kept |-> kept[i]]

\* A row that reports shapes belongs to a global_shapes.json that binds the
\* functions, Thumb functions and globals that the tree ends with; and a
\* sidecar that later rewrites left behind never comes with a report that says ok.
ShapesBindFinal ==
    Done /\ haveRows => \A i \in Images :
        /\ row[i].kept.shapes = "ok" => disk[i].shapes = Inputs(i)
        /\ ReportOk /\ i \in contexts /\ HasShapes(i) => disk[i].shapes = Inputs(i)

\* symbols.json names the digest of the functions.json beside it, unless the
\* finalization that wrote last has failed.
SymbolsBindFinal ==
    Done /\ Reached("symbolicate_finalize") =>
        LET f == stages["symbolicate_finalize"] IN
        f[Len(f)] = "ok" => \A i \in contexts : disk[i].symbols = disk[i].functions

\* Both sidecars that rewrites could overtake bind the tree's final files, in
\* states whose variables all have their types.
BindingsOK == TypeOK /\ ShapesBindFinal /\ SymbolsBindFinal

\* When the maps for Ghidra are built no current image has a globals.json,
\* not even an earlier run's: no string-reference guess becomes a Ghidra name.
NoGuessesInMaps ==
    Step("SymbolMap") => \A i \in contexts : disk[i].globals = 0

\* On the route without a symbol pass decompiled.c, which can be rewritten
\* once, is rewritten with the names that globals.json adds, or the globals
\* of that image are reported as failed.
TextHasAllNames ==
    Done /\ opts.noSymbol => \A i \in contexts :
        disk[i].text = "named" => res[i].globals = "error"

\* globals.json comes after the maps and before the last rewrite: both of the
\* above.
GlobalsInOrder == NoGuessesInMaps /\ TextHasAllNames

\* Maps derived from a tree that is not this run's (its export could not be
\* published over it) stay out of the second pass, and say so.
ForeignTreeStaysOut ==
    Done => /\ \A i \in scheduled : disk[i].functions >= 2
            /\ ReportOk => \A i \in maps["global"] \union maps["types"] : i \in snap

\* ok means ok: no row of a successful report holds a failure, and a requested
\* sweep was done.
OkIsHonest ==
    Done /\ ReportOk =>
        /\ opts.prune => pruned
        /\ haveRows /\ \A i \in Images :
              /\ row[i].base.outcome # "failed" /\ row[i].base.thumb # "error"
              /\ ~row[i].base.enrichError /\ row[i].base.globals # "error"
              /\ row[i].base.pass2 # "failed"
              /\ \A g \in Groups : row[i].kept[g] # "failed"

\* decompile_pass2_stage_fails_function_only_errors: when the function map of
\* an image does not reach the second pass, the report is not ok.
NoMapLost ==
    Done /\ ReportOk => maps["function"] \subseteq scheduled

=============================================================================
