------------------------ MODULE DecomposeRoute_proofs ------------------------
(***************************************************************************)
(* Proofs about DecomposeRoute for every set of images and every bound on  *)
(* failures: the rows of the report, what the sidecars bind, the order of  *)
(* the globals, the foreign trees and the honesty of an ok report.         *)
(***************************************************************************)
EXTENDS DecomposeRoute, FiniteSetTheorems, TLAPS

-----------------------------------------------------------------------------
(* Where the run is. Each step occurs once on each of the two routes, so    *)
(* its name says how far the run has come.                                 *)

At == IF todo = <<>> THEN "end" ELSE Head(todo)

StepNames == {"Extract", "LocateRootfs", "Decompile", "ThumbEnrich", "DebugTraces",
              "SourceTree", "DecodeTokens", "StartupMetadata", "SymbolMap", "Finalize",
              "RunGlobals", "FinalizeText", "RunGlobalShapes", "DispatchPass2",
              "PostPass2", "ApplyGlobalTypes", "RefreshGlobalShapes", "Decoders", "Prune"}

\* What is left is the end of the pipeline, unless the run was stopped.
TodoInv ==
    LET P == Pipeline(opts.noSymbol) IN
    /\ todo \in Seq(StepNames) /\ Len(todo) <= Len(P)
    /\ \A j \in 1 .. Len(todo) : todo[j] = P[Len(P) - Len(todo) + j]

Start      == {"Extract", "LocateRootfs", "Decompile"}
BeforeMaps == Start \cup {"ThumbEnrich", "DebugTraces", "SourceTree", "DecodeTokens",
                          "StartupMetadata", "SymbolMap"}
Final      == {"Decoders", "Prune", "end"}

\* Pass 2 has been dispatched; the global types have been applied.
Dispatched == /\ ~opts.noSymbol
              /\ At \in {"PostPass2", "ApplyGlobalTypes", "Finalize",
                         "RefreshGlobalShapes"} \cup Final
Typed      == ~opts.noSymbol /\ At \in {"Finalize", "RefreshGlobalShapes"} \cup Final

\* The globals have been recovered; a first sweep has swept the shapes.
Globaled == /\ At \notin BeforeMaps /\ At # "RunGlobals"
            /\ ~(opts.noSymbol /\ At = "Finalize")
Swept    == IF opts.noSymbol THEN At \in Final
            ELSE Dispatched \/ At = "DispatchPass2"

\* The finalization has been run once.
Finalized == IF opts.noSymbol
             THEN At \in {"RunGlobals", "FinalizeText", "RunGlobalShapes"} \cup Final
             ELSE At \in {"RefreshGlobalShapes"} \cup Final

-----------------------------------------------------------------------------
(* The inductive invariant.                                                *)

Results == [outcome : {"analyzed", "opaque", "failed"}, thumb : {"none", "ok", "error"},
            enriched : BOOLEAN, enrichError : BOOLEAN, globals : {"none", "ok", "error"},
            pass2 : {"none", "ok", "failed", "partial"}]
Kepts == [dbt : {"none", "counted"}, startup : {"none", "present", "skipped", "failed"},
          ss : {"none", "symbol_map", "finalize"}, shapes : {"none", "ok", "failed"},
          types : {"none", "applied", "failed"}]
Trees == [functions : Nat, thumb : Nat, globals : Nat,
          text : {"none", "raw", "named", "full"}, symbols : Nat,
          shapes : Nat \X Nat \X Nat]

ShapeInv ==
    /\ opts \in Options /\ faults \in 0 .. MaxFaults
    /\ stages \in [Stages -> Seq(Statuses)]
    /\ report \in BOOLEAN /\ retained \in BOOLEAN /\ haveRows \in BOOLEAN
    /\ pruned \in BOOLEAN
    /\ res \in [Images -> Results]
    /\ row \in [Images -> [base : Results, kept : Kepts]]
    /\ kept \in [Images -> Kepts]
    /\ disk \in [Images -> Trees]
    /\ contexts \subseteq Images /\ snap \subseteq contexts /\ scheduled \subseteq snap
    /\ maps \in [{"function", "global", "types"} -> SUBSET Images]

\* Who holds the results, and whose trees are this run's.
ReportInv ==
    /\ haveRows <=> report \/ retained
    /\ ~(report /\ retained)
    /\ At \in Start => ~haveRows /\ contexts = {}
    /\ contexts # {} => haveRows
    /\ \A i \in contexts : res[i].outcome = "analyzed" /\ disk[i].functions >= 2
    /\ ~Dispatched => /\ ~retained /\ scheduled = {} /\ maps["types"] = {}
                      /\ \A i \in Images : res[i].pass2 = "none"
    /\ opts.noSymbol => maps["global"] = {}

\* When a row holds the whole of what is known of its image.
RowInv ==
    haveRows => \A i \in Images :
        /\ At = "PostPass2" /\ ~report => row[i] = [base |-> res[i], kept |-> Nulls]
        /\ ~(At = "PostPass2" /\ ~report) => row[i].kept = kept[i]
        /\ \/ ~opts.noSymbol /\ At \in {"RunGlobalShapes", "DispatchPass2"}
           \/ At = "PostPass2" /\ report
           \/ row[i].base = res[i]

\* Outcomes are kept no sooner than their stage has run.
KeptInv ==
    \A i \in Images :
        /\ At \in Start \cup {"ThumbEnrich", "DebugTraces"} => kept[i] = Nulls
        /\ ~Swept => kept[i].shapes = "none"
        /\ ~Typed => kept[i].types = "none"

\* globals.json and the text that its names go into.
GlobalsInv ==
    \A i \in contexts :
        /\ At \in BeforeMaps => disk[i].globals = 0
        /\ Globaled => /\ res[i].globals # "none"
                       /\ disk[i].globals > 0 \/ res[i].globals = "error"
        /\ opts.noSymbol =>
             /\ At \in BeforeMaps \cup {"Finalize", "RunGlobals", "FinalizeText"} =>
                  disk[i].text = "raw"
             /\ disk[i].text = "named" => res[i].globals = "error"

\* Every stage but the shapes' has done well so far.
OthersOk == \A s \in Stages \ {"global_shapes"} : ~Failed(s)

\* What the sidecars bind.
BindInv ==
    /\ ~Finalized => stages["symbolicate_finalize"] = <<>>
    /\ LET f == stages["symbolicate_finalize"] IN
       f # <<>> /\ f[Len(f)] = "ok" =>
           \A i \in contexts : disk[i].symbols = disk[i].functions
    /\ At \in Final /\ haveRows => \A i \in Images :
           /\ kept[i].shapes = "ok" => disk[i].shapes = Inputs(i)
           /\ ReportOk /\ i \in contexts => kept[i].shapes = "ok"

\* A failure is either in an entry of its stage or has not happened.
HonestInv ==
    /\ OthersOk /\ At \notin Start =>
         haveRows /\ \A i \in Images : res[i].outcome # "failed" /\ res[i].thumb # "error"
    /\ OthersOk => \A i \in Images :
         /\ ~res[i].enrichError /\ res[i].globals # "error" /\ res[i].pass2 # "failed"
         /\ kept[i].startup # "failed" /\ kept[i].types # "failed"
    /\ ~Failed("global_shapes") => \A i \in Images : kept[i].shapes # "failed"
    /\ At = "end" /\ OthersOk /\ opts.prune => pruned

\* Maps without a snapshot do not get past the second pass unreported.
MapsInv ==
    /\ opts.noTypes => maps["types"] = {}
    /\ Dispatched /\ OthersOk =>
         /\ maps["global"] \subseteq snap
         /\ \A i \in maps["types"] \ snap : res[i].pass2 # "ok"
    /\ Typed /\ OthersOk => maps["types"] \subseteq snap

IInv == /\ ShapeInv /\ TodoInv /\ ReportInv /\ RowInv /\ KeptInv /\ GlobalsInv
        /\ BindInv /\ HonestInv /\ MapsInv

-----------------------------------------------------------------------------
(* The two routes.                                                         *)

\* From each step to the one that follows it.
Edge(ns, s, t) ==
    \/ s = "Extract" /\ t = "LocateRootfs"
    \/ s = "LocateRootfs" /\ t = "Decompile"
    \/ s = "Decompile" /\ t = "ThumbEnrich"
    \/ s = "ThumbEnrich" /\ t = "DebugTraces"
    \/ s = "DebugTraces" /\ t = "SourceTree"
    \/ s = "SourceTree" /\ t = "DecodeTokens"
    \/ s = "DecodeTokens" /\ t = "StartupMetadata"
    \/ s = "StartupMetadata" /\ t = "SymbolMap"
    \/ s = "SymbolMap" /\ t = (IF ns THEN "Finalize" ELSE "RunGlobals")
    \/ s = "Finalize" /\ t = (IF ns THEN "RunGlobals" ELSE "RefreshGlobalShapes")
    \/ s = "RunGlobals" /\ t = (IF ns THEN "FinalizeText" ELSE "RunGlobalShapes")
    \/ s = "FinalizeText" /\ t = "RunGlobalShapes"
    \/ s = "RunGlobalShapes" /\ t = (IF ns THEN "Decoders" ELSE "DispatchPass2")
    \/ s = "DispatchPass2" /\ t = "PostPass2"
    \/ s = "PostPass2" /\ t = "ApplyGlobalTypes"
    \/ s = "ApplyGlobalTypes" /\ t = "Finalize"
    \/ s = "RefreshGlobalShapes" /\ t = "Decoders"
    \/ s = "Decoders" /\ t = "Prune"
    \/ s = "Prune" /\ t = "end"

\* The steps of one route alone.
Foreign(ns) == IF ns THEN {"DispatchPass2", "PostPass2", "ApplyGlobalTypes",
                           "RefreshGlobalShapes"}
               ELSE {"FinalizeText"}

LEMMA Joined ==
    ASSUME NEW a \in Seq(StepNames), NEW b \in Seq(StepNames), NEW c \in Seq(StepNames),
           NEW e, e = a \o b \o c
    PROVE  /\ e \in Seq(StepNames) /\ Len(e) = Len(a) + Len(b) + Len(c)
           /\ \A i \in 1 .. Len(a) : e[i] = a[i]
           /\ \A i \in 1 .. Len(b) : e[Len(a) + i] = b[i]
           /\ \A i \in 1 .. Len(c) : e[Len(a) + Len(b) + i] = c[i]
  <1> DEFINE d == a \o b
  <1>1. d \in Seq(StepNames) OBVIOUS
  <1>2. Len(d) = Len(a) + Len(b) OBVIOUS
  <1>3. \A i \in 1 .. Len(a) : d[i] = a[i] OBVIOUS
  <1>4. \A i \in 1 .. Len(b) : d[Len(a) + i] = b[i] OBVIOUS
  <1>5. Len(a) \in Nat /\ Len(b) \in Nat /\ Len(c) \in Nat OBVIOUS
  <1>6. e = d \o c OBVIOUS
  <1>7. /\ e \in Seq(StepNames) /\ Len(e) = Len(d) + Len(c)
        /\ \A i \in 1 .. Len(d) : e[i] = d[i]
        /\ \A i \in 1 .. Len(c) : e[Len(d) + i] = c[i]
    <2> HIDE DEF d
    <2>1. e \in Seq(StepNames) BY <1>1, <1>6
    <2>2. Len(e) = Len(d) + Len(c) BY <1>1, <1>6
    <2>3. \A i \in 1 .. Len(d) : e[i] = d[i] BY <1>1, <1>6
    <2>4. \A i \in 1 .. Len(c) : e[Len(d) + i] = c[i] BY <1>1, <1>6
    <2> QED BY <2>1, <2>2, <2>3, <2>4
  <1> HIDE DEF d
  <1>8. \A i \in 1 .. Len(a) : e[i] = a[i]
    <2> TAKE i \in 1 .. Len(a)
    <2>1. i \in 1 .. Len(d) BY <1>2, <1>5
    <2> QED BY <1>3, <1>7, <2>1
  <1>9. \A i \in 1 .. Len(b) : e[Len(a) + i] = b[i]
    <2> TAKE i \in 1 .. Len(b)
    <2>1. Len(a) + i \in 1 .. Len(d) BY <1>2, <1>5
    <2> QED BY <1>4, <1>7, <2>1
  <1> QED BY <1>2, <1>7, <1>8, <1>9

LEMMA Pipelines ==
    /\ Pipeline(TRUE) \in Seq(StepNames) /\ Len(Pipeline(TRUE)) = 15
    /\ LET p == Pipeline(TRUE) IN
       /\ p[1] = "Extract" /\ p[2] = "LocateRootfs" /\ p[3] = "Decompile"
       /\ p[4] = "ThumbEnrich" /\ p[5] = "DebugTraces" /\ p[6] = "SourceTree"
       /\ p[7] = "DecodeTokens" /\ p[8] = "StartupMetadata" /\ p[9] = "SymbolMap"
       /\ p[10] = "Finalize" /\ p[11] = "RunGlobals" /\ p[12] = "FinalizeText"
       /\ p[13] = "RunGlobalShapes" /\ p[14] = "Decoders" /\ p[15] = "Prune"
    /\ Pipeline(FALSE) \in Seq(StepNames) /\ Len(Pipeline(FALSE)) = 18
    /\ LET p == Pipeline(FALSE) IN
       /\ p[1] = "Extract" /\ p[2] = "LocateRootfs" /\ p[3] = "Decompile"
       /\ p[4] = "ThumbEnrich" /\ p[5] = "DebugTraces" /\ p[6] = "SourceTree"
       /\ p[7] = "DecodeTokens" /\ p[8] = "StartupMetadata" /\ p[9] = "SymbolMap"
       /\ p[10] = "RunGlobals" /\ p[11] = "RunGlobalShapes"
       /\ p[12] = "DispatchPass2" /\ p[13] = "PostPass2"
       /\ p[14] = "ApplyGlobalTypes" /\ p[15] = "Finalize"
       /\ p[16] = "RefreshGlobalShapes" /\ p[17] = "Decoders" /\ p[18] = "Prune"
  <1> DEFINE a == <<"Extract", "LocateRootfs", "Decompile", "ThumbEnrich",
                "DebugTraces", "SourceTree", "DecodeTokens", "StartupMetadata",
                "SymbolMap">>
             t == <<"Finalize", "RunGlobals", "FinalizeText", "RunGlobalShapes">>
             f == <<"RunGlobals", "RunGlobalShapes", "DispatchPass2", "PostPass2",
                    "ApplyGlobalTypes", "Finalize", "RefreshGlobalShapes">>
             c == <<"Decoders", "Prune">>
  <1>1. /\ a \in Seq(StepNames) /\ Len(a) = 9 /\ t \in Seq(StepNames) /\ Len(t) = 4
        /\ f \in Seq(StepNames) /\ Len(f) = 7 /\ c \in Seq(StepNames) /\ Len(c) = 2
    <2>1. a \in Seq(StepNames) /\ Len(a) = 9 BY DEF StepNames
    <2>2. t \in Seq(StepNames) /\ Len(t) = 4 BY DEF StepNames
    <2>3. f \in Seq(StepNames) /\ Len(f) = 7 BY DEF StepNames
    <2>4. c \in Seq(StepNames) /\ Len(c) = 2 BY DEF StepNames
    <2> HIDE DEF a, t, f, c
    <2> QED BY <2>1, <2>2, <2>3, <2>4
  <1>2. /\ a[1] = "Extract" /\ a[2] = "LocateRootfs" /\ a[3] = "Decompile"
        /\ a[4] = "ThumbEnrich" /\ a[5] = "DebugTraces" /\ a[6] = "SourceTree"
        /\ a[7] = "DecodeTokens" /\ a[8] = "StartupMetadata" /\ a[9] = "SymbolMap"
    OBVIOUS
  <1>3. /\ t[1] = "Finalize" /\ t[2] = "RunGlobals" /\ t[3] = "FinalizeText"
        /\ t[4] = "RunGlobalShapes" /\ f[1] = "RunGlobals"
        /\ f[2] = "RunGlobalShapes" /\ f[3] = "DispatchPass2" /\ f[4] = "PostPass2"
        /\ f[5] = "ApplyGlobalTypes" /\ f[6] = "Finalize"
        /\ f[7] = "RefreshGlobalShapes" /\ c[1] = "Decoders" /\ c[2] = "Prune"
    <2>1. /\ t[1] = "Finalize" /\ t[2] = "RunGlobals" /\ t[3] = "FinalizeText"
          /\ t[4] = "RunGlobalShapes"
      OBVIOUS
    <2>2. /\ f[1] = "RunGlobals" /\ f[2] = "RunGlobalShapes" /\ f[3] = "DispatchPass2"
          /\ f[4] = "PostPass2" /\ f[5] = "ApplyGlobalTypes" /\ f[6] = "Finalize"
          /\ f[7] = "RefreshGlobalShapes"
      OBVIOUS
    <2>3. c[1] = "Decoders" /\ c[2] = "Prune" OBVIOUS
    <2> HIDE DEF t, f, c
    <2> QED BY <2>1, <2>2, <2>3
  <1>4. Pipeline(TRUE) = a \o t \o c /\ Pipeline(FALSE) = a \o f \o c
    BY Zenon DEF Pipeline, Route
  <1> HIDE DEF a, t, f, c
  <1>5. LET p == Pipeline(TRUE) IN
        /\ p \in Seq(StepNames) /\ Len(p) = 15
        /\ \A i \in 1 .. 9 : p[i] = a[i]
        /\ \A i \in 1 .. 4 : p[9 + i] = t[i]
        /\ \A i \in 1 .. 2 : p[13 + i] = c[i]
    <2> DEFINE p == a \o t \o c
    <2>0. p = a \o t \o c OBVIOUS
    <2> HIDE DEF p
    <2>1. /\ p \in Seq(StepNames) /\ Len(p) = Len(a) + Len(t) + Len(c)
          /\ \A i \in 1 .. Len(a) : p[i] = a[i]
          /\ \A i \in 1 .. Len(t) : p[Len(a) + i] = t[i]
          /\ \A i \in 1 .. Len(c) : p[Len(a) + Len(t) + i] = c[i]
      <3>1. a \in Seq(StepNames) /\ t \in Seq(StepNames) /\ c \in Seq(StepNames) BY <1>1
      <3> QED BY <2>0, <3>1, Joined, SMTT(30)
    <2>2. /\ p \in Seq(StepNames) /\ Len(p) = 15
          /\ \A i \in 1 .. 9 : p[i] = a[i]
          /\ \A i \in 1 .. 4 : p[9 + i] = t[i]
          /\ \A i \in 1 .. 2 : p[13 + i] = c[i]
      BY <1>1, <2>1
    <2> QED BY <1>4, <2>2 DEF p
  <1>6. LET p == Pipeline(FALSE) IN
        /\ p \in Seq(StepNames) /\ Len(p) = 18
        /\ \A i \in 1 .. 9 : p[i] = a[i]
        /\ \A i \in 1 .. 7 : p[9 + i] = f[i]
        /\ \A i \in 1 .. 2 : p[16 + i] = c[i]
    <2> DEFINE p == a \o f \o c
    <2>0. p = a \o f \o c OBVIOUS
    <2> HIDE DEF p
    <2>1. /\ p \in Seq(StepNames) /\ Len(p) = Len(a) + Len(f) + Len(c)
          /\ \A i \in 1 .. Len(a) : p[i] = a[i]
          /\ \A i \in 1 .. Len(f) : p[Len(a) + i] = f[i]
          /\ \A i \in 1 .. Len(c) : p[Len(a) + Len(f) + i] = c[i]
      <3>1. a \in Seq(StepNames) /\ f \in Seq(StepNames) /\ c \in Seq(StepNames) BY <1>1
      <3> QED BY <2>0, <3>1, Joined, SMTT(30)
    <2>2. /\ p \in Seq(StepNames) /\ Len(p) = 18
          /\ \A i \in 1 .. 9 : p[i] = a[i]
          /\ \A i \in 1 .. 7 : p[9 + i] = f[i]
          /\ \A i \in 1 .. 2 : p[16 + i] = c[i]
      BY <1>1, <2>1
    <2> QED BY <1>4, <2>2 DEF p
  <1>7. LET p == Pipeline(TRUE) IN
        /\ p[1] = "Extract" /\ p[2] = "LocateRootfs" /\ p[3] = "Decompile"
        /\ p[4] = "ThumbEnrich" /\ p[5] = "DebugTraces" /\ p[6] = "SourceTree"
        /\ p[7] = "DecodeTokens" /\ p[8] = "StartupMetadata" /\ p[9] = "SymbolMap"
        /\ p[10] = "Finalize" /\ p[11] = "RunGlobals" /\ p[12] = "FinalizeText"
        /\ p[13] = "RunGlobalShapes" /\ p[14] = "Decoders" /\ p[15] = "Prune"
    <2> DEFINE p == Pipeline(TRUE)
    <2>1. /\ p[1] = a[1] /\ p[2] = a[2] /\ p[3] = a[3] /\ p[4] = a[4]
          /\ p[5] = a[5] /\ p[6] = a[6] /\ p[7] = a[7] /\ p[8] = a[8]
          /\ p[9] = a[9] /\ p[10] = t[1] /\ p[11] = t[2] /\ p[12] = t[3]
          /\ p[13] = t[4] /\ p[14] = c[1] /\ p[15] = c[2]
      <3>1. /\ \A i \in 1 .. 9 : p[i] = a[i]
            /\ \A i \in 1 .. 4 : p[9 + i] = t[i]
            /\ \A i \in 1 .. 2 : p[13 + i] = c[i]
        BY <1>5
      <3> HIDE DEF p
      <3> QED BY <3>1
    <2> HIDE DEF p
    <2>2. /\ p[1] = "Extract" /\ p[2] = "LocateRootfs" /\ p[3] = "Decompile"
          /\ p[4] = "ThumbEnrich" /\ p[5] = "DebugTraces" /\ p[6] = "SourceTree"
          /\ p[7] = "DecodeTokens" /\ p[8] = "StartupMetadata"
          /\ p[9] = "SymbolMap" /\ p[10] = "Finalize" /\ p[11] = "RunGlobals"
          /\ p[12] = "FinalizeText" /\ p[13] = "RunGlobalShapes"
          /\ p[14] = "Decoders" /\ p[15] = "Prune"
      BY <1>2, <1>3, <2>1
    <2> QED BY <2>2 DEF p
  <1>8. LET p == Pipeline(FALSE) IN
        /\ p[1] = "Extract" /\ p[2] = "LocateRootfs" /\ p[3] = "Decompile"
        /\ p[4] = "ThumbEnrich" /\ p[5] = "DebugTraces" /\ p[6] = "SourceTree"
        /\ p[7] = "DecodeTokens" /\ p[8] = "StartupMetadata" /\ p[9] = "SymbolMap"
        /\ p[10] = "RunGlobals" /\ p[11] = "RunGlobalShapes"
        /\ p[12] = "DispatchPass2" /\ p[13] = "PostPass2"
        /\ p[14] = "ApplyGlobalTypes" /\ p[15] = "Finalize"
        /\ p[16] = "RefreshGlobalShapes" /\ p[17] = "Decoders" /\ p[18] = "Prune"
    <2> DEFINE p == Pipeline(FALSE)
    <2>1. /\ p[1] = a[1] /\ p[2] = a[2] /\ p[3] = a[3] /\ p[4] = a[4]
          /\ p[5] = a[5] /\ p[6] = a[6] /\ p[7] = a[7] /\ p[8] = a[8]
          /\ p[9] = a[9] /\ p[10] = f[1] /\ p[11] = f[2] /\ p[12] = f[3]
          /\ p[13] = f[4] /\ p[14] = f[5] /\ p[15] = f[6] /\ p[16] = f[7]
          /\ p[17] = c[1] /\ p[18] = c[2]
      <3>1. /\ \A i \in 1 .. 9 : p[i] = a[i]
            /\ \A i \in 1 .. 7 : p[9 + i] = f[i]
            /\ \A i \in 1 .. 2 : p[16 + i] = c[i]
        BY <1>6
      <3> HIDE DEF p
      <3> QED BY <3>1
    <2> HIDE DEF p
    <2>2. /\ p[1] = "Extract" /\ p[2] = "LocateRootfs" /\ p[3] = "Decompile"
          /\ p[4] = "ThumbEnrich" /\ p[5] = "DebugTraces" /\ p[6] = "SourceTree"
          /\ p[7] = "DecodeTokens" /\ p[8] = "StartupMetadata"
          /\ p[9] = "SymbolMap" /\ p[10] = "RunGlobals"
          /\ p[11] = "RunGlobalShapes" /\ p[12] = "DispatchPass2"
          /\ p[13] = "PostPass2" /\ p[14] = "ApplyGlobalTypes"
          /\ p[15] = "Finalize" /\ p[16] = "RefreshGlobalShapes"
          /\ p[17] = "Decoders" /\ p[18] = "Prune"
      BY <1>2, <1>3, <2>1
    <2> QED BY <2>2 DEF p
  <1> QED BY <1>5, <1>6, <1>7, <1>8

LEMMA Follows ==
    ASSUME NEW ns \in BOOLEAN, NEW k \in 1 .. Len(Pipeline(ns))
    PROVE  /\ Pipeline(ns)[k] \notin Foreign(ns)
           /\ Edge(ns, Pipeline(ns)[k],
                   IF k = Len(Pipeline(ns)) THEN "end" ELSE Pipeline(ns)[k + 1])
  <1>1. CASE ns = TRUE
    <2> DEFINE p == Pipeline(TRUE)
    <2>0. /\ p[1] = "Extract" /\ p[2] = "LocateRootfs" /\ p[3] = "Decompile"
          /\ p[4] = "ThumbEnrich" /\ p[5] = "DebugTraces" /\ p[6] = "SourceTree"
          /\ p[7] = "DecodeTokens" /\ p[8] = "StartupMetadata" /\ p[9] = "SymbolMap"
          /\ p[10] = "Finalize" /\ p[11] = "RunGlobals" /\ p[12] = "FinalizeText"
          /\ p[13] = "RunGlobalShapes" /\ p[14] = "Decoders" /\ p[15] = "Prune"
      BY Pipelines
    <2>16. Len(p) = 15 BY Pipelines
    <2> HIDE DEF p
    <2> DEFINE Good(x) == /\ p[x] \notin Foreign(TRUE)
                          /\ Edge(TRUE, p[x], IF x = 15 THEN "end" ELSE p[x + 1])
    <2>1. Good(1) BY <2>0 DEF Edge, Foreign
    <2>2. Good(2) BY <2>0 DEF Edge, Foreign
    <2>3. Good(3) BY <2>0 DEF Edge, Foreign
    <2>4. Good(4) BY <2>0 DEF Edge, Foreign
    <2>5. Good(5) BY <2>0 DEF Edge, Foreign
    <2>6. Good(6) BY <2>0 DEF Edge, Foreign
    <2>7. Good(7) BY <2>0 DEF Edge, Foreign
    <2>8. Good(8) BY <2>0 DEF Edge, Foreign
    <2>9. Good(9) BY <2>0 DEF Edge, Foreign
    <2>10. Good(10) BY <2>0 DEF Edge, Foreign
    <2>11. Good(11) BY <2>0 DEF Edge, Foreign
    <2>12. Good(12) BY <2>0 DEF Edge, Foreign
    <2>13. Good(13) BY <2>0 DEF Edge, Foreign
    <2>14. Good(14) BY <2>0 DEF Edge, Foreign
    <2>15. Good(15) BY <2>0 DEF Edge, Foreign
    <2> HIDE DEF Good
    <2>17. k \in 1 .. 15 BY <1>1, <2>16 DEF p
    <2>18. Good(k) BY <2>17, <2>1, <2>2, <2>3, <2>4, <2>5, <2>6, <2>7, <2>8, <2>9, <2>10, <2>11, <2>12, <2>13, <2>14, <2>15
    <2> QED BY <1>1, <2>16, <2>18 DEF Good, p
  <1>2. CASE ns = FALSE
    <2> DEFINE p == Pipeline(FALSE)
    <2>0. /\ p[1] = "Extract" /\ p[2] = "LocateRootfs" /\ p[3] = "Decompile"
          /\ p[4] = "ThumbEnrich" /\ p[5] = "DebugTraces" /\ p[6] = "SourceTree"
          /\ p[7] = "DecodeTokens" /\ p[8] = "StartupMetadata" /\ p[9] = "SymbolMap"
          /\ p[10] = "RunGlobals" /\ p[11] = "RunGlobalShapes"
          /\ p[12] = "DispatchPass2" /\ p[13] = "PostPass2"
          /\ p[14] = "ApplyGlobalTypes" /\ p[15] = "Finalize"
          /\ p[16] = "RefreshGlobalShapes" /\ p[17] = "Decoders" /\ p[18] = "Prune"
      BY Pipelines
    <2>19. Len(p) = 18 BY Pipelines
    <2> HIDE DEF p
    <2> DEFINE Good(x) == /\ p[x] \notin Foreign(FALSE)
                          /\ Edge(FALSE, p[x], IF x = 18 THEN "end" ELSE p[x + 1])
    <2>1. Good(1) BY <2>0 DEF Edge, Foreign
    <2>2. Good(2) BY <2>0 DEF Edge, Foreign
    <2>3. Good(3) BY <2>0 DEF Edge, Foreign
    <2>4. Good(4) BY <2>0 DEF Edge, Foreign
    <2>5. Good(5) BY <2>0 DEF Edge, Foreign
    <2>6. Good(6) BY <2>0 DEF Edge, Foreign
    <2>7. Good(7) BY <2>0 DEF Edge, Foreign
    <2>8. Good(8) BY <2>0 DEF Edge, Foreign
    <2>9. Good(9) BY <2>0 DEF Edge, Foreign
    <2>10. Good(10) BY <2>0 DEF Edge, Foreign
    <2>11. Good(11) BY <2>0 DEF Edge, Foreign
    <2>12. Good(12) BY <2>0 DEF Edge, Foreign
    <2>13. Good(13) BY <2>0 DEF Edge, Foreign
    <2>14. Good(14) BY <2>0 DEF Edge, Foreign
    <2>15. Good(15) BY <2>0 DEF Edge, Foreign
    <2>16. Good(16) BY <2>0 DEF Edge, Foreign
    <2>17. Good(17) BY <2>0 DEF Edge, Foreign
    <2>18. Good(18) BY <2>0 DEF Edge, Foreign
    <2> HIDE DEF Good
    <2>20. k \in 1 .. 18 BY <1>2, <2>19 DEF p
    <2>21. Good(k) BY <2>20, <2>1, <2>2, <2>3, <2>4, <2>5, <2>6, <2>7, <2>8, <2>9, <2>10, <2>11, <2>12, <2>13, <2>14, <2>15, <2>16, <2>17, <2>18
    <2> QED BY <1>2, <2>19, <2>21 DEF Good, p
  <1> QED BY <1>1, <1>2

LEMMA Moves ==
    ASSUME TodoInv, opts.noSymbol \in BOOLEAN, todo # <<>>, todo' = Tail(todo),
           opts' = opts
    PROVE  /\ TodoInv'
           /\ At \notin Foreign(opts.noSymbol)
           /\ Edge(opts.noSymbol, At, At')
  <1> DEFINE P == Pipeline(opts.noSymbol)
             n == Len(todo)
             k == Len(P) - n + 1
  <1>1. P \in Seq(StepNames) /\ Len(P) \in Nat
    <2>1. CASE opts.noSymbol = TRUE
      <3>1. P \in Seq(StepNames) /\ Len(P) = 15 BY <2>1, Pipelines, Zenon
      <3> HIDE DEF P
      <3> QED BY <3>1
    <2>2. CASE opts.noSymbol = FALSE
      <3>1. P \in Seq(StepNames) /\ Len(P) = 18 BY <2>2, Pipelines, Zenon
      <3> HIDE DEF P
      <3> QED BY <3>1
    <2> QED BY <2>1, <2>2
  <1>2. /\ todo \in Seq(StepNames) /\ n <= Len(P)
        /\ \A j \in 1 .. n : todo[j] = P[Len(P) - n + j]
    BY DEF TodoInv
  <1>3. n \in Nat /\ n >= 1 BY <1>2
  <1>4. /\ todo' \in Seq(StepNames) /\ Len(todo') = n - 1
        /\ \A j \in 1 .. n - 1 : todo'[j] = todo[j + 1]
    BY <1>2
  <1>5. P' = P OBVIOUS
  <1> HIDE DEF P
  <1>6. \A j \in 1 .. n - 1 : todo'[j] = P[Len(P) - (n - 1) + j]
    <2> TAKE j \in 1 .. n - 1
    <2>1. j + 1 \in 1 .. n BY <1>3
    <2>2. todo[j + 1] = P[Len(P) - n + (j + 1)] BY <1>2, <2>1
    <2>3. Len(P) - n + (j + 1) = Len(P) - (n - 1) + j BY <1>1, <1>3
    <2> QED BY <1>4, <2>2, <2>3
  <1>7. TodoInv'
    <2>1. /\ todo' \in Seq(StepNames) /\ Len(todo') <= Len(P)
          /\ \A j \in 1 .. Len(todo') : todo'[j] = P[Len(P) - Len(todo') + j]
      BY <1>1, <1>2, <1>3, <1>4, <1>6
    <2> QED BY <1>5, <2>1 DEF TodoInv, P
  <1>8. k \in 1 .. Len(P) BY <1>1, <1>2, <1>3
  <1>9. At = P[k]
    <2>1. At = todo[1] BY <1>2 DEF At
    <2>2. 1 \in 1 .. n BY <1>3
    <2> QED BY <1>2, <2>1, <2>2
  <1>10. At' = IF k = Len(P) THEN "end" ELSE P[k + 1]
    <2>1. CASE n = 1
      <3>1. todo' = <<>> BY <1>4, <2>1
      <3> QED BY <1>1, <2>1, <3>1 DEF At
    <2>2. CASE n # 1
      <3>1. todo' # <<>> /\ 1 \in 1 .. n - 1
        <4>1. n - 1 # 0 /\ 1 \in 1 .. n - 1
          <5> HIDE DEF n
          <5> QED BY <1>3, <2>2
        <4> QED BY <1>4, <4>1
      <3>2. At' = todo'[1] BY <1>4, <3>1 DEF At
      <3>3. todo'[1] = P[Len(P) - (n - 1) + 1] BY <1>6, <3>1
      <3>4. Len(P) - (n - 1) + 1 = k + 1 /\ k # Len(P)
        <4> HIDE DEF n
        <4> QED BY <1>1, <1>3, <2>2
      <3> QED BY <3>2, <3>3, <3>4
    <2> QED BY <2>1, <2>2
  <1> HIDE DEF k, n
  <1> QED BY <1>7, <1>8, <1>9, <1>10, Follows DEF P

-----------------------------------------------------------------------------
(* What steps do to the bounds, the stages and the place of the run.       *)

LEMMA Tagged ==
    ASSUME NEW S \in SUBSET Images, NEW t
    PROVE  IsFiniteSet({<<t, i>> : i \in S})
  <1> DEFINE T == {<<t, i>> : i \in S}
             f == [i \in S |-> <<t, i>>]
  <1>1. IsFiniteSet(S) BY RouteAssumption, FS_Subset
  <1>2. f \in Surjection(S, T)
    <2>1. f \in [S -> T] OBVIOUS
    <2>2. \A y \in T : \E i \in S : f[i] = y OBVIOUS
    <2> QED BY <2>1, <2>2 DEF Surjection
  <1> HIDE DEF f, T
  <1>3. IsFiniteSet(T) BY <1>1, <1>2, FS_Surjection
  <1> QED BY <1>3 DEF T

LEMMA FaultOk ==
    ASSUME faults \in 0 .. MaxFaults, NEW bad, IsFiniteSet(bad), Fault(bad)
    PROVE  faults' \in 0 .. MaxFaults
  <1>1. Cardinality(bad) \in Nat BY FS_CardinalityType
  <1>2. MaxFaults \in Nat BY RouteAssumption
  <1>3. faults + Cardinality(bad) <= MaxFaults /\ faults' = faults + Cardinality(bad)
    BY DEF Fault
  <1> QED BY <1>1, <1>2, <1>3

LEMMA NoFault ==
    ASSUME faults \in 0 .. MaxFaults, Fault({})
    PROVE  faults' \in 0 .. MaxFaults
  BY FS_EmptySet, FaultOk

LEMMA OneFault ==
    ASSUME faults \in 0 .. MaxFaults, NEW x, Fault({x})
    PROVE  faults' \in 0 .. MaxFaults
  <1>1. IsFiniteSet({x}) BY FS_Singleton
  <1> QED BY <1>1, FaultOk

LEMMA Pushes ==
    ASSUME stages \in [Stages -> Seq(Statuses)], NEW entries, DOMAIN entries \subseteq Stages,
           \A s \in DOMAIN entries : entries[s] \in Statuses, Push(entries)
    PROVE  /\ stages' \in [Stages -> Seq(Statuses)]
           /\ \A s \in Stages : Failed(s)' <=>
                  Failed(s) \/ (s \in DOMAIN entries /\ entries[s] = "failed")
           /\ \A s \in Stages \ DOMAIN entries : stages'[s] = stages[s]
           /\ \A s \in DOMAIN entries :
                  stages'[s] # <<>> /\ stages'[s][Len(stages'[s])] = entries[s]
           /\ OthersOk' <=> /\ OthersOk
                            /\ \A s \in DOMAIN entries \ {"global_shapes"} :
                                   entries[s] # "failed"
  <1>1. \A s \in Stages : stages'[s] = IF s \in DOMAIN entries
                                       THEN Append(stages[s], entries[s]) ELSE stages[s]
    BY DEF Push
  <1>2. stages' \in [Stages -> Seq(Statuses)]
    <2>1. ASSUME NEW s \in Stages PROVE stages'[s] \in Seq(Statuses)
      <3>1. stages[s] \in Seq(Statuses) OBVIOUS
      <3>2. CASE s \in DOMAIN entries
        <4>1. stages'[s] = Append(stages[s], entries[s]) /\ entries[s] \in Statuses
          BY <1>1, <3>2
        <4> HIDE DEF Statuses
        <4> QED BY <3>1, <4>1
      <3>3. CASE s \notin DOMAIN entries BY <1>1, <3>1, <3>3
      <3> QED BY <3>2, <3>3
    <2>2. stages' = [s \in Stages |-> stages'[s]] BY DEF Push
    <2> QED BY <2>1, <2>2
  <1>3. ASSUME NEW s \in Stages, s \notin DOMAIN entries
        PROVE  stages'[s] = stages[s] /\ (Failed(s)' <=> Failed(s))
    BY <1>1, <1>3 DEF Failed
  <1>4. ASSUME NEW s \in DOMAIN entries
        PROVE  /\ stages'[s] # <<>> /\ stages'[s][Len(stages'[s])] = entries[s]
               /\ Failed(s)' <=> (Failed(s) \/ entries[s] = "failed")
    <2> DEFINE q == stages[s]
               n == Len(q)
               e == entries[s]
               r == stages'[s]
    <2>1. r = Append(q, e) BY <1>1
    <2>2. q \in Seq(Statuses) /\ e \in Statuses OBVIOUS
    <2> HIDE DEF q, e, r
    <2>3. /\ n \in Nat /\ Len(r) = n + 1 /\ r[n + 1] = e
          /\ \A k \in 1 .. n : r[k] = q[k]
      BY <2>1, <2>2
    <2>4. (\E k \in 1 .. Len(r) : r[k] = "failed")
            <=> (\E k \in 1 .. n : q[k] = "failed") \/ e = "failed"
      <3>1. \A k \in 1 .. n + 1 : k \in 1 .. n \/ k = n + 1 BY <2>3
      <3>2. 1 .. n \subseteq 1 .. n + 1 /\ n + 1 \in 1 .. n + 1 BY <2>3
      <3> HIDE DEF n
      <3> QED BY <2>3, <3>1, <3>2
    <2>5. Failed(s)' <=> (Failed(s) \/ e = "failed") BY <2>4 DEF Failed, q, r
    <2>6. r # <<>> /\ r[Len(r)] = e BY <2>3
    <2> QED BY <2>5, <2>6 DEF r, e
  <1>5. \A s \in Stages : Failed(s)' <=>
            Failed(s) \/ (s \in DOMAIN entries /\ entries[s] = "failed")
    BY <1>3, <1>4
  <1>6. OthersOk' <=> /\ OthersOk
                      /\ \A s \in DOMAIN entries \ {"global_shapes"} : entries[s] # "failed"
    BY <1>5, Zenon DEF OthersOk
  <1> QED BY <1>2, <1>3, <1>4, <1>5, <1>6

LEMMA Flags ==
    ASSUME ShapeInv
    PROVE  /\ opts.noSymbol \in BOOLEAN /\ opts.noThumb \in BOOLEAN
           /\ opts.noTypes \in BOOLEAN /\ opts.prune \in BOOLEAN
  BY RouteAssumption DEF ShapeInv

LEMMA Goes ==
    ASSUME ShapeInv, TodoInv, NEW s, Step(s), Continue, opts' = opts
    PROVE  /\ TodoInv' /\ At = s /\ At \notin Foreign(opts.noSymbol)
           /\ Edge(opts.noSymbol, At, At')
  <1>1. todo # <<>> /\ At = s BY DEF Step, At
  <1>2. opts.noSymbol \in BOOLEAN BY Flags
  <1>3. todo' = Tail(todo) BY DEF Continue
  <1> QED BY <1>1, <1>2, <1>3, Moves

LEMMA Stops ==
    ASSUME TodoInv, NEW s, Step(s), Stop, opts' = opts
    PROVE  TodoInv' /\ At = s /\ At' = "end"
  <1>1. todo # <<>> /\ At = s BY DEF Step, At
  <1>2. todo' = <<>> /\ At' = "end" BY DEF Stop, At
  <1>3. Len(Pipeline(opts.noSymbol)') = Len(Pipeline(opts.noSymbol)) OBVIOUS
  <1>4. /\ todo' \in Seq(StepNames) /\ Len(todo') = 0
        /\ \A j \in 1 .. Len(todo') : FALSE
    BY <1>2
  <1>5. 0 <= Len(Pipeline(opts.noSymbol)')
    BY DEF TodoInv
  <1> QED BY <1>1, <1>2, <1>4, <1>5 DEF TodoInv

-----------------------------------------------------------------------------
(* Steps that write only their own entry: nothing but the place of the run *)
(* and its failures changes.                                               *)

Middle == {"SourceTree", "DecodeTokens", "StartupMetadata"}

LEMMA ReportOkSplit ==
    /\ ReportOk <=> OthersOk /\ ~Failed("global_shapes")
    /\ ReportOk' <=> OthersOk' /\ ~Failed("global_shapes")'
  <1>1. "global_shapes" \in Stages BY DEF Stages
  <1>2. ReportOk <=> OthersOk /\ ~Failed("global_shapes")
    BY <1>1, Zenon DEF ReportOk, OthersOk
  <1>3. ReportOk' <=> OthersOk' /\ ~Failed("global_shapes")'
    BY <1>1, Zenon DEF ReportOk, OthersOk
  <1> QED BY <1>2, <1>3

LEMMA Quiet ==
    ASSUME IInv, TodoInv', opts' = opts,
           UNCHANGED <<report, res, retained, haveRows, row, kept, disk, contexts, snap,
                       maps, scheduled>>,
           stages' \in [Stages -> Seq(Statuses)], faults' \in 0 .. MaxFaults,
           pruned' \in BOOLEAN,
           stages'["symbolicate_finalize"] = stages["symbolicate_finalize"],
           Failed("global_shapes")' <=> Failed("global_shapes"),
           OthersOk' => OthersOk,
           At' = "end" /\ OthersOk' /\ opts.prune => pruned',
           \/ At \in Start /\ At' \in Start
           \/ At \in Start /\ At' = "end" /\ ~OthersOk'
           \/ At \in Middle /\ At' \in Middle
           \/ At = "Decoders" /\ At' = "Prune"
           \/ At = "Prune" /\ At' = "end"
    PROVE  IInv'
  <1>1. ShapeInv' BY DEF IInv, ShapeInv
  <1> USE DEF Start, Middle, BeforeMaps, Final, Dispatched, Typed, Globaled, Swept, Finalized
  <1>2. ReportInv' BY DEF IInv, ReportInv
  <1>3. RowInv' BY <1>2 DEF IInv, ReportInv, RowInv
  <1>4. KeptInv' BY DEF IInv, KeptInv
  <1>5. GlobalsInv' BY DEF IInv, ReportInv, GlobalsInv
  <1>6. BindInv'
    <2>1. ReportOk' => ReportOk BY ReportOkSplit
    <2>2. ~Finalized' => ~Finalized OBVIOUS
    <2>3. At' \in Final /\ haveRows' => (At \in Final /\ haveRows) \/ ~OthersOk'
      BY DEF IInv, ReportInv
    <2>4. contexts' = contexts /\ kept' = kept /\ disk' = disk OBVIOUS
    <2>5. \A i : Inputs(i)' = Inputs(i) BY DEF Inputs
    <2>6. ~Finalized' => stages'["symbolicate_finalize"] = <<>> BY <2>2 DEF IInv, BindInv
    <2>7. LET f == stages'["symbolicate_finalize"] IN
          f # <<>> /\ f[Len(f)] = "ok" =>
              \A i \in contexts' : disk'[i].symbols = disk'[i].functions
      BY <2>4 DEF IInv, BindInv
    <2>8. ASSUME At' \in Final, haveRows', NEW i \in Images
          PROVE  /\ kept'[i].shapes = "ok" => disk'[i].shapes = Inputs(i)'
                 /\ ReportOk' /\ i \in contexts' => kept'[i].shapes = "ok"
      <3>1. CASE At \in Final /\ haveRows
        BY <2>1, <2>4, <2>5, <3>1 DEF IInv, BindInv
      <3>2. CASE ~OthersOk'
        <4>1. (At \in Start /\ ~haveRows) \/ At \in Final BY <2>3, <3>2, <2>8 DEF IInv, ReportInv
        <4> QED BY <2>4, <2>5, <2>8, <3>2, <4>1, ReportOkSplit DEF IInv, BindInv
      <3> QED BY <2>3, <2>8, <3>1, <3>2
    <2> QED BY <2>6, <2>7, <2>8 DEF BindInv
  <1>7. HonestInv' BY DEF IInv, HonestInv
  <1>8. MapsInv' BY DEF IInv, ReportInv, MapsInv
  <1> QED BY <1>1, <1>2, <1>3, <1>4, <1>5, <1>6, <1>7, <1>8 DEF IInv

LEMMA NamesApart ==
    /\ "global_shapes" \in Stages /\ "symbolicate_finalize" \in Stages
    /\ "extract" \in Stages /\ "locate_rootfs" \in Stages /\ "prune" \in Stages
  BY DEF Stages

\* An entry that is neither the finalization's nor the shapes'.
Plain == Stages \ {"global_shapes", "symbolicate_finalize"}

LEMMA PlainPush ==
    ASSUME stages \in [Stages -> Seq(Statuses)], NEW entries, DOMAIN entries \subseteq Plain,
           \A s \in DOMAIN entries : entries[s] \in Statuses, Push(entries)
    PROVE  /\ stages' \in [Stages -> Seq(Statuses)]
           /\ stages'["symbolicate_finalize"] = stages["symbolicate_finalize"]
           /\ Failed("global_shapes")' <=> Failed("global_shapes")
           /\ OthersOk' <=> OthersOk /\ \A s \in DOMAIN entries : entries[s] # "failed"
  BY Pushes, NamesApart DEF Plain

LEMMA PlainOne ==
    ASSUME stages \in [Stages -> Seq(Statuses)], NEW name \in Plain, NEW status \in Statuses,
           Push([s \in {name} |-> status])
    PROVE  /\ stages' \in [Stages -> Seq(Statuses)]
           /\ stages'["symbolicate_finalize"] = stages["symbolicate_finalize"]
           /\ Failed("global_shapes")' <=> Failed("global_shapes")
           /\ OthersOk' <=> OthersOk /\ status # "failed"
  <1> DEFINE E == [s \in {name} |-> status]
  <1>1. DOMAIN E = {name} /\ \A s \in {name} : E[s] = status OBVIOUS
  <1>2. Push(E) OBVIOUS
  <1> HIDE DEF E
  <1> QED BY <1>1, <1>2, PlainPush

LEMMA ExtractStep == ASSUME IInv, Extract PROVE IInv'
  <1>0. ShapeInv /\ TodoInv BY DEF IInv
  <1>1. /\ Step("Extract") /\ opts' = opts /\ pruned' = pruned
        /\ UNCHANGED <<report, res, retained, haveRows, row, kept, disk, contexts, snap,
                       maps, scheduled>>
    BY DEF Extract, afterPass1
  <1>2. /\ stages \in [Stages -> Seq(Statuses)] /\ faults \in 0 .. MaxFaults
        /\ pruned \in BOOLEAN
    BY <1>0 DEF ShapeInv
  <1>3. CASE Fault({}) /\ Push([extract |-> "ok"]) /\ Continue
    <2>1. /\ stages' \in [Stages -> Seq(Statuses)] /\ (OthersOk' => OthersOk)
          /\ stages'["symbolicate_finalize"] = stages["symbolicate_finalize"]
          /\ Failed("global_shapes")' <=> Failed("global_shapes")
      <3>1. [extract |-> "ok"] = [s \in {"extract"} |-> "ok"] OBVIOUS
      <3>2. Push([s \in {"extract"} |-> "ok"]) BY <1>3, <3>1
      <3>3. "extract" \in Plain /\ "ok" \in Statuses BY DEF Plain, Stages, Statuses
      <3> QED BY <1>2, <3>2, <3>3, PlainOne
    <2>2. faults' \in 0 .. MaxFaults BY <1>2, <1>3, NoFault
    <2>3. TodoInv' /\ At = "Extract" /\ At' = "LocateRootfs"
      BY <1>0, <1>1, <1>3, Goes DEF Edge
    <2>4. At \in Start /\ At' \in Start /\ At' # "end" BY <2>3 DEF Start
    <2> QED BY <1>1, <1>2, <2>1, <2>2, <2>3, <2>4, Quiet, Zenon
  <1>4. CASE Fault({"extract"}) /\ Push([extract |-> "failed"]) /\ Stop
    <2>1. /\ stages' \in [Stages -> Seq(Statuses)] /\ ~OthersOk'
          /\ stages'["symbolicate_finalize"] = stages["symbolicate_finalize"]
          /\ Failed("global_shapes")' <=> Failed("global_shapes")
      <3>1. [extract |-> "failed"] = [s \in {"extract"} |-> "failed"] OBVIOUS
      <3>2. Push([s \in {"extract"} |-> "failed"]) BY <1>4, <3>1
      <3>3. "extract" \in Plain /\ "failed" \in Statuses BY DEF Plain, Stages, Statuses
      <3> QED BY <1>2, <3>2, <3>3, PlainOne
    <2>2. faults' \in 0 .. MaxFaults BY <1>2, <1>4, OneFault
    <2>3. TodoInv' /\ At = "Extract" /\ At' = "end"
      BY <1>0, <1>1, <1>4, Stops DEF Edge
    <2> QED BY <1>1, <1>2, <2>1, <2>2, <2>3, Quiet DEF Start
  <1> QED BY <1>3, <1>4, Zenon DEF Extract

LEMMA LocateRootfsStep == ASSUME IInv, LocateRootfs PROVE IInv'
  <1>0. ShapeInv /\ TodoInv BY DEF IInv
  <1>1. /\ Step("LocateRootfs") /\ opts' = opts /\ pruned' = pruned
        /\ UNCHANGED <<report, res, retained, haveRows, row, kept, disk, contexts, snap,
                       maps, scheduled>>
    BY DEF LocateRootfs, afterPass1
  <1>2. /\ stages \in [Stages -> Seq(Statuses)] /\ faults \in 0 .. MaxFaults
        /\ pruned \in BOOLEAN
    BY <1>0 DEF ShapeInv
  <1>3. CASE Fault({}) /\ Continue /\ UNCHANGED stages
    <2>1. OthersOk' => OthersOk BY <1>3 DEF OthersOk, Failed
    <2>2. Failed("global_shapes")' <=> Failed("global_shapes") BY <1>3 DEF Failed
    <2>3. faults' \in 0 .. MaxFaults BY <1>2, <1>3, NoFault
    <2>4. TodoInv' /\ At = "LocateRootfs" /\ At' = "Decompile"
      BY <1>0, <1>1, <1>3, Goes DEF Edge
    <2> QED BY <1>1, <1>2, <1>3, <2>1, <2>2, <2>3, <2>4, Quiet DEF Start
  <1>4. CASE Fault({"rootfs"}) /\ Push([locate_rootfs |-> "failed"]) /\ Stop
    <2>1. /\ stages' \in [Stages -> Seq(Statuses)] /\ ~OthersOk'
          /\ stages'["symbolicate_finalize"] = stages["symbolicate_finalize"]
          /\ Failed("global_shapes")' <=> Failed("global_shapes")
      <3>1. [locate_rootfs |-> "failed"] = [s \in {"locate_rootfs"} |-> "failed"] OBVIOUS
      <3>2. Push([s \in {"locate_rootfs"} |-> "failed"]) BY <1>4, <3>1
      <3>3. "locate_rootfs" \in Plain /\ "failed" \in Statuses BY DEF Plain, Stages, Statuses
      <3> QED BY <1>2, <3>2, <3>3, PlainOne
    <2>2. faults' \in 0 .. MaxFaults BY <1>2, <1>4, OneFault
    <2>3. TodoInv' /\ At = "LocateRootfs" /\ At' = "end"
      BY <1>0, <1>1, <1>4, Stops DEF Edge
    <2> QED BY <1>1, <1>2, <2>1, <2>2, <2>3, Quiet DEF Start
  <1> QED BY <1>3, <1>4, Zenon DEF LocateRootfs

LEMMA SideWorks ==
    ASSUME ShapeInv, NEW names, names \subseteq Plain, IsFiniteSet(names), Side(names)
    PROVE  /\ stages' \in [Stages -> Seq(Statuses)] /\ (OthersOk' => OthersOk)
           /\ stages'["symbolicate_finalize"] = stages["symbolicate_finalize"]
           /\ Failed("global_shapes")' <=> Failed("global_shapes")
           /\ faults' \in 0 .. MaxFaults
  <1> DEFINE E(bad) == [s \in names |-> IF s \in Idle THEN "skipped"
                                        ELSE IF s \in bad THEN "failed" ELSE "ok"]
  <1>1. PICK bad \in SUBSET (names \ Idle) : Fault(bad) /\ Push(E(bad)) BY DEF Side
  <1>2. IsFiniteSet(bad) BY FS_Subset
  <1>3. DOMAIN E(bad) = names /\ \A s \in names : E(bad)[s] \in Statuses BY DEF Statuses
  <1> HIDE DEF E
  <1>4. /\ stages' \in [Stages -> Seq(Statuses)] /\ (OthersOk' => OthersOk)
        /\ stages'["symbolicate_finalize"] = stages["symbolicate_finalize"]
        /\ Failed("global_shapes")' <=> Failed("global_shapes")
    BY <1>1, <1>3, PlainPush DEF ShapeInv
  <1>5. faults' \in 0 .. MaxFaults BY <1>1, <1>2, FaultOk DEF ShapeInv
  <1> QED BY <1>4, <1>5

LEMMA SideStep == ASSUME IInv, SideStages PROVE IInv'
  <1>0. ShapeInv /\ TodoInv BY DEF IInv
  <1>1. /\ Continue /\ opts' = opts /\ pruned' = pruned
        /\ UNCHANGED <<report, res, retained, haveRows, row, kept, disk, contexts, snap,
                       maps, scheduled>>
    BY DEF SideStages, afterPass1
  <1>2. /\ stages \in [Stages -> Seq(Statuses)] /\ faults \in 0 .. MaxFaults
        /\ pruned \in BOOLEAN
    BY <1>0 DEF ShapeInv
  <1>5. CASE Step("SourceTree") /\ Side({"source_tree", "source_attribution"})
    <2>1. {"source_tree", "source_attribution"} \subseteq Plain BY DEF Plain, Stages
    <2>3. IsFiniteSet({"source_tree", "source_attribution"})
      <3>1. {"source_tree", "source_attribution"} = {"source_tree"} \cup {"source_attribution"} OBVIOUS
      <3>2. IsFiniteSet({"source_tree"}) /\ IsFiniteSet({"source_attribution"}) BY FS_Singleton
      <3> QED BY <3>1, <3>2, FS_Union
    <2>2. TodoInv' /\ At = "SourceTree" /\ At' = "DecodeTokens"
      BY <1>0, <1>1, <1>5, Goes DEF Edge
    <2>4. /\ stages' \in [Stages -> Seq(Statuses)] /\ (OthersOk' => OthersOk)
          /\ stages'["symbolicate_finalize"] = stages["symbolicate_finalize"]
          /\ Failed("global_shapes")' <=> Failed("global_shapes")
          /\ faults' \in 0 .. MaxFaults
      BY <1>0, <1>5, <2>1, <2>3, SideWorks
    <2>5. At \in Middle /\ At' \in Middle /\ At' # "end" BY <2>2 DEF Middle
    <2> QED BY <1>1, <1>2, <2>2, <2>4, <2>5, Quiet, Zenon
  <1>6. CASE Step("DecodeTokens") /\ Side({"decode_tokens"})
    <2>1. {"decode_tokens"} \subseteq Plain BY DEF Plain, Stages
    <2>3. IsFiniteSet({"decode_tokens"}) BY FS_Singleton
    <2>2. TodoInv' /\ At = "DecodeTokens" /\ At' = "StartupMetadata"
      BY <1>0, <1>1, <1>6, Goes DEF Edge
    <2>4. /\ stages' \in [Stages -> Seq(Statuses)] /\ (OthersOk' => OthersOk)
          /\ stages'["symbolicate_finalize"] = stages["symbolicate_finalize"]
          /\ Failed("global_shapes")' <=> Failed("global_shapes")
          /\ faults' \in 0 .. MaxFaults
      BY <1>0, <1>6, <2>1, <2>3, SideWorks
    <2>5. At \in Middle /\ At' \in Middle /\ At' # "end" BY <2>2 DEF Middle
    <2> QED BY <1>1, <1>2, <2>2, <2>4, <2>5, Quiet, Zenon
  <1>7. CASE Step("Decoders") /\ Side({"decode_rf", "hardware_config"})
    <2>1. {"decode_rf", "hardware_config"} \subseteq Plain BY DEF Plain, Stages
    <2>3. IsFiniteSet({"decode_rf", "hardware_config"})
      <3>1. {"decode_rf", "hardware_config"} = {"decode_rf"} \cup {"hardware_config"} OBVIOUS
      <3>2. IsFiniteSet({"decode_rf"}) /\ IsFiniteSet({"hardware_config"}) BY FS_Singleton
      <3> QED BY <3>1, <3>2, FS_Union
    <2>2. TodoInv' /\ At = "Decoders" /\ At' = "Prune"
      BY <1>0, <1>1, <1>7, Goes DEF Edge
    <2>4. /\ stages' \in [Stages -> Seq(Statuses)] /\ (OthersOk' => OthersOk)
          /\ stages'["symbolicate_finalize"] = stages["symbolicate_finalize"]
          /\ Failed("global_shapes")' <=> Failed("global_shapes")
          /\ faults' \in 0 .. MaxFaults
      BY <1>0, <1>7, <2>1, <2>3, SideWorks
    <2>5. At' # "end" BY <2>2
    <2> QED BY <1>1, <1>2, <2>2, <2>4, <2>5, Quiet, Zenon
  <1> QED BY <1>5, <1>6, <1>7, Zenon DEF SideStages

LEMMA PruneStep == ASSUME IInv, RunPrune PROVE IInv'
  <1>0. ShapeInv /\ TodoInv BY DEF IInv
  <1>1. /\ Step("Prune") /\ Continue /\ opts' = opts
        /\ UNCHANGED <<report, res, retained, haveRows, row, kept, disk, contexts, snap,
                       maps, scheduled>>
    BY DEF RunPrune
  <1>2. /\ stages \in [Stages -> Seq(Statuses)] /\ faults \in 0 .. MaxFaults
        /\ pruned \in BOOLEAN
    BY <1>0 DEF ShapeInv
  <1>3. TodoInv' /\ At = "Prune" /\ At' = "end" BY <1>0, <1>1, Goes DEF Edge
  <1>4. ASSUME (~opts.prune /\ pruned' = pruned) \/ pruned' = TRUE,
               Fault({}), UNCHANGED stages
        PROVE  IInv'
    <2>1. OthersOk' => OthersOk BY <1>4 DEF OthersOk, Failed
    <2>2. Failed("global_shapes")' <=> Failed("global_shapes") BY <1>4 DEF Failed
    <2>3. faults' \in 0 .. MaxFaults BY <1>2, <1>4, NoFault
    <2>4. pruned' \in BOOLEAN /\ (opts.prune => pruned') BY <1>2, <1>4
    <2> QED BY <1>1, <1>2, <1>3, <1>4, <2>1, <2>2, <2>3, <2>4, Quiet
  <1>5. CASE opts.prune /\ Fault({"prune"}) /\ Push([prune |-> "failed"]) /\ UNCHANGED pruned
    <2>1. /\ stages' \in [Stages -> Seq(Statuses)] /\ ~OthersOk'
          /\ stages'["symbolicate_finalize"] = stages["symbolicate_finalize"]
          /\ Failed("global_shapes")' <=> Failed("global_shapes")
      <3>1. [prune |-> "failed"] = [s \in {"prune"} |-> "failed"] OBVIOUS
      <3>2. Push([s \in {"prune"} |-> "failed"]) BY <1>5, <3>1
      <3>3. "prune" \in Plain /\ "failed" \in Statuses BY DEF Plain, Stages, Statuses
      <3> QED BY <1>2, <3>2, <3>3, PlainOne
    <2>2. faults' \in 0 .. MaxFaults BY <1>2, <1>5, OneFault
    <2> QED BY <1>1, <1>2, <1>3, <1>5, <2>1, <2>2, Quiet
  <1>6. CASE ~opts.prune /\ Fault({}) /\ UNCHANGED <<stages, pruned>> BY <1>4, <1>6
  <1>7. CASE opts.prune /\ Fault({}) /\ pruned' = TRUE /\ UNCHANGED stages BY <1>4, <1>7
  <1> QED BY <1>5, <1>6, <1>7, Zenon DEF RunPrune

-----------------------------------------------------------------------------
(* The first pass.                                                         *)

LEMMA DecompileFails ==
    ASSUME IInv, Step("Decompile"), Continue, Fault({"decompile"}), opts' = opts,
           Push([decompile |-> "failed", exception_roots |-> "failed",
                 pal_tasks |-> "skipped", pal_messages |-> "skipped"]),
           UNCHANGED <<report, res, haveRows, row, disk, contexts, kept, retained, snap,
                       maps, scheduled, pruned>>
    PROVE  IInv'
  <1>0. ShapeInv /\ TodoInv BY DEF IInv
  <1>1. TodoInv' /\ At = "Decompile" /\ At' = "ThumbEnrich" BY <1>0, Goes DEF Edge
  <1>2. /\ stages' \in [Stages -> Seq(Statuses)] /\ ~OthersOk'
        /\ stages'["symbolicate_finalize"] = stages["symbolicate_finalize"]
        /\ Failed("global_shapes")' <=> Failed("global_shapes")
    <2> DEFINE E == [decompile |-> "failed", exception_roots |-> "failed",
                     pal_tasks |-> "skipped", pal_messages |-> "skipped"]
    <2>1. /\ DOMAIN E = {"decompile", "exception_roots", "pal_tasks", "pal_messages"}
          /\ E["decompile"] = "failed"
          /\ \A s \in DOMAIN E : E[s] \in Statuses
      BY DEF Statuses
    <2>2. DOMAIN E \subseteq Plain BY DEF Plain, Stages
    <2>3. Push(E) OBVIOUS
    <2>4. stages \in [Stages -> Seq(Statuses)] BY <1>0 DEF ShapeInv
    <2> HIDE DEF E
    <2> QED BY <2>1, <2>2, <2>3, <2>4, PlainPush
  <1>3. ShapeInv'
    <2>1. faults' \in 0 .. MaxFaults BY <1>0, OneFault DEF ShapeInv
    <2> QED BY <1>0, <1>2, <2>1 DEF ShapeInv
  <1>4. ~haveRows /\ contexts = {} BY <1>1 DEF IInv, ReportInv, Start
  <1> USE DEF Start, BeforeMaps, Final, Dispatched, Typed, Globaled, Swept, Finalized
  <1>5. ReportInv' BY <1>1, <1>4 DEF IInv, ReportInv
  <1>6. RowInv' BY <1>4 DEF RowInv
  <1>7. KeptInv' BY <1>1 DEF IInv, KeptInv
  <1>8. GlobalsInv' BY <1>4 DEF GlobalsInv
  <1>9. BindInv' BY <1>1, <1>2, <1>4 DEF IInv, BindInv
  <1>10. HonestInv' BY <1>1, <1>2 DEF IInv, HonestInv
  <1>11. MapsInv' BY <1>1, <1>2 DEF IInv, MapsInv
  <1> QED BY <1>1, <1>3, <1>5, <1>6, <1>7, <1>8, <1>9, <1>10, <1>11 DEF IInv

LEMMA DecompileWorks ==
    ASSUME IInv, TodoInv', At = "Decompile", At' = "ThumbEnrich", opts' = opts,
           stages' \in [Stages -> Seq(Statuses)], faults' \in 0 .. MaxFaults,
           stages'["symbolicate_finalize"] = stages["symbolicate_finalize"],
           Failed("global_shapes")' <=> Failed("global_shapes"),
           report' = TRUE, haveRows' = TRUE,
           res' \in [Images -> Results], disk' \in [Images -> Trees],
           row' \in [Images -> [base : Results, kept : Kepts]],
           \A i \in Images : /\ res'[i].pass2 = "none" /\ ~res'[i].enrichError
                             /\ res'[i].globals = "none"
                             /\ row'[i] = [base |-> res'[i], kept |-> Nulls],
           contexts' \subseteq Images,
           \A i \in contexts' : /\ res'[i].outcome = "analyzed"
                                /\ disk'[i].functions >= 2 /\ disk'[i].globals = 0
                                /\ disk'[i].text = "raw",
           OthersOk' => /\ OthersOk
                        /\ \A i \in Images : /\ res'[i].outcome # "failed"
                                              /\ res'[i].thumb # "error",
           UNCHANGED <<kept, retained, snap, maps, scheduled, pruned>>
    PROVE  IInv'
  <1>1. /\ ~haveRows /\ contexts = {} /\ ~report /\ ~retained /\ snap = {} /\ scheduled = {}
        /\ \A i \in Images : kept[i] = Nulls
    BY DEF IInv, ReportInv, KeptInv, Start, ShapeInv
  <1>2. ShapeInv' BY <1>1 DEF IInv, ShapeInv
  <1> USE DEF Start, BeforeMaps, Final, Dispatched, Typed, Globaled, Swept, Finalized
  <1>3. ReportInv' BY <1>1 DEF IInv, ReportInv
  <1>4. RowInv' BY <1>1 DEF RowInv
  <1>5. KeptInv' BY <1>1 DEF IInv, KeptInv
  <1>6. GlobalsInv' BY DEF GlobalsInv
  <1>7. BindInv' BY DEF IInv, BindInv
  <1>8. HonestInv' BY DEF IInv, HonestInv
  <1>9. MapsInv' BY DEF IInv, MapsInv
  <1> QED BY <1>2, <1>3, <1>4, <1>5, <1>6, <1>7, <1>8, <1>9 DEF IInv

LEMMA DecompileStep == ASSUME IInv, RunDecompile PROVE IInv'
  <1>1. Step("Decompile") /\ Continue /\ UNCHANGED <<kept, retained, snap, maps, scheduled, pruned, opts>>
    BY DEF RunDecompile, afterPass1
  <1>0. ShapeInv /\ TodoInv BY DEF IInv
  <1>4. TodoInv' /\ At = "Decompile" /\ At' = "ThumbEnrich" BY <1>0, <1>1, Goes DEF Edge
  <1>2. CASE /\ Fault({"decompile"})
             /\ Push([decompile |-> "failed", exception_roots |-> "failed",
                      pal_tasks |-> "skipped", pal_messages |-> "skipped"])
             /\ UNCHANGED <<report, res, haveRows, row, disk, contexts>>
    BY <1>1, <1>2, DecompileFails
  <1>3. CASE \E bad, badThumb, unpublished, opaque, hasThumb \in SUBSET Images :
             LET analyzed == Images \ (bad \union opaque)
                 refused  == {i \in analyzed : disk[i].functions # 0}
                 failing  == unpublished \ refused
                 outcome(i) == IF i \in bad THEN "failed"
                               ELSE IF i \in opaque THEN "opaque" ELSE "analyzed"
                 thumb(i) == IF i \in badThumb THEN "error"
                             ELSE IF i \in hasThumb THEN "ok" ELSE "none"
             IN /\ bad \cap opaque = {} /\ badThumb \subseteq analyzed
                /\ hasThumb \subseteq analyzed \ badThumb
                /\ refused \subseteq unpublished /\ unpublished \subseteq analyzed
                /\ Fault({<<"run", i>> : i \in bad \union badThumb}
                         \union {<<"publish", i>> : i \in failing})
                /\ report' = TRUE /\ haveRows' = TRUE
                /\ res' = [i \in Images |->
                             [Fresh EXCEPT !.outcome = outcome(i), !.thumb = thumb(i)]]
                /\ row' = FromResults(res')
                /\ contexts' = analyzed \ unpublished
                /\ disk' = [i \in Images |-> IF i \in contexts'
                                             THEN Publish(i, thumb(i)) ELSE disk[i]]
                /\ Push([decompile |-> Verdict(bad \union badThumb \union unpublished),
                         exception_roots |-> "ok", pal_tasks |-> "ok", pal_messages |-> "ok"])
    <2>1. PICK bad, badThumb, unpublished, opaque, hasThumb \in SUBSET Images :
             LET analyzed == Images \ (bad \union opaque)
                 refused  == {i \in analyzed : disk[i].functions # 0}
                 failing  == unpublished \ refused
                 outcome(i) == IF i \in bad THEN "failed"
                               ELSE IF i \in opaque THEN "opaque" ELSE "analyzed"
                 thumb(i) == IF i \in badThumb THEN "error"
                             ELSE IF i \in hasThumb THEN "ok" ELSE "none"
             IN /\ bad \cap opaque = {} /\ badThumb \subseteq analyzed
                /\ hasThumb \subseteq analyzed \ badThumb
                /\ refused \subseteq unpublished /\ unpublished \subseteq analyzed
                /\ Fault({<<"run", i>> : i \in bad \union badThumb}
                         \union {<<"publish", i>> : i \in failing})
                /\ report' = TRUE /\ haveRows' = TRUE
                /\ res' = [i \in Images |->
                             [Fresh EXCEPT !.outcome = outcome(i), !.thumb = thumb(i)]]
                /\ row' = FromResults(res')
                /\ contexts' = analyzed \ unpublished
                /\ disk' = [i \in Images |-> IF i \in contexts'
                                             THEN Publish(i, thumb(i)) ELSE disk[i]]
                /\ Push([decompile |-> Verdict(bad \union badThumb \union unpublished),
                         exception_roots |-> "ok", pal_tasks |-> "ok", pal_messages |-> "ok"])
      BY <1>3
    <2> DEFINE analyzed == Images \ (bad \union opaque)
               failing == unpublished \ {i \in analyzed : disk[i].functions # 0}
               outcome(i) == IF i \in bad THEN "failed"
                             ELSE IF i \in opaque THEN "opaque" ELSE "analyzed"
               thumb(i) == IF i \in badThumb THEN "error"
                           ELSE IF i \in hasThumb THEN "ok" ELSE "none"
               v == Verdict(bad \union badThumb \union unpublished)
               E == [decompile |-> v, exception_roots |-> "ok", pal_tasks |-> "ok",
                     pal_messages |-> "ok"]
    <2>2. /\ badThumb \subseteq analyzed /\ unpublished \subseteq analyzed
          /\ Fault({<<"run", i>> : i \in bad \union badThumb}
                   \union {<<"publish", i>> : i \in failing})
          /\ report' = TRUE /\ haveRows' = TRUE /\ row' = FromResults(res')
          /\ contexts' = analyzed \ unpublished
          /\ Push(E)
      BY <2>1
    <2>3. res' = [i \in Images |->
                     [Fresh EXCEPT !.outcome = outcome(i), !.thumb = thumb(i)]]
      BY <2>1
    <2>4. disk' = [i \in Images |-> IF i \in contexts' THEN Publish(i, thumb(i)) ELSE disk[i]]
      BY <2>1
    <2>5. \A i \in Images :
             /\ outcome(i) \in {"analyzed", "opaque", "failed"}
             /\ thumb(i) \in {"none", "ok", "error"}
             /\ i \in analyzed => outcome(i) = "analyzed"
             /\ outcome(i) = "failed" => i \in bad
             /\ thumb(i) = "error" => i \in badThumb
      OBVIOUS
    <2>6. /\ v \in Statuses
          /\ v # "failed" <=> bad \union badThumb \union unpublished = {}
      BY DEF Verdict, Statuses
    <2>7. failing \subseteq Images /\ analyzed \subseteq Images OBVIOUS
    <2> HIDE DEF analyzed, failing, outcome, thumb, v
    <2>8. \A i \in Images :
             res'[i] = [outcome |-> outcome(i), thumb |-> thumb(i), enriched |-> FALSE,
                        enrichError |-> FALSE, globals |-> "none", pass2 |-> "none"]
      BY <2>3 DEF Fresh
    <2>9. \A i \in contexts' :
             i \in Images /\
             disk'[i] = [functions |-> 2, thumb |-> IF thumb(i) = "ok" THEN 2 ELSE 0,
                         globals |-> 0, text |-> "raw", symbols |-> 0,
                         shapes |-> <<0, 0, 0>>]
      BY <2>2, <2>4, <2>7 DEF Publish, NoFiles
    <2>10. \A i \in Images \ contexts' : disk'[i] = disk[i] BY <2>4
    <2>11. /\ stages' \in [Stages -> Seq(Statuses)]
           /\ stages'["symbolicate_finalize"] = stages["symbolicate_finalize"]
           /\ Failed("global_shapes")' <=> Failed("global_shapes")
           /\ OthersOk' => OthersOk /\ bad \union badThumb \union unpublished = {}
      <3>1. /\ DOMAIN E = {"decompile", "exception_roots", "pal_tasks", "pal_messages"}
            /\ E["decompile"] = v
            /\ \A s \in DOMAIN E : E[s] \in Statuses
        BY <2>6 DEF Statuses
      <3>2. DOMAIN E \subseteq Plain BY DEF Plain, Stages
      <3>3. Push(E) BY <2>2
      <3>4. stages \in [Stages -> Seq(Statuses)] BY <1>0 DEF ShapeInv
      <3> HIDE DEF E
      <3>5. OthersOk' <=> OthersOk /\ \A s \in DOMAIN E : E[s] # "failed"
        BY <3>1, <3>2, <3>3, <3>4, PlainPush
      <3>6. (\A s \in DOMAIN E : E[s] # "failed") => v # "failed" BY <3>1
      <3>7. /\ stages' \in [Stages -> Seq(Statuses)]
            /\ stages'["symbolicate_finalize"] = stages["symbolicate_finalize"]
            /\ Failed("global_shapes")' <=> Failed("global_shapes")
        BY <3>1, <3>2, <3>3, <3>4, PlainPush
      <3> QED BY <2>6, <3>5, <3>6, <3>7, Zenon
    <2>12. faults' \in 0 .. MaxFaults
      <3>1. /\ IsFiniteSet({<<"run", i>> : i \in bad \union badThumb})
            /\ IsFiniteSet({<<"publish", i>> : i \in failing})
        <4>1. bad \union badThumb \in SUBSET Images /\ failing \in SUBSET Images BY <2>7
        <4> QED BY <4>1, Tagged
      <3>2. faults \in 0 .. MaxFaults BY <1>0 DEF ShapeInv
      <3> QED BY <2>2, <3>1, <3>2, FS_Union, FaultOk
    <2>13. res' \in [Images -> Results]
      <3>1. ASSUME NEW i \in Images PROVE res'[i] \in Results
        <4> DEFINE o == outcome(i)
                   t == thumb(i)
        <4>1. res'[i] = [outcome |-> o, thumb |-> t, enriched |-> FALSE,
                         enrichError |-> FALSE, globals |-> "none", pass2 |-> "none"]
          BY <2>8
        <4>2. o \in {"analyzed", "opaque", "failed"} /\ t \in {"none", "ok", "error"} BY <2>5
        <4> HIDE DEF o, t
        <4> QED BY <4>1, <4>2 DEF Results
      <3>2. DOMAIN res' = Images /\ res' = [i \in Images |-> res'[i]] BY <2>3
      <3> QED BY <3>1, <3>2
    <2>14. \A i \in Images : row'[i] = [base |-> res'[i], kept |-> Nulls]
      BY <2>2 DEF FromResults
    <2>15. row' \in [Images -> [base : Results, kept : Kepts]]
      <3>1. Nulls \in Kepts BY DEF Nulls, Groups, Kepts
      <3>2. ASSUME NEW i \in Images PROVE row'[i] \in [base : Results, kept : Kepts]
        <4>1. row'[i] = [base |-> res'[i], kept |-> Nulls] /\ res'[i] \in Results
          BY <2>13, <2>14
        <4> QED BY <3>1, <4>1
      <3> QED BY <2>2, <3>2 DEF FromResults
    <2>16. disk' \in [Images -> Trees]
      <3>1. disk \in [Images -> Trees] BY <1>0 DEF ShapeInv
      <3>2. ASSUME NEW i \in contexts' PROVE disk'[i] \in Trees
        <4> DEFINE n == IF thumb(i) = "ok" THEN 2 ELSE 0
        <4>1. disk'[i] = [functions |-> 2, thumb |-> n, globals |-> 0, text |-> "raw",
                          symbols |-> 0, shapes |-> <<0, 0, 0>>]
          BY <2>9
        <4>2. n \in Nat OBVIOUS
        <4> HIDE DEF n
        <4> QED BY <4>1, <4>2 DEF Trees
      <3>3. \A i \in Images : disk'[i] \in Trees BY <2>10, <3>1, <3>2
      <3>4. disk' = [i \in Images |-> disk'[i]] BY <2>4
      <3> QED BY <3>3, <3>4
    <2>17. \A i \in Images : /\ res'[i].pass2 = "none" /\ ~res'[i].enrichError
                             /\ res'[i].globals = "none" /\ res'[i].outcome = outcome(i)
                             /\ res'[i].thumb = thumb(i)
      <3> TAKE i \in Images
      <3> DEFINE o == outcome(i)
                 t == thumb(i)
      <3>1. res'[i] = [outcome |-> o, thumb |-> t, enriched |-> FALSE,
                       enrichError |-> FALSE, globals |-> "none", pass2 |-> "none"]
        BY <2>8
      <3> HIDE DEF o, t
      <3> QED BY <3>1 DEF o, t
    <2>18. contexts' \subseteq Images
           /\ \A i \in contexts' : /\ res'[i].outcome = "analyzed"
                                   /\ disk'[i].functions >= 2 /\ disk'[i].globals = 0
                                   /\ disk'[i].text = "raw"
      <3>1. contexts' \subseteq analyzed BY <2>2
      <3>2. \A i \in contexts' : res'[i].outcome = "analyzed" BY <2>5, <2>7, <2>17, <3>1
      <3>3. ASSUME NEW i \in contexts'
            PROVE  disk'[i].functions >= 2 /\ disk'[i].globals = 0 /\ disk'[i].text = "raw"
        <4> DEFINE n == IF thumb(i) = "ok" THEN 2 ELSE 0
        <4>1. disk'[i] = [functions |-> 2, thumb |-> n, globals |-> 0, text |-> "raw",
                          symbols |-> 0, shapes |-> <<0, 0, 0>>]
          BY <2>9
        <4> HIDE DEF n
        <4> QED BY <4>1
      <3> QED BY <2>7, <3>1, <3>2, <3>3
    <2>19. OthersOk' => /\ OthersOk
                        /\ \A i \in Images : /\ res'[i].outcome # "failed"
                                              /\ res'[i].thumb # "error"
      BY <2>5, <2>11, <2>17
    <2> HIDE DEF E
    <2> QED BY <1>0, <1>1, <1>4, <2>2, <2>11, <2>12, <2>13, <2>14, <2>15, <2>16, <2>17, <2>18,
               <2>19, DecompileWorks
  <1> QED BY <1>2, <1>3, Zenon DEF RunDecompile

-----------------------------------------------------------------------------
(* Rows and kept outcomes.                                                 *)

LEMMA KeptFunctions ==
    ASSUME NEW r
    PROVE  r \in Kepts <=>
             /\ r = [g \in Groups |-> r[g]]
             /\ r["dbt"] \in {"none", "counted"}
             /\ r["startup"] \in {"none", "present", "skipped", "failed"}
             /\ r["ss"] \in {"none", "symbol_map", "finalize"}
             /\ r["shapes"] \in {"none", "ok", "failed"}
             /\ r["types"] \in {"none", "applied", "failed"}
  BY DEF Kepts, Groups

LEMMA KeepWorks ==
    ASSUME kept \in [Images -> Kepts], NEW g \in Groups, NEW S, NEW f
    PROVE  /\ Keep(g, S, f) = [i \in Images |-> Keep(g, S, f)[i]]
           /\ \A i \in Images :
                /\ Keep(g, S, f)[i] = [h \in Groups |-> Keep(g, S, f)[i][h]]
                /\ \A h \in Groups :
                      h # g \/ i \notin S => Keep(g, S, f)[i][h] = kept[i][h]
                /\ i \in S => Keep(g, S, f)[i][g] = f[i]
  <1> DEFINE k == Keep(g, S, f)
  <1>1. k = [i \in Images |-> k[i]] BY DEF Keep
  <1>2. ASSUME NEW i \in Images
        PROVE  /\ k[i] = [h \in Groups |-> k[i][h]]
               /\ \A h \in Groups : h # g \/ i \notin S => k[i][h] = kept[i][h]
               /\ i \in S => k[i][g] = f[i]
    <2>1. k[i] = IF i \in S THEN [kept[i] EXCEPT ![g] = f[i]] ELSE kept[i] BY DEF Keep
    <2>2. kept[i] = [h \in Groups |-> kept[i][h]] BY KeptFunctions
    <2> HIDE DEF k
    <2> QED BY <2>1, <2>2
  <1> QED BY <1>1, <1>2

RowOf(b, k) == [base |-> b, kept |-> k]

LEMMA ReapplyWorks ==
    ASSUME NEW rs, NEW gs, NEW ks,
           \A i \in Images : rs[i] = RowOf(rs[i].base, rs[i].kept),
           \A i \in Images : ks[i] = [g \in Groups |-> ks[i][g]],
           \A i \in Images : \A g \in Groups :
              (g \in gs /\ ks[i][g] # "none") \/ rs[i].kept[g] = ks[i][g]
    PROVE  /\ Reapply(rs, gs, ks) = [i \in Images |-> Reapply(rs, gs, ks)[i]]
           /\ \A i \in Images : Reapply(rs, gs, ks)[i] = RowOf(rs[i].base, ks[i])
  <1>1. Reapply(rs, gs, ks) = [i \in Images |-> Reapply(rs, gs, ks)[i]] BY DEF Reapply
  <1>2. ASSUME NEW i \in Images
        PROVE  Reapply(rs, gs, ks)[i] = RowOf(rs[i].base, ks[i])
    <2> DEFINE k == [g \in Groups |-> IF g \in gs /\ ks[i][g] # "none" THEN ks[i][g]
                                      ELSE rs[i].kept[g]]
    <2>1. Reapply(rs, gs, ks)[i] = [rs[i] EXCEPT !.kept = k] BY DEF Reapply
    <2>2. k = ks[i]
      <3>1. ks[i] = [g \in Groups |-> ks[i][g]] OBVIOUS
      <3>2. \A g \in Groups : k[g] = ks[i][g] OBVIOUS
      <3>3. k = [g \in Groups |-> k[g]] OBVIOUS
      <3> HIDE DEF k
      <3> QED BY <3>1, <3>2, <3>3
    <2> HIDE DEF k
    <2>3. rs[i] = RowOf(rs[i].base, rs[i].kept) OBVIOUS
    <2> QED BY <2>1, <2>2, <2>3 DEF RowOf
  <1> QED BY <1>1, <1>2

-----------------------------------------------------------------------------
(* Between the first pass and the globals.                                 *)

Early == {"ThumbEnrich", "DebugTraces", "SourceTree", "DecodeTokens", "StartupMetadata",
          "SymbolMap"}

LEMMA Forward ==
    ASSUME IInv, TodoInv', opts' = opts, At \in Early, At' \in Early,
           stages' \in [Stages -> Seq(Statuses)], faults' \in 0 .. MaxFaults,
           stages'["symbolicate_finalize"] = stages["symbolicate_finalize"],
           Failed("global_shapes")' <=> Failed("global_shapes"),
           res' \in [Images -> Results], disk' \in [Images -> Trees],
           kept' \in [Images -> Kepts], row' \in [Images -> [base : Results, kept : Kepts]],
           \A i \in Images : /\ res'[i].outcome = res[i].outcome
                             /\ res'[i].thumb = res[i].thumb
                             /\ res'[i].globals = res[i].globals
                             /\ res'[i].pass2 = res[i].pass2
                             /\ disk'[i].functions = disk[i].functions
                             /\ disk'[i].globals = disk[i].globals
                             /\ disk'[i].text = disk[i].text,
           haveRows => \A i \in Images : row'[i] = [base |-> res'[i], kept |-> kept'[i]],
           \A i \in Images : /\ At' \in {"ThumbEnrich", "DebugTraces"} => kept'[i] = Nulls
                             /\ kept'[i].shapes = "none" /\ kept'[i].types = "none",
           OthersOk' => /\ OthersOk
                        /\ \A i \in Images : /\ ~res'[i].enrichError
                                             /\ kept'[i].startup # "failed",
           UNCHANGED <<report, retained, haveRows, contexts, snap, maps, scheduled, pruned>>
    PROVE  IInv'
  <1>1. ShapeInv' BY DEF IInv, ShapeInv
  <1> USE DEF Early, Start, BeforeMaps, Final, Dispatched, Typed, Globaled, Swept, Finalized
  <1>2. contexts \subseteq Images BY DEF IInv, ShapeInv
  <1>3. ReportInv' BY <1>2 DEF IInv, ReportInv
  <1>4. RowInv' BY DEF RowInv
  <1>5. KeptInv' BY DEF KeptInv
  <1>6. GlobalsInv' BY <1>2 DEF IInv, GlobalsInv
  <1>7. BindInv' BY DEF IInv, BindInv
  <1>8. HonestInv' BY DEF IInv, HonestInv
  <1>9. MapsInv' BY DEF IInv, MapsInv
  <1> QED BY <1>1, <1>3, <1>4, <1>5, <1>6, <1>7, <1>8, <1>9 DEF IInv

LEMMA EarlyRows ==
    ASSUME IInv, At \in Early
    PROVE  /\ haveRows => \A i \in Images : row[i] = [base |-> res[i], kept |-> kept[i]]
           /\ \A i \in Images : kept[i].shapes = "none" /\ kept[i].types = "none"
           /\ At \in {"ThumbEnrich", "DebugTraces"} => \A i \in Images : kept[i] = Nulls
  <1>1. row \in [Images -> [base : Results, kept : Kepts]] BY DEF IInv, ShapeInv
  <1>2. \A i \in Images : row[i] = [base |-> row[i].base, kept |-> row[i].kept] BY <1>1
  <1>3. haveRows => \A i \in Images : row[i].base = res[i] /\ row[i].kept = kept[i]
    BY DEF IInv, RowInv, Early
  <1>4. /\ \A i \in Images : kept[i].shapes = "none" /\ kept[i].types = "none"
        /\ At \in {"ThumbEnrich", "DebugTraces"} => \A i \in Images : kept[i] = Nulls
    BY DEF IInv, KeptInv, Early, Swept, Typed, Dispatched, Final
  <1> QED BY <1>2, <1>3, <1>4

LEMMA SweepWorks ==
    ASSUME ShapeInv, NEW name \in Plain, NEW bad \in SUBSET Images, Sweep(bad, name)
    PROVE  /\ stages' \in [Stages -> Seq(Statuses)] /\ faults' \in 0 .. MaxFaults
           /\ stages'["symbolicate_finalize"] = stages["symbolicate_finalize"]
           /\ Failed("global_shapes")' <=> Failed("global_shapes")
           /\ res' \in [Images -> Results] /\ disk' \in [Images -> Trees]
           /\ \A i \in Images : /\ res'[i].outcome = res[i].outcome
                                /\ res'[i].thumb = res[i].thumb
                                /\ res'[i].globals = res[i].globals
                                /\ res'[i].pass2 = res[i].pass2
                                /\ disk'[i].functions = disk[i].functions
                                /\ disk'[i].globals = disk[i].globals
                                /\ disk'[i].text = disk[i].text
                                /\ disk'[i].symbols = disk[i].symbols
           /\ OthersOk' => /\ OthersOk
                           /\ \A i \in Images : res'[i].enrichError = res[i].enrichError
  <1> DEFINE present == {i \in Images : disk[i].thumb # 0}
             lost == {i \in Images \ present : res[i].thumb = "ok"}
             ok == present \ bad
             wrong == bad \union lost
             v == Verdict(wrong)
             E(i) == res[i].enriched \/ i \in ok
             W(i) == res[i].enrichError \/ i \in wrong
  <1>1. /\ Fault({<<name, i>> : i \in bad}) /\ Push([s \in {name} |-> v])
        /\ res' = [i \in Images |-> [res[i] EXCEPT !.enriched = @ \/ i \in ok,
                                                   !.enrichError = @ \/ i \in wrong]]
        /\ disk' = [i \in Images |-> IF i \in ok THEN [disk[i] EXCEPT !.thumb = @ + 1]
                                     ELSE disk[i]]
    BY DEF Sweep
  <1>2. v \in Statuses /\ (v # "failed" <=> wrong = {}) BY DEF Verdict, Statuses
  <1>3. /\ res \in [Images -> Results] /\ disk \in [Images -> Trees]
        /\ stages \in [Stages -> Seq(Statuses)] /\ faults \in 0 .. MaxFaults
    BY DEF ShapeInv
  <1> HIDE DEF ok, wrong, v
  <1>4. /\ stages' \in [Stages -> Seq(Statuses)]
        /\ stages'["symbolicate_finalize"] = stages["symbolicate_finalize"]
        /\ Failed("global_shapes")' <=> Failed("global_shapes")
        /\ OthersOk' <=> OthersOk /\ v # "failed"
    BY <1>1, <1>2, <1>3, PlainOne
  <1>5. faults' \in 0 .. MaxFaults BY <1>1, <1>3, Tagged, FaultOk
  <1>6. ASSUME NEW i \in Images
        PROVE  /\ res'[i] = [outcome |-> res[i].outcome, thumb |-> res[i].thumb,
                             enriched |-> E(i), enrichError |-> W(i),
                             globals |-> res[i].globals, pass2 |-> res[i].pass2]
               /\ E(i) \in BOOLEAN /\ W(i) \in BOOLEAN
               /\ wrong = {} => W(i) = res[i].enrichError
    <2>1. res[i] \in Results BY <1>3
    <2>2. res'[i] = [res[i] EXCEPT !.enriched = E(i), !.enrichError = W(i)] BY <1>1, Zenon
    <2>3. res[i].enrichError \in BOOLEAN BY <2>1 DEF Results
    <2>4. E(i) \in BOOLEAN /\ W(i) \in BOOLEAN BY Zenon
    <2>5. wrong = {} => W(i) = res[i].enrichError BY <2>3
    <2> HIDE DEF E, W
    <2>6. res'[i] = [outcome |-> res[i].outcome, thumb |-> res[i].thumb,
                     enriched |-> E(i), enrichError |-> W(i),
                     globals |-> res[i].globals, pass2 |-> res[i].pass2]
      BY <2>1, <2>2 DEF Results
    <2> QED BY <2>4, <2>5, <2>6
  <1> HIDE DEF E, W
  <1>7. res' \in [Images -> Results]
    <2>1. ASSUME NEW i \in Images PROVE res'[i] \in Results
      <3> DEFINE e == E(i)
                 w == W(i)
      <3>1. res[i] \in Results BY <1>3
      <3>2. /\ res'[i] = [outcome |-> res[i].outcome, thumb |-> res[i].thumb,
                          enriched |-> e, enrichError |-> w,
                          globals |-> res[i].globals, pass2 |-> res[i].pass2]
            /\ e \in BOOLEAN /\ w \in BOOLEAN
        BY <1>6, Zenon
      <3> HIDE DEF e, w
      <3> QED BY <3>1, <3>2 DEF Results
    <2>2. res' = [i \in Images |-> res'[i]] BY <1>1
    <2> QED BY <2>1, <2>2
  <1>8. ASSUME NEW i \in Images
        PROVE  /\ disk'[i] \in Trees
               /\ disk'[i].functions = disk[i].functions /\ disk'[i].globals = disk[i].globals
               /\ disk'[i].text = disk[i].text /\ disk'[i].symbols = disk[i].symbols
    <2>1. disk[i] \in Trees BY <1>3
    <2>2. disk'[i] = disk[i] \/ disk'[i] = [disk[i] EXCEPT !.thumb = @ + 1] BY <1>1
    <2> QED BY <2>1, <2>2 DEF Trees
  <1>9. disk' \in [Images -> Trees]
    <2>1. disk' = [i \in Images |-> disk'[i]] BY <1>1
    <2> QED BY <1>8, <2>1
  <1>10. \A i \in Images : /\ res'[i].outcome = res[i].outcome
                           /\ res'[i].thumb = res[i].thumb
                           /\ res'[i].globals = res[i].globals
                           /\ res'[i].pass2 = res[i].pass2
                           /\ res'[i].enrichError = W(i)
    <2> TAKE i \in Images
    <2> DEFINE e == E(i)
               w == W(i)
    <2>1. res'[i] = [outcome |-> res[i].outcome, thumb |-> res[i].thumb,
                     enriched |-> e, enrichError |-> w,
                     globals |-> res[i].globals, pass2 |-> res[i].pass2]
      BY <1>6, Zenon
    <2> HIDE DEF e, w
    <2>2. /\ res'[i].outcome = res[i].outcome /\ res'[i].thumb = res[i].thumb
          /\ res'[i].globals = res[i].globals /\ res'[i].pass2 = res[i].pass2
          /\ res'[i].enrichError = w
      BY <2>1
    <2> QED BY <2>2, Zenon DEF w
  <1>11. OthersOk' => OthersOk /\ \A i \in Images : res'[i].enrichError = res[i].enrichError
    BY <1>2, <1>4, <1>6, <1>10
  <1> QED BY <1>4, <1>5, <1>7, <1>8, <1>9, <1>10, <1>11

LEMMA ThumbEnrichStep == ASSUME IInv, ThumbEnrich PROVE IInv'
  <1>0. ShapeInv /\ TodoInv BY DEF IInv
  <1>1. /\ Step("ThumbEnrich") /\ Continue
        /\ UNCHANGED <<report, haveRows, kept, contexts, retained, snap, maps, scheduled,
                       pruned, opts>>
    BY DEF ThumbEnrich, afterPass1
  <1>2. TodoInv' /\ At = "ThumbEnrich" /\ At' = "DebugTraces" BY <1>0, <1>1, Goes DEF Edge
  <1>3. At \in Early /\ At' \in Early BY <1>2 DEF Early
  <1>4. /\ haveRows => \A i \in Images : row[i] = [base |-> res[i], kept |-> kept[i]]
        /\ \A i \in Images : kept[i].shapes = "none" /\ kept[i].types = "none"
        /\ \A i \in Images : kept[i] = Nulls /\ kept[i].startup # "failed"
    BY <1>2, <1>3, EarlyRows DEF Nulls, Groups
  <1>5. OthersOk => \A i \in Images : ~res[i].enrichError BY DEF IInv, HonestInv
  <1>6. /\ stages \in [Stages -> Seq(Statuses)] /\ faults \in 0 .. MaxFaults
        /\ res \in [Images -> Results] /\ disk \in [Images -> Trees]
        /\ kept \in [Images -> Kepts] /\ row \in [Images -> [base : Results, kept : Kepts]]
    BY <1>0 DEF ShapeInv
  <1>7. ASSUME Fault({}), UNCHANGED <<res, row, disk>>,
               NEW names \in SUBSET Plain, Push([s \in names |-> "skipped"])
        PROVE  IInv'
    <2> DEFINE E == [s \in names |-> "skipped"]
    <2>1. DOMAIN E = names /\ \A s \in names : E[s] = "skipped" OBVIOUS
    <2>2. Push(E) BY <1>7
    <2> HIDE DEF E
    <2>3. "skipped" \in Statuses BY DEF Statuses
    <2>4. /\ stages' \in [Stages -> Seq(Statuses)]
          /\ stages'["symbolicate_finalize"] = stages["symbolicate_finalize"]
          /\ Failed("global_shapes")' <=> Failed("global_shapes")
          /\ OthersOk' => OthersOk
      BY <1>6, <2>1, <2>2, <2>3, PlainPush
    <2>5. faults' \in 0 .. MaxFaults BY <1>6, <1>7, NoFault
    <2> QED BY <1>1, <1>2, <1>3, <1>4, <1>5, <1>6, <1>7, <2>4, <2>5, Forward
  <1>8. CASE opts.noThumb /\ Fault({}) /\ Push([thumb_enrich |-> "skipped"])
             /\ UNCHANGED <<res, row, disk>>
    <2>1. [thumb_enrich |-> "skipped"] = [s \in {"thumb_enrich"} |-> "skipped"] OBVIOUS
    <2>2. {"thumb_enrich"} \in SUBSET Plain BY DEF Plain, Stages
    <2> QED BY <1>7, <1>8, <2>1, <2>2
  <1>9. CASE ~report /\ Fault({})
             /\ Push([s \in {"thumb_enrich"}
                         \union (IF opts.noSymbol THEN {} ELSE {"thumb_enrich_post_pass2"})
                     |-> "skipped"])
             /\ UNCHANGED <<res, row, disk>>
    <2>1. {"thumb_enrich"} \union (IF opts.noSymbol THEN {} ELSE {"thumb_enrich_post_pass2"})
             \in SUBSET Plain
      BY DEF Plain, Stages
    <2> QED BY <1>7, <1>9, <2>1
  <1>10. CASE report /\ (\E bad \in SUBSET Images : Sweep(bad, "thumb_enrich"))
              /\ Rows(FromResults(res'))
    <2>1. PICK bad \in SUBSET Images : Sweep(bad, "thumb_enrich") BY <1>10
    <2>2. "thumb_enrich" \in Plain BY DEF Plain, Stages
    <2>3. row' = IF haveRows THEN FromResults(res') ELSE row BY <1>10 DEF Rows
    <2>4. /\ stages' \in [Stages -> Seq(Statuses)] /\ faults' \in 0 .. MaxFaults
          /\ stages'["symbolicate_finalize"] = stages["symbolicate_finalize"]
          /\ Failed("global_shapes")' <=> Failed("global_shapes")
          /\ res' \in [Images -> Results] /\ disk' \in [Images -> Trees]
          /\ \A i \in Images : /\ res'[i].outcome = res[i].outcome
                               /\ res'[i].thumb = res[i].thumb
                               /\ res'[i].globals = res[i].globals
                               /\ res'[i].pass2 = res[i].pass2
                               /\ disk'[i].functions = disk[i].functions
                               /\ disk'[i].globals = disk[i].globals
                               /\ disk'[i].text = disk[i].text
          /\ OthersOk' => /\ OthersOk
                          /\ \A i \in Images : res'[i].enrichError = res[i].enrichError
      BY <1>0, <2>1, <2>2, SweepWorks
    <2>5. haveRows => \A i \in Images : row'[i] = [base |-> res'[i], kept |-> kept'[i]]
      BY <1>1, <1>4, <2>3 DEF FromResults
    <2>6. row' \in [Images -> [base : Results, kept : Kepts]]
      <3>1. CASE haveRows
        <4>1. \A i \in Images : row'[i] = [base |-> res'[i], kept |-> kept[i]]
          BY <1>1, <2>5, <3>1
        <4>2. ASSUME NEW i \in Images PROVE row'[i] \in [base : Results, kept : Kepts]
          <5>1. res'[i] \in Results /\ kept[i] \in Kepts BY <1>6, <2>4
          <5>2. row'[i] = [base |-> res'[i], kept |-> kept[i]] BY <4>1
          <5> QED BY <5>1, <5>2
        <4>3. row' = [i \in Images |-> row'[i]] BY <2>3, <3>1 DEF FromResults
        <4> QED BY <4>2, <4>3
      <3>2. CASE ~haveRows BY <1>6, <2>3, <3>2
      <3> QED BY <3>1, <3>2
    <2>7. OthersOk' => OthersOk /\ \A i \in Images : ~res'[i].enrichError BY <1>5, <2>4
    <2> QED BY <1>1, <1>2, <1>3, <1>4, <1>6, <2>4, <2>5, <2>6, <2>7, Forward
  <1> QED BY <1>8, <1>9, <1>10, Zenon DEF ThumbEnrich

LEMMA EarlyKeep ==
    ASSUME IInv, At \in Early, NEW g \in Groups, kept' \in [Images -> Kepts],
           \A i \in Images : \A h \in Groups :
              (h = g /\ kept'[i][h] # "none") \/ kept'[i][h] = kept[i][h],
           Rows(Reapply(row, {g}, kept')), res' = res
    PROVE  /\ row' \in [Images -> [base : Results, kept : Kepts]]
           /\ haveRows => \A i \in Images : row'[i] = [base |-> res'[i], kept |-> kept'[i]]
  <1>1. /\ kept \in [Images -> Kepts] /\ row \in [Images -> [base : Results, kept : Kepts]]
        /\ res \in [Images -> Results]
    BY DEF IInv, ShapeInv
  <1>2. CASE haveRows
    <2>1. ASSUME NEW i \in Images
          PROVE  /\ row[i] = RowOf(row[i].base, row[i].kept)
                 /\ row[i].base = res[i] /\ row[i].kept = kept[i]
      <3>1. row[i] = [base |-> res[i], kept |-> kept[i]] BY <1>2, EarlyRows
      <3> QED BY <3>1 DEF RowOf
    <2>2. \A i \in Images : kept'[i] = [h \in Groups |-> kept'[i][h]] BY KeptFunctions
    <2>3. \A i \in Images : \A h \in Groups :
              (h \in {g} /\ kept'[i][h] # "none") \/ row[i].kept[h] = kept'[i][h]
      BY <2>1
    <2>4. /\ Reapply(row, {g}, kept') = [i \in Images |-> Reapply(row, {g}, kept')[i]]
          /\ \A i \in Images :
                Reapply(row, {g}, kept')[i] = RowOf(row[i].base, kept'[i])
      BY <2>1, <2>2, <2>3, ReapplyWorks
    <2>5. row' = Reapply(row, {g}, kept') BY <1>2 DEF Rows
    <2>6. /\ row' = [i \in Images |-> row'[i]]
          /\ \A i \in Images : row'[i] = RowOf(row[i].base, kept'[i])
      BY <2>4, <2>5
    <2>7. ASSUME NEW i \in Images
          PROVE  /\ row'[i] = [base |-> res[i], kept |-> kept'[i]]
                 /\ row'[i] \in [base : Results, kept : Kepts]
      <3>1. res[i] \in Results /\ kept'[i] \in Kepts BY <1>1
      <3>2. row'[i] = [base |-> res[i], kept |-> kept'[i]] BY <2>1, <2>6 DEF RowOf
      <3> QED BY <3>1, <3>2
    <2>8. row' \in [Images -> [base : Results, kept : Kepts]] BY <2>6, <2>7
    <2> QED BY <2>7, <2>8
  <1>3. CASE ~haveRows BY <1>1, <1>3 DEF Rows
  <1> QED BY <1>2, <1>3

LEMMA DebugTracesStep == ASSUME IInv, DebugTraces PROVE IInv'
  <1>0. ShapeInv /\ TodoInv BY DEF IInv
  <1>1. /\ Step("DebugTraces") /\ Continue
        /\ UNCHANGED <<report, res, haveRows, disk, contexts, retained, snap, maps, scheduled,
                       pruned, opts>>
    BY DEF DebugTraces, afterPass1
  <1>2. TodoInv' /\ At = "DebugTraces" /\ At' = "SourceTree" BY <1>0, <1>1, Goes DEF Edge
  <1>3. At \in Early /\ At' \in Early BY <1>2 DEF Early
  <1>4. /\ haveRows => \A i \in Images : row[i] = [base |-> res[i], kept |-> kept[i]]
        /\ \A i \in Images : kept[i].shapes = "none" /\ kept[i].types = "none"
        /\ \A i \in Images : kept[i] = Nulls /\ kept[i].startup # "failed"
    BY <1>2, <1>3, EarlyRows DEF Nulls, Groups
  <1>5. OthersOk => \A i \in Images : ~res[i].enrichError BY DEF IInv, HonestInv
  <1>6. /\ stages \in [Stages -> Seq(Statuses)] /\ faults \in 0 .. MaxFaults
        /\ res \in [Images -> Results] /\ disk \in [Images -> Trees]
        /\ kept \in [Images -> Kepts] /\ row \in [Images -> [base : Results, kept : Kepts]]
    BY <1>0 DEF ShapeInv
  <1>7. ASSUME NEW traces \in Statuses, NEW refs \in Statuses,
               Push([debug_traces |-> traces, debug_traces_refs |-> refs])
        PROVE  /\ stages' \in [Stages -> Seq(Statuses)]
               /\ stages'["symbolicate_finalize"] = stages["symbolicate_finalize"]
               /\ Failed("global_shapes")' <=> Failed("global_shapes")
               /\ OthersOk' => OthersOk
    <2> DEFINE E == [debug_traces |-> traces, debug_traces_refs |-> refs]
    <2>1. DOMAIN E \subseteq Plain BY DEF Plain, Stages
    <2>2. \A s \in DOMAIN E : E[s] \in Statuses OBVIOUS
    <2>3. Push(E) BY <1>7
    <2> HIDE DEF E
    <2> QED BY <1>6, <2>1, <2>2, <2>3, PlainPush
  <1>8. ASSUME NEW traces \in Statuses, NEW refs \in Statuses,
               Push([debug_traces |-> traces, debug_traces_refs |-> refs]),
               faults' \in 0 .. MaxFaults, UNCHANGED <<kept, row>>
        PROVE  IInv'
    BY <1>1, <1>2, <1>3, <1>4, <1>5, <1>6, <1>7, <1>8, Forward
  <1>9. {"ok", "failed", "skipped"} \subseteq Statuses BY DEF Statuses
  <1>10. CASE Fault({}) /\ Push([debug_traces |-> "skipped", debug_traces_refs |-> "skipped"])
              /\ UNCHANGED <<kept, row>>
    <2>1. faults' \in 0 .. MaxFaults BY <1>6, <1>10, NoFault
    <2> QED BY <1>8, <1>9, <1>10, <2>1
  <1>11. CASE Fault({"debug_traces"})
              /\ Push([debug_traces |-> "failed", debug_traces_refs |-> "skipped"])
              /\ UNCHANGED <<kept, row>>
    <2>1. faults' \in 0 .. MaxFaults BY <1>6, <1>11, OneFault
    <2> QED BY <1>8, <1>9, <1>11, <2>1
  <1>12. CASE \E refs \in Statuses :
                /\ Main \in Images
                /\ Fault(IF refs = "failed" THEN {"debug_traces_refs"} ELSE {})
                /\ Push([debug_traces |-> "ok", debug_traces_refs |-> refs])
                /\ kept' = Keep("dbt", {Main}, [i \in Images |-> "counted"])
                /\ Rows(Reapply(row, {"dbt"}, kept'))
    <2> DEFINE f == [i \in Images |-> "counted"]
               S == {Main}
    <2>1. PICK refs \in Statuses :
                /\ Main \in Images
                /\ Fault(IF refs = "failed" THEN {"debug_traces_refs"} ELSE {})
                /\ Push([debug_traces |-> "ok", debug_traces_refs |-> refs])
                /\ kept' = Keep("dbt", S, f)
                /\ Rows(Reapply(row, {"dbt"}, kept'))
      BY <1>12
    <2>2. faults' \in 0 .. MaxFaults
      <3>1. CASE refs = "failed" BY <1>6, <2>1, <3>1, OneFault
      <3>2. CASE refs # "failed" BY <1>6, <2>1, <3>2, NoFault
      <3> QED BY <3>1, <3>2
    <2>3. /\ stages' \in [Stages -> Seq(Statuses)]
          /\ stages'["symbolicate_finalize"] = stages["symbolicate_finalize"]
          /\ Failed("global_shapes")' <=> Failed("global_shapes")
          /\ OthersOk' => OthersOk
      BY <1>7, <1>9, <2>1
    <2>4. /\ \A i \in S : f[i] # "none"
          /\ \A i \in Images : f[i] = "counted"
          /\ S \in SUBSET Images /\ "dbt" \in Groups
      BY <2>1 DEF Groups
    <2> HIDE DEF f, S
    <2>5. /\ kept' = [i \in Images |-> kept'[i]]
          /\ \A i \in Images :
               /\ kept'[i] = [h \in Groups |-> kept'[i][h]]
               /\ \A h \in Groups : h # "dbt" \/ i \notin S => kept'[i][h] = kept[i][h]
               /\ i \in S => kept'[i]["dbt"] = f[i]
      BY <1>6, <2>1, <2>4, KeepWorks
    <2>6. ASSUME NEW i \in Images
          PROVE  /\ kept'[i] \in Kepts
                 /\ kept'[i].shapes = "none" /\ kept'[i].types = "none"
                 /\ kept'[i].startup # "failed"
      <3>1. /\ kept'[i]["dbt"] \in {"counted", kept[i]["dbt"]}
            /\ kept'[i]["startup"] = kept[i]["startup"] /\ kept'[i]["ss"] = kept[i]["ss"]
            /\ kept'[i]["shapes"] = kept[i]["shapes"] /\ kept'[i]["types"] = kept[i]["types"]
        BY <2>4, <2>5 DEF Groups
      <3>2. kept'[i] = [h \in Groups |-> kept'[i][h]] BY <2>5
      <3>3. kept[i] \in Kepts BY <1>6
      <3>4. kept'[i] \in Kepts BY <3>1, <3>2, <3>3, KeptFunctions
      <3> QED BY <1>4, <3>1, <3>4
    <2>7. kept' \in [Images -> Kepts] BY <2>5, <2>6
    <2>8. /\ row' \in [Images -> [base : Results, kept : Kepts]]
          /\ haveRows => \A i \in Images : row'[i] = [base |-> res'[i], kept |-> kept'[i]]
      <3>1. \A i \in Images : \A h \in Groups :
               (h = "dbt" /\ kept'[i][h] # "none") \/ kept'[i][h] = kept[i][h]
        BY <2>4, <2>5
      <3> QED BY <1>1, <1>3, <2>1, <2>4, <2>7, <3>1, EarlyKeep
    <2> QED BY <1>1, <1>2, <1>3, <1>5, <1>6, <2>2, <2>3, <2>6, <2>7, <2>8, Forward
  <1> QED BY <1>10, <1>11, <1>12, Zenon DEF DebugTraces

LEMMA StartupStep == ASSUME IInv, StartupMetadata PROVE IInv'
  <1>0. ShapeInv /\ TodoInv BY DEF IInv
  <1>1. /\ Step("StartupMetadata") /\ Continue
        /\ UNCHANGED <<report, res, haveRows, disk, contexts, retained, snap, maps, scheduled,
                       pruned, opts>>
    BY DEF StartupMetadata, afterPass1
  <1>2. TodoInv' /\ At = "StartupMetadata" /\ At' = "SymbolMap" BY <1>0, <1>1, Goes DEF Edge
  <1>3. At \in Early /\ At' \in Early BY <1>2 DEF Early
  <1>4. /\ haveRows => \A i \in Images : row[i] = [base |-> res[i], kept |-> kept[i]]
        /\ \A i \in Images : kept[i].shapes = "none" /\ kept[i].types = "none"
    BY <1>3, EarlyRows
  <1>5. OthersOk => \A i \in Images : ~res[i].enrichError /\ kept[i].startup # "failed"
    BY DEF IInv, HonestInv
  <1>6. /\ stages \in [Stages -> Seq(Statuses)] /\ faults \in 0 .. MaxFaults
        /\ res \in [Images -> Results] /\ disk \in [Images -> Trees]
        /\ kept \in [Images -> Kepts] /\ row \in [Images -> [base : Results, kept : Kepts]]
    BY <1>0 DEF ShapeInv
  <1>7. ASSUME NEW status \in Statuses, Push([startup_metadata |-> status])
        PROVE  /\ stages' \in [Stages -> Seq(Statuses)]
               /\ stages'["symbolicate_finalize"] = stages["symbolicate_finalize"]
               /\ Failed("global_shapes")' <=> Failed("global_shapes")
               /\ OthersOk' <=> OthersOk /\ status # "failed"
    <2>1. [startup_metadata |-> status] = [s \in {"startup_metadata"} |-> status] OBVIOUS
    <2>2. "startup_metadata" \in Plain BY DEF Plain, Stages
    <2>3. Push([s \in {"startup_metadata"} |-> status]) BY <1>7, <2>1
    <2> QED BY <1>6, <2>2, <2>3, PlainOne
  <1>8. CASE Fault({}) /\ Push([startup_metadata |-> "skipped"]) /\ UNCHANGED <<kept, row>>
    <2>1. faults' \in 0 .. MaxFaults BY <1>6, <1>8, NoFault
    <2>2. /\ stages' \in [Stages -> Seq(Statuses)]
          /\ stages'["symbolicate_finalize"] = stages["symbolicate_finalize"]
          /\ Failed("global_shapes")' <=> Failed("global_shapes")
          /\ OthersOk' => OthersOk
      <3>1. "skipped" \in Statuses BY DEF Statuses
      <3> QED BY <1>7, <1>8, <3>1
    <2> QED BY <1>1, <1>2, <1>3, <1>4, <1>5, <1>6, <1>8, <2>1, <2>2, Forward
  <1>9. ASSUME NEW found \in SUBSET {i \in Images : res[i].outcome = "analyzed"},
               NEW bad \in SUBSET {i \in Images : res[i].outcome = "analyzed"},
               NEW lost \in SUBSET Images, NEW f, Fault({<<"startup", i>> : i \in bad}),
               f = [i \in Images |-> IF i \in bad \union lost THEN "failed"
                                     ELSE IF i \in found THEN "present" ELSE "skipped"],
               kept' = Keep("startup", Images, f), Rows(Reapply(row, {"startup"}, kept')),
               Push([startup_metadata |-> Verdict(bad \union lost)])
        PROVE  IInv'
    <2>1. faults' \in 0 .. MaxFaults
      <3>1. bad \in SUBSET Images OBVIOUS
      <3>2. IsFiniteSet({<<"startup", i>> : i \in bad}) BY <3>1, Tagged
      <3>3. faults \in 0 .. MaxFaults BY <1>6
      <3> QED BY <1>9, <3>2, <3>3, FaultOk
    <2>2. /\ stages' \in [Stages -> Seq(Statuses)]
          /\ stages'["symbolicate_finalize"] = stages["symbolicate_finalize"]
          /\ Failed("global_shapes")' <=> Failed("global_shapes")
          /\ OthersOk' => OthersOk /\ bad \union lost = {}
      <3>1. Verdict(bad \union lost) \in Statuses
            /\ (Verdict(bad \union lost) # "failed" => bad \union lost = {})
        BY DEF Statuses, Verdict
      <3> QED BY <1>7, <1>9, <3>1
    <2>3. \A i \in Images : /\ f[i] \in {"failed", "present", "skipped"}
                            /\ f[i] = "failed" => i \in bad \union lost
      BY <1>9
    <2>4. "startup" \in Groups BY DEF Groups
    <2>5. /\ kept' = [i \in Images |-> kept'[i]]
          /\ \A i \in Images :
               /\ kept'[i] = [h \in Groups |-> kept'[i][h]]
               /\ \A h \in Groups : h # "startup" => kept'[i][h] = kept[i][h]
               /\ kept'[i]["startup"] = f[i]
      BY <1>6, <1>9, <2>4, KeepWorks
    <2>6. ASSUME NEW i \in Images
          PROVE  /\ kept'[i] \in Kepts /\ kept'[i].shapes = "none" /\ kept'[i].types = "none"
                 /\ kept'[i].startup = f[i]
      <3>1. /\ kept'[i]["startup"] = f[i]
            /\ kept'[i]["dbt"] = kept[i]["dbt"] /\ kept'[i]["ss"] = kept[i]["ss"]
            /\ kept'[i]["shapes"] = kept[i]["shapes"] /\ kept'[i]["types"] = kept[i]["types"]
        BY <2>5 DEF Groups
      <3>2. kept'[i] = [h \in Groups |-> kept'[i][h]] BY <2>5
      <3>3. kept[i] \in Kepts BY <1>6
      <3>4. kept'[i] \in Kepts BY <2>3, <3>1, <3>2, <3>3, KeptFunctions
      <3> QED BY <1>4, <3>1, <3>4
    <2>7. kept' \in [Images -> Kepts] BY <2>5, <2>6
    <2>8. /\ row' \in [Images -> [base : Results, kept : Kepts]]
          /\ haveRows => \A i \in Images : row'[i] = [base |-> res'[i], kept |-> kept'[i]]
      <3>1. \A i \in Images : \A h \in Groups :
               (h = "startup" /\ kept'[i][h] # "none") \/ kept'[i][h] = kept[i][h]
        BY <2>3, <2>5
      <3>2. Rows(Reapply(row, {"startup"}, kept')) BY <1>9
      <3> QED BY <1>1, <1>3, <2>4, <2>7, <3>1, <3>2, EarlyKeep
    <2>9. OthersOk' => OthersOk /\ \A i \in Images : kept'[i].startup # "failed"
      BY <2>2, <2>3, <2>6
    <2> QED BY <1>1, <1>2, <1>3, <1>5, <1>6, <2>1, <2>2, <2>6, <2>7, <2>8, <2>9, Forward
  <1>10. CASE \E found, bad \in SUBSET {i \in Images : res[i].outcome = "analyzed"} :
                LET tried == {i \in Images : res[i].outcome = "analyzed"}
                    lost  == {i \in tried : disk[i].functions = 0}
                    of(i) == IF i \in bad \union lost THEN "failed"
                             ELSE IF i \in found THEN "present" ELSE "skipped"
                IN /\ found \cap bad = {} /\ Fault({<<"startup", i>> : i \in bad})
                   /\ kept' = Keep("startup", Images, [i \in Images |-> of(i)])
                   /\ Rows(Reapply(row, {"startup"}, kept'))
                   /\ Push([startup_metadata |-> Verdict(bad \union lost)])
    <2> DEFINE tried == {i \in Images : res[i].outcome = "analyzed"}
               lost == {i \in tried : disk[i].functions = 0}
    <2>1. PICK found, bad \in SUBSET tried :
                /\ Fault({<<"startup", i>> : i \in bad})
                /\ kept' = Keep("startup", Images,
                                [i \in Images |-> IF i \in bad \union lost THEN "failed"
                                     ELSE IF i \in found THEN "present" ELSE "skipped"])
                /\ Rows(Reapply(row, {"startup"}, kept'))
                /\ Push([startup_metadata |-> Verdict(bad \union lost)])
      BY <1>10
    <2>2. lost \in SUBSET Images OBVIOUS
    <2> HIDE DEF lost
    <2> QED BY <1>9, <2>1, <2>2
  <1> QED BY <1>8, <1>10, Zenon DEF StartupMetadata

LEMMA MapsBuilt ==
    ASSUME IInv, TodoInv', opts' = opts, At = "SymbolMap",
           At' = (IF opts.noSymbol THEN "Finalize" ELSE "RunGlobals"),
           stages' \in [Stages -> Seq(Statuses)], faults' \in 0 .. MaxFaults,
           stages'["symbolicate_finalize"] = stages["symbolicate_finalize"],
           Failed("global_shapes")' <=> Failed("global_shapes"), OthersOk' => OthersOk,
           snap' \subseteq contexts,
           maps' \in [{"function", "global", "types"} -> SUBSET Images],
           maps'["global"] = maps["global"], maps'["types"] = maps["types"],
           kept' \in [Images -> Kepts], row' \in [Images -> [base : Results, kept : Kepts]],
           \A i \in Images : /\ kept'[i].shapes = "none" /\ kept'[i].types = "none"
                             /\ kept'[i].startup = kept[i].startup,
           haveRows => \A i \in Images : row'[i] = [base |-> res[i], kept |-> kept'[i]],
           UNCHANGED <<report, res, retained, haveRows, disk, contexts, scheduled, pruned>>
    PROVE  IInv'
  <1>0. opts.noSymbol \in BOOLEAN BY Flags DEF IInv
  <1> USE DEF Start, BeforeMaps, Final, Dispatched, Typed, Globaled, Swept, Finalized
  <1>1. scheduled = {} BY DEF IInv, ReportInv
  <1>2. ShapeInv' BY <1>1 DEF IInv, ShapeInv
  <1>3. ReportInv' BY <1>0 DEF IInv, ReportInv
  <1>4. RowInv' BY <1>0 DEF RowInv
  <1>5. KeptInv' BY <1>0 DEF KeptInv
  <1>6. GlobalsInv' BY <1>0 DEF IInv, GlobalsInv
  <1>7. BindInv' BY <1>0 DEF IInv, BindInv
  <1>8. HonestInv' BY <1>0 DEF IInv, HonestInv
  <1>9. MapsInv' BY <1>0 DEF IInv, MapsInv
  <1> QED BY <1>2, <1>3, <1>4, <1>5, <1>6, <1>7, <1>8, <1>9 DEF IInv

LEMMA SymbolMapStep == ASSUME IInv, SymbolMap PROVE IInv'
  <1>0. ShapeInv /\ TodoInv BY DEF IInv
  <1>1. /\ Step("SymbolMap") /\ Continue
        /\ UNCHANGED <<opts, report, res, retained, haveRows, disk, contexts, scheduled, pruned>>
    BY DEF SymbolMap
  <1>2. /\ TodoInv' /\ At = "SymbolMap"
        /\ At' = (IF opts.noSymbol THEN "Finalize" ELSE "RunGlobals")
    BY <1>0, <1>1, Goes DEF Edge
  <1>3. At \in Early BY <1>2 DEF Early
  <1>4. /\ haveRows => \A i \in Images : row[i] = [base |-> res[i], kept |-> kept[i]]
        /\ \A i \in Images : kept[i].shapes = "none" /\ kept[i].types = "none"
    BY <1>3, EarlyRows
  <1>6. /\ stages \in [Stages -> Seq(Statuses)] /\ faults \in 0 .. MaxFaults
        /\ maps \in [{"function", "global", "types"} -> SUBSET Images]
        /\ kept \in [Images -> Kepts] /\ row \in [Images -> [base : Results, kept : Kepts]]
        /\ contexts \subseteq Images /\ snap \subseteq contexts
    BY <1>0 DEF ShapeInv
  <1>7. ASSUME NEW status \in Statuses, Push([symbol_map |-> status])
        PROVE  /\ stages' \in [Stages -> Seq(Statuses)]
               /\ stages'["symbolicate_finalize"] = stages["symbolicate_finalize"]
               /\ Failed("global_shapes")' <=> Failed("global_shapes")
               /\ OthersOk' => OthersOk
    <2>1. [symbol_map |-> status] = [s \in {"symbol_map"} |-> status] OBVIOUS
    <2>2. "symbol_map" \in Plain BY DEF Plain, Stages
    <2>3. Push([s \in {"symbol_map"} |-> status]) BY <1>7, <2>1
    <2> QED BY <1>6, <2>2, <2>3, PlainOne
  <1>8. CASE Fault({}) /\ Push([symbol_map |-> "skipped"]) /\ UNCHANGED <<snap, maps, kept, row>>
    <2>1. faults' \in 0 .. MaxFaults BY <1>6, <1>8, NoFault
    <2>2. "skipped" \in Statuses BY DEF Statuses
    <2>3. /\ stages' \in [Stages -> Seq(Statuses)]
          /\ stages'["symbolicate_finalize"] = stages["symbolicate_finalize"]
          /\ Failed("global_shapes")' <=> Failed("global_shapes")
          /\ OthersOk' => OthersOk
      BY <1>7, <1>8, <2>2
    <2> QED BY <1>1, <1>2, <1>4, <1>6, <1>8, <2>1, <2>3, MapsBuilt
  <1>9. CASE \E noSnap, noMap, named \in SUBSET contexts :
                /\ noSnap \cap noMap = {} /\ named \cap (noSnap \union noMap) = {}
                /\ Fault({<<"snap", i>> : i \in noSnap} \union {<<"map", i>> : i \in noMap})
                /\ snap' = contexts \ noSnap
                /\ maps' = [maps EXCEPT !["function"] = named]
                /\ kept' = Keep("ss", snap' \ noMap, [i \in Images |-> "symbol_map"])
                /\ Rows(Reapply(row, {"ss"}, kept'))
                /\ Push([symbol_map |-> IF noSnap \union noMap # {} THEN "failed"
                                        ELSE IF named = {} THEN "skipped" ELSE "ok"])
    <2> DEFINE f == [i \in Images |-> "symbol_map"]
    <2>1. PICK noSnap, noMap, named \in SUBSET contexts :
                /\ Fault({<<"snap", i>> : i \in noSnap} \union {<<"map", i>> : i \in noMap})
                /\ snap' = contexts \ noSnap
                /\ maps' = [maps EXCEPT !["function"] = named]
                /\ kept' = Keep("ss", snap' \ noMap, f)
                /\ Rows(Reapply(row, {"ss"}, kept'))
                /\ Push([symbol_map |-> IF noSnap \union noMap # {} THEN "failed"
                                        ELSE IF named = {} THEN "skipped" ELSE "ok"])
      BY <1>9
    <2> DEFINE S == snap' \ noMap
               v == IF noSnap \union noMap # {} THEN "failed"
                    ELSE IF named = {} THEN "skipped" ELSE "ok"
    <2>2. faults' \in 0 .. MaxFaults
      <3>1. noSnap \in SUBSET Images /\ noMap \in SUBSET Images BY <1>6
      <3>2. /\ IsFiniteSet({<<"snap", i>> : i \in noSnap})
            /\ IsFiniteSet({<<"map", i>> : i \in noMap})
        BY <3>1, Tagged
      <3>3. faults \in 0 .. MaxFaults BY <1>6
      <3> QED BY <2>1, <3>2, <3>3, FS_Union, FaultOk
    <2>3. v \in Statuses BY DEF Statuses
    <2>4. Push([symbol_map |-> v]) /\ kept' = Keep("ss", S, f) BY <2>1
    <2>5. \A i \in Images : f[i] = "symbol_map" OBVIOUS
    <2>6. "ss" \in Groups BY DEF Groups
    <2>7. /\ maps' \in [{"function", "global", "types"} -> SUBSET Images]
          /\ maps'["global"] = maps["global"] /\ maps'["types"] = maps["types"]
          /\ snap' \subseteq contexts
      BY <1>6, <2>1
    <2> HIDE DEF f, S, v
    <2>8. /\ stages' \in [Stages -> Seq(Statuses)]
          /\ stages'["symbolicate_finalize"] = stages["symbolicate_finalize"]
          /\ Failed("global_shapes")' <=> Failed("global_shapes")
          /\ OthersOk' => OthersOk
      BY <1>7, <2>3, <2>4
    <2>9. /\ kept' = [i \in Images |-> kept'[i]]
          /\ \A i \in Images :
               /\ kept'[i] = [h \in Groups |-> kept'[i][h]]
               /\ \A h \in Groups : h # "ss" \/ i \notin S => kept'[i][h] = kept[i][h]
               /\ i \in S => kept'[i]["ss"] = f[i]
      BY <1>6, <2>4, <2>6, KeepWorks
    <2>10. ASSUME NEW i \in Images
           PROVE  /\ kept'[i] \in Kepts /\ kept'[i].shapes = "none" /\ kept'[i].types = "none"
                  /\ kept'[i].startup = kept[i].startup
      <3>1. /\ kept'[i]["ss"] \in {"symbol_map", kept[i]["ss"]}
            /\ kept'[i]["dbt"] = kept[i]["dbt"] /\ kept'[i]["startup"] = kept[i]["startup"]
            /\ kept'[i]["shapes"] = kept[i]["shapes"] /\ kept'[i]["types"] = kept[i]["types"]
        BY <2>5, <2>9 DEF Groups
      <3>2. kept'[i] = [h \in Groups |-> kept'[i][h]] BY <2>9
      <3>3. kept[i] \in Kepts BY <1>6
      <3>4. kept'[i] \in Kepts BY <3>1, <3>2, <3>3, KeptFunctions
      <3> QED BY <1>4, <3>1, <3>4
    <2>11. kept' \in [Images -> Kepts] BY <2>9, <2>10
    <2>12. /\ row' \in [Images -> [base : Results, kept : Kepts]]
           /\ haveRows => \A i \in Images : row'[i] = [base |-> res'[i], kept |-> kept'[i]]
      <3>1. \A i \in Images : \A h \in Groups :
               (h = "ss" /\ kept'[i][h] # "none") \/ kept'[i][h] = kept[i][h]
        BY <2>5, <2>9
      <3>2. Rows(Reapply(row, {"ss"}, kept')) BY <2>1
      <3> QED BY <1>1, <1>3, <2>6, <2>11, <3>1, <3>2, EarlyKeep
    <2> QED BY <1>1, <1>2, <2>2, <2>7, <2>8, <2>10, <2>11, <2>12, MapsBuilt
  <1> QED BY <1>8, <1>9, Zenon DEF SymbolMap

-----------------------------------------------------------------------------
(* The globals and the sweeps of their shapes.                             *)

LEMMA GlobalsFound ==
    ASSUME IInv, TodoInv', opts' = opts, At = "RunGlobals",
           At' = (IF opts.noSymbol THEN "FinalizeText" ELSE "RunGlobalShapes"),
           stages' \in [Stages -> Seq(Statuses)], faults' \in 0 .. MaxFaults,
           stages'["symbolicate_finalize"] = stages["symbolicate_finalize"],
           Failed("global_shapes")' <=> Failed("global_shapes"),
           res' \in [Images -> Results], disk' \in [Images -> Trees],
           row' \in [Images -> [base : Results, kept : Kepts]],
           maps' \in [{"function", "global", "types"} -> SUBSET Images],
           maps'["types"] = maps["types"], opts.noSymbol => maps' = maps,
           \A i \in Images : /\ res'[i].outcome = res[i].outcome
                             /\ res'[i].thumb = res[i].thumb
                             /\ res'[i].enrichError = res[i].enrichError
                             /\ res'[i].pass2 = res[i].pass2
                             /\ disk'[i].functions = disk[i].functions
                             /\ disk'[i].symbols = disk[i].symbols
                             /\ disk'[i].text = disk[i].text,
           report => \A i \in contexts : /\ res'[i].globals # "none"
                                         /\ disk'[i].globals > 0 \/ res'[i].globals = "error",
           OthersOk' => /\ OthersOk
                        /\ \A i \in Images : res'[i].globals # "error",
           haveRows => \A i \in Images : /\ row'[i].kept = kept[i]
                                         /\ opts.noSymbol => row'[i].base = res'[i],
           UNCHANGED <<report, retained, haveRows, kept, contexts, snap, scheduled, pruned>>
    PROVE  IInv'
  <1>0. opts.noSymbol \in BOOLEAN BY Flags DEF IInv
  <1> USE DEF Start, BeforeMaps, Final, Dispatched, Typed, Globaled, Swept, Finalized
  <1>1. contexts \subseteq Images BY DEF IInv, ShapeInv
  <1>2. ShapeInv' BY DEF IInv, ShapeInv
  <1>3. ReportInv'
    <2>1. \A i \in contexts' : res'[i].outcome = "analyzed" /\ disk'[i].functions >= 2
      BY <1>1 DEF IInv, ReportInv
    <2>2. \A i \in Images : res[i].pass2 = "none" BY DEF IInv, ReportInv
    <2>3. \A i \in Images : res'[i].pass2 = "none" BY <2>2
    <2>4. /\ retained' = FALSE /\ scheduled' = {} /\ maps'["types"] = {}
          /\ haveRows' <=> report' \/ retained'
          /\ contexts' # {} => haveRows'
          /\ opts.noSymbol => maps'["global"] = {}
      BY <1>0 DEF IInv, ReportInv, ShapeInv
    <2> QED BY <1>0, <2>1, <2>3, <2>4 DEF ReportInv
  <1>4. RowInv' BY <1>0 DEF RowInv
  <1>5. KeptInv' BY <1>0 DEF IInv, KeptInv
  <1>6. GlobalsInv'
    <2>1. contexts # {} => report BY DEF IInv, ReportInv
    <2>2. ASSUME NEW i \in contexts'
          PROVE  /\ res'[i].globals # "none"
                 /\ disk'[i].globals > 0 \/ res'[i].globals = "error"
                 /\ opts.noSymbol => disk'[i].text = "raw"
      BY <1>0, <1>1, <2>1 DEF IInv, GlobalsInv
    <2> QED BY <1>0, <2>2 DEF GlobalsInv
  <1>7. BindInv' BY <1>0, <1>1 DEF IInv, BindInv
  <1>8. HonestInv' BY <1>0 DEF IInv, HonestInv
  <1>9. MapsInv' BY <1>0 DEF IInv, MapsInv
  <1> QED BY <1>2, <1>3, <1>4, <1>5, <1>6, <1>7, <1>8, <1>9 DEF IInv

LEMMA GlobalsStep == ASSUME IInv, RunGlobals PROVE IInv'
  <1>0. ShapeInv /\ TodoInv BY DEF IInv
  <1>1. /\ Step("RunGlobals") /\ Continue
        /\ UNCHANGED <<opts, report, retained, haveRows, kept, contexts, snap, scheduled, pruned>>
    BY DEF RunGlobals
  <1>2. /\ TodoInv' /\ At = "RunGlobals"
        /\ At' = (IF opts.noSymbol THEN "FinalizeText" ELSE "RunGlobalShapes")
    BY <1>0, <1>1, Goes DEF Edge
  <1>3. /\ stages \in [Stages -> Seq(Statuses)] /\ faults \in 0 .. MaxFaults
        /\ maps \in [{"function", "global", "types"} -> SUBSET Images]
        /\ kept \in [Images -> Kepts] /\ row \in [Images -> [base : Results, kept : Kepts]]
        /\ res \in [Images -> Results] /\ disk \in [Images -> Trees]
        /\ contexts \subseteq Images
    BY <1>0 DEF ShapeInv
  <1> DEFINE active == {i \in Current(Images) : res[i].outcome # "opaque"}
             empty == {i \in active : disk[i].functions = 0}
             done(bad) == active \ (empty \union bad)
             v(bad) == Verdict(bad \union empty)
             G(bad, i) == IF i \in done(bad) THEN "ok"
                          ELSE IF i \in active THEN "error" ELSE res[i].globals
             E(bad) == IF opts.noSymbol
                       THEN [s \in {"globals"} \union DOMAIN RecordOnly |->
                                IF s = "globals" THEN v(bad) ELSE RecordOnly[s]]
                       ELSE [s \in {"globals"} |-> v(bad)]
  <1>4. PICK bad, found \in SUBSET (active \ empty) :
           /\ Fault({<<"globals", i>> : i \in bad})
           /\ res' = [i \in Images |->
                        [res[i] EXCEPT !.globals = IF i \in done(bad) THEN "ok"
                                                   ELSE IF i \in active THEN "error" ELSE @]]
           /\ disk' = [i \in Images |-> IF i \in done(bad)
                                        THEN [disk[i] EXCEPT !.globals = @ + 1] ELSE disk[i]]
           /\ Push(E(bad))
           /\ opts.noSymbol =>
                /\ Rows(IF report THEN Reapply(FromResults(res'), {"dbt", "startup", "ss"}, kept)
                        ELSE row)
                /\ maps' = maps
           /\ ~opts.noSymbol => row' = row /\ maps' = [maps EXCEPT !["global"] = found]
    <2>1. PICK bad, found \in SUBSET (active \ empty) :
             LET verdict == [s \in {"globals"} |-> v(bad)]
             IN /\ Fault({<<"globals", i>> : i \in bad})
                /\ res' = [i \in Images |->
                             [res[i] EXCEPT !.globals = IF i \in done(bad) THEN "ok"
                                                        ELSE IF i \in active THEN "error" ELSE @]]
                /\ disk' = [i \in Images |-> IF i \in done(bad)
                                             THEN [disk[i] EXCEPT !.globals = @ + 1]
                                             ELSE disk[i]]
                /\ IF opts.noSymbol
                   THEN /\ Push([s \in DOMAIN verdict \union DOMAIN RecordOnly |->
                                   IF s = "globals" THEN verdict[s] ELSE RecordOnly[s]])
                        /\ Rows(IF report THEN Reapply(FromResults(res'),
                                                       {"dbt", "startup", "ss"}, kept)
                                ELSE row)
                        /\ UNCHANGED maps
                   ELSE /\ Push(verdict)
                        /\ maps' = [maps EXCEPT !["global"] = found]
                        /\ UNCHANGED row
      BY DEF RunGlobals
    <2> DEFINE verdict == [s \in {"globals"} |-> v(bad)]
               W == [s \in DOMAIN verdict \union DOMAIN RecordOnly |->
                                   IF s = "globals" THEN verdict[s] ELSE RecordOnly[s]]
    <2>2. opts.noSymbol => W = E(bad) OBVIOUS
    <2>3. ~opts.noSymbol => verdict = E(bad) OBVIOUS
    <2> HIDE DEF active, empty, done, v, E
    <2>4. CASE opts.noSymbol
      <3>1. Push(W) BY <2>1, <2>4
      <3>2. Push(E(bad)) BY <2>2, <2>4, <3>1
      <3> QED BY <2>1, <2>4, <3>2
    <2>5. CASE ~opts.noSymbol
      <3>1. Push(verdict) BY <2>1, <2>5
      <3>2. Push(E(bad)) BY <2>3, <2>5, <3>1
      <3> QED BY <2>1, <2>5, <3>2
    <2> QED BY <2>4, <2>5
  <1>5. /\ active \subseteq Images /\ empty \subseteq active /\ (report => active =
              {i \in Images : res[i].outcome # "opaque"})
        /\ \A i \in active : i \in empty <=> disk[i].functions = 0
        /\ bad \subseteq Images /\ found \subseteq Images
    BY DEF Current
  <1>6. /\ v(bad) \in Statuses /\ (v(bad) # "failed" <=> bad \union empty = {})
    BY DEF Verdict, Statuses
  <1>7. /\ stages' \in [Stages -> Seq(Statuses)]
        /\ stages'["symbolicate_finalize"] = stages["symbolicate_finalize"]
        /\ Failed("global_shapes")' <=> Failed("global_shapes")
        /\ OthersOk' => OthersOk /\ bad \union empty = {}
    <2> HIDE DEF active, empty, v
    <2>1. /\ DOMAIN E(bad) \subseteq Plain /\ "globals" \in DOMAIN E(bad)
          /\ E(bad)["globals"] = v(bad)
          /\ \A s \in DOMAIN E(bad) : E(bad)[s] \in Statuses
      BY <1>6 DEF RecordOnly, Plain, Stages, Statuses
    <2> HIDE DEF E
    <2>2. /\ stages' \in [Stages -> Seq(Statuses)]
          /\ stages'["symbolicate_finalize"] = stages["symbolicate_finalize"]
          /\ Failed("global_shapes")' <=> Failed("global_shapes")
          /\ OthersOk' <=> OthersOk /\ \A s \in DOMAIN E(bad) : E(bad)[s] # "failed"
      BY <1>3, <1>4, <2>1, PlainPush
    <2> QED BY <1>6, <2>1, <2>2
  <1>8. faults' \in 0 .. MaxFaults
    <2>1. bad \in SUBSET Images BY <1>5
    <2>2. IsFiniteSet({<<"globals", i>> : i \in bad}) BY <2>1, Tagged
    <2>3. faults \in 0 .. MaxFaults BY <1>3
    <2> QED BY <1>4, <2>2, <2>3, FaultOk
  <1> HIDE DEF active, empty, v, E
  <1>9. ASSUME NEW i \in Images
        PROVE  /\ res'[i] \in Results
               /\ res'[i].outcome = res[i].outcome /\ res'[i].thumb = res[i].thumb
               /\ res'[i].enrichError = res[i].enrichError /\ res'[i].pass2 = res[i].pass2
               /\ res'[i].globals = G(bad, i)
    <2>1. res[i] \in Results BY <1>3
    <2>2. res'[i] = [res[i] EXCEPT !.globals = G(bad, i)] BY <1>4
    <2>3. G(bad, i) \in {"none", "ok", "error"} BY <2>1 DEF Results
    <2> HIDE DEF G
    <2> QED BY <2>1, <2>2, <2>3 DEF Results
  <1>10. ASSUME NEW i \in Images
         PROVE  /\ disk'[i] \in Trees
                /\ disk'[i].functions = disk[i].functions /\ disk'[i].symbols = disk[i].symbols
                /\ disk'[i].text = disk[i].text
                /\ i \in done(bad) => disk'[i].globals > 0
    <2>1. disk[i] \in Trees BY <1>3
    <2>2. \/ disk'[i] = disk[i] /\ i \notin done(bad)
          \/ disk'[i] = [disk[i] EXCEPT !.globals = @ + 1]
      BY <1>4
    <2> HIDE DEF done
    <2> QED BY <2>1, <2>2 DEF Trees
  <1>11. res' \in [Images -> Results] /\ disk' \in [Images -> Trees]
    <2>1. res' = [i \in Images |-> res'[i]] /\ disk' = [i \in Images |-> disk'[i]] BY <1>4
    <2> QED BY <1>9, <1>10, <2>1
  <1>12. report => \A i \in contexts : /\ res'[i].globals # "none"
                                       /\ disk'[i].globals > 0 \/ res'[i].globals = "error"
    <2>1. SUFFICES ASSUME report, NEW i \in contexts
                   PROVE  /\ res'[i].globals # "none"
                          /\ disk'[i].globals > 0 \/ res'[i].globals = "error"
      OBVIOUS
    <2>2. i \in Images /\ i \in active BY <1>3, <1>5, <2>1 DEF IInv, ReportInv
    <2>3. res'[i].globals = (IF i \in done(bad) THEN "ok" ELSE "error") BY <1>9, <2>2
    <2> QED BY <1>10, <2>2, <2>3
  <1>13. OthersOk' => OthersOk /\ \A i \in Images : res'[i].globals # "error"
    <2>1. OthersOk => \A i \in Images : res[i].globals # "error" BY DEF IInv, HonestInv
    <2> QED BY <1>7, <1>9, <2>1
  <1>14. /\ maps' \in [{"function", "global", "types"} -> SUBSET Images]
         /\ maps'["types"] = maps["types"] /\ (opts.noSymbol => maps' = maps)
    BY <1>3, <1>4, <1>5
  <1>15. haveRows => /\ report
                     /\ \A i \in Images : /\ kept[i].shapes = "none" /\ kept[i].types = "none"
                                          /\ row[i].kept = kept[i]
    BY <1>2 DEF IInv, ReportInv, KeptInv, RowInv, Swept, Typed, Dispatched, Final
  <1>16. /\ row' \in [Images -> [base : Results, kept : Kepts]]
         /\ haveRows => \A i \in Images : /\ row'[i].kept = kept[i]
                                          /\ opts.noSymbol => row'[i].base = res'[i]
    <2>1. CASE opts.noSymbol /\ haveRows
      <3> DEFINE gs == {"dbt", "startup", "ss"}
                 rs == FromResults(res')
      <3>1. row' = Reapply(rs, gs, kept) BY <1>4, <1>15, <2>1 DEF Rows
      <3>2. \A i \in Images : rs[i] = RowOf(res'[i], Nulls) BY DEF FromResults, RowOf
      <3>3. ASSUME NEW i \in Images
            PROVE  rs[i].base = res'[i] /\ rs[i].kept = Nulls
        <4> HIDE DEF rs
        <4>1. rs[i] = RowOf(res'[i], Nulls) BY <3>2
        <4> QED BY <4>1 DEF RowOf
      <3>4. \A i \in Images : kept[i] = [g \in Groups |-> kept[i][g]] BY <1>3, KeptFunctions
      <3>5. \A i \in Images : \A g \in Groups :
              (g \in gs /\ kept[i][g] # "none") \/ rs[i].kept[g] = kept[i][g]
        BY <1>15, <2>1, <3>3 DEF Groups, Nulls
      <3>6. \A i \in Images : rs[i] = RowOf(rs[i].base, rs[i].kept) BY <3>2, <3>3
      <3> HIDE DEF gs, rs
      <3>7. /\ row' = [i \in Images |-> row'[i]]
            /\ \A i \in Images : row'[i] = RowOf(rs[i].base, kept[i])
        <4>1. /\ Reapply(rs, gs, kept) = [i \in Images |-> Reapply(rs, gs, kept)[i]]
              /\ \A i \in Images : Reapply(rs, gs, kept)[i] = RowOf(rs[i].base, kept[i])
          BY <3>4, <3>5, <3>6, ReapplyWorks
        <4> QED BY <3>1, <4>1
      <3>8. ASSUME NEW i \in Images
            PROVE  /\ row'[i].kept = kept[i] /\ row'[i].base = res'[i]
                   /\ row'[i] \in [base : Results, kept : Kepts]
        <4>1. row'[i] = RowOf(res'[i], kept[i]) BY <3>3, <3>7
        <4>2. res'[i] \in Results /\ kept[i] \in Kepts BY <1>3, <1>9
        <4> QED BY <4>1, <4>2 DEF RowOf
      <3> QED BY <3>7, <3>8
    <2>2. CASE ~opts.noSymbol BY <1>3, <1>4, <1>15, <2>2
    <2>3. CASE ~haveRows BY <1>3, <1>4, <2>3 DEF Rows
    <2> QED BY <2>1, <2>2, <2>3
  <1> QED BY <1>1, <1>2, <1>7, <1>8, <1>9, <1>10, <1>11, <1>12, <1>13, <1>14, <1>16, GlobalsFound

LEMMA ShapesSwept ==
    ASSUME IInv, TodoInv', opts' = opts,
           \/ At = "RunGlobalShapes"
              /\ At' = (IF opts.noSymbol THEN "Decoders" ELSE "DispatchPass2")
           \/ At = "RefreshGlobalShapes" /\ At' = "Decoders" /\ ~opts.noSymbol,
           stages' \in [Stages -> Seq(Statuses)], faults' \in 0 .. MaxFaults,
           stages'["symbolicate_finalize"] = stages["symbolicate_finalize"],
           OthersOk' <=> OthersOk,
           disk' \in [Images -> Trees], kept' \in [Images -> Kepts],
           row' \in [Images -> [base : Results, kept : Kepts]],
           \A i \in Images : /\ kept'[i].startup = kept[i].startup
                             /\ kept'[i].types = kept[i].types
                             /\ disk'[i].functions = disk[i].functions
                             /\ disk'[i].globals = disk[i].globals
                             /\ disk'[i].text = disk[i].text
                             /\ disk'[i].symbols = disk[i].symbols,
           ~Failed("global_shapes")' => \A i \in Images : kept'[i].shapes # "failed",
           haveRows => \A i \in Images :
              /\ row'[i].base = row[i].base /\ row'[i].kept = kept'[i]
              /\ kept'[i].shapes = "ok" => disk'[i].shapes = Inputs(i)'
              /\ kept'[i].shapes = "none" => res[i].outcome = "opaque",
           UNCHANGED <<report, res, retained, haveRows, contexts, snap, maps, scheduled, pruned>>
    PROVE  IInv'
  <1>0. opts.noSymbol \in BOOLEAN BY Flags DEF IInv
  <1> USE DEF Start, BeforeMaps, Final, Dispatched, Typed, Globaled, Swept, Finalized
  <1>1. contexts \subseteq Images BY DEF IInv, ShapeInv
  <1>2. ShapeInv' BY DEF IInv, ShapeInv
  <1>3. ReportInv' BY <1>0, <1>1 DEF IInv, ReportInv
  <1>4. RowInv' BY <1>0 DEF IInv, RowInv
  <1>5. KeptInv' BY <1>0 DEF IInv, KeptInv
  <1>6. GlobalsInv' BY <1>0, <1>1 DEF IInv, GlobalsInv
  <1>7. BindInv'
    <2>1. ~Finalized' => stages'["symbolicate_finalize"] = <<>>
      BY <1>0 DEF IInv, BindInv
    <2>2. LET f == stages'["symbolicate_finalize"] IN
          f # <<>> /\ f[Len(f)] = "ok" =>
              \A i \in contexts' : disk'[i].symbols = disk'[i].functions
      BY <1>1 DEF IInv, BindInv
    <2>3. ASSUME haveRows', NEW i \in Images
          PROVE  /\ kept'[i].shapes = "ok" => disk'[i].shapes = Inputs(i)'
                 /\ ReportOk' /\ i \in contexts' => kept'[i].shapes = "ok"
      <3>1. kept'[i].shapes \in {"none", "ok", "failed"} BY DEF Kepts
      <3>2. i \in contexts' => res[i].outcome = "analyzed" BY DEF IInv, ReportInv
      <3>3. ReportOk' => kept'[i].shapes # "failed" BY ReportOkSplit
      <3> QED BY <2>3, <3>1, <3>2, <3>3
    <2> QED BY <2>1, <2>2, <2>3 DEF BindInv
  <1>8. HonestInv' BY <1>0 DEF IInv, HonestInv
  <1>9. MapsInv' BY <1>0 DEF IInv, MapsInv
  <1> QED BY <1>2, <1>3, <1>4, <1>5, <1>6, <1>7, <1>8, <1>9 DEF IInv

LEMMA Recorded ==
    ASSUME stages \in [Stages -> Seq(Statuses)], NEW status \in Statuses, RecordShapes(status)
    PROVE  /\ stages' \in [Stages -> Seq(Statuses)]
           /\ stages'["symbolicate_finalize"] = stages["symbolicate_finalize"]
           /\ OthersOk' <=> OthersOk
           /\ Failed("global_shapes")' <=> status = "failed"
  <1>1. stages' = [stages EXCEPT !["global_shapes"] = <<status>>] BY DEF RecordShapes
  <1>2. <<status>> \in Seq(Statuses) OBVIOUS
  <1>3. \A s \in Stages \ {"global_shapes"} : stages'[s] = stages[s] BY <1>1
  <1>4. stages'["global_shapes"] = <<status>> BY <1>1, NamesApart
  <1>5. stages' \in [Stages -> Seq(Statuses)] BY <1>1, <1>2, NamesApart
  <1>6. \A s \in Stages \ {"global_shapes"} : Failed(s)' <=> Failed(s) BY <1>3 DEF Failed
  <1>7. OthersOk' <=> OthersOk BY <1>6, Zenon DEF OthersOk
  <1>8. Failed("global_shapes")' <=> status = "failed"
    <2>1. Len(<<status>>) = 1 /\ <<status>>[1] = status OBVIOUS
    <2> QED BY <1>4, <2>1 DEF Failed
  <1> QED BY <1>3, <1>5, <1>7, <1>8, NamesApart

LEMMA GlobalShapesStep == ASSUME IInv, GlobalShapes PROVE IInv'
  <1>0. ShapeInv /\ TodoInv BY DEF IInv
  <1>1. /\ Step("RunGlobalShapes") \/ Step("RefreshGlobalShapes")
        /\ Continue /\ ShapesSweep
        /\ UNCHANGED <<opts, report, res, retained, haveRows, contexts, snap, maps,
                       scheduled, pruned>>
    BY DEF GlobalShapes
  <1>2. /\ TodoInv'
        /\ \/ At = "RunGlobalShapes"
              /\ At' = (IF opts.noSymbol THEN "Decoders" ELSE "DispatchPass2")
           \/ At = "RefreshGlobalShapes" /\ At' = "Decoders" /\ ~opts.noSymbol
    <2>1. CASE Step("RunGlobalShapes") BY <1>0, <1>1, <2>1, Goes DEF Edge
    <2>2. CASE Step("RefreshGlobalShapes") BY <1>0, <1>1, <2>2, Goes DEF Edge, Foreign
    <2> QED BY <1>1, <2>1, <2>2
  <1>3. /\ stages \in [Stages -> Seq(Statuses)] /\ faults \in 0 .. MaxFaults
        /\ kept \in [Images -> Kepts] /\ row \in [Images -> [base : Results, kept : Kepts]]
        /\ disk \in [Images -> Trees] /\ "shapes" \in Groups
    BY <1>0 DEF ShapeInv, Groups
  <1>4. haveRows => \A i \in Images : row[i].kept = kept[i] BY <1>2 DEF IInv, RowInv
  <1>5. ASSUME NEW f, \A i \in Images : f[i] \in {"none", "ok", "failed"},
               kept' = Keep("shapes", Images, f)
        PROVE  /\ kept' \in [Images -> Kepts]
               /\ \A i \in Images :
                    /\ kept'[i].startup = kept[i].startup /\ kept'[i].types = kept[i].types
                    /\ kept'[i].shapes = f[i]
                    /\ \A h \in Groups : h # "shapes" => kept'[i][h] = kept[i][h]
                    /\ kept'[i] = [h \in Groups |-> kept'[i][h]]
    <2>1. /\ kept' = [i \in Images |-> kept'[i]]
          /\ \A i \in Images :
               /\ kept'[i] = [h \in Groups |-> kept'[i][h]]
               /\ \A h \in Groups : h # "shapes" => kept'[i][h] = kept[i][h]
               /\ kept'[i]["shapes"] = f[i]
      BY <1>3, <1>5, KeepWorks
    <2>2. ASSUME NEW i \in Images
          PROVE  /\ kept'[i] \in Kepts /\ kept'[i].shapes = f[i]
                 /\ kept'[i].startup = kept[i].startup /\ kept'[i].types = kept[i].types
      <3>1. /\ kept'[i]["shapes"] = f[i]
            /\ kept'[i]["dbt"] = kept[i]["dbt"] /\ kept'[i]["ss"] = kept[i]["ss"]
            /\ kept'[i]["startup"] = kept[i]["startup"] /\ kept'[i]["types"] = kept[i]["types"]
        BY <2>1 DEF Groups
      <3>2. kept'[i] = [h \in Groups |-> kept'[i][h]] BY <2>1
      <3>3. kept[i] \in Kepts BY <1>3
      <3>4. f[i] \in {"none", "ok", "failed"} BY <1>5
      <3> QED BY <3>1, <3>2, <3>3, <3>4, KeptFunctions
    <2>3. kept' \in [Images -> Kepts] BY <2>1, <2>2
    <2> QED BY <2>1, <2>2, <2>3
  <1>6. CASE /\ ~haveRows /\ Fault({}) /\ RecordShapes("skipped")
             /\ kept' = Keep("shapes", Images, [i \in Images |-> "none"])
             /\ UNCHANGED <<row, disk>>
    <2> DEFINE f == [i \in Images |-> "none"]
    <2>1. \A i \in Images : f[i] = "none" OBVIOUS
    <2>2. kept' = Keep("shapes", Images, f) BY <1>6
    <2> HIDE DEF f
    <2>3. /\ kept' \in [Images -> Kepts]
          /\ \A i \in Images :
               /\ kept'[i].startup = kept[i].startup /\ kept'[i].types = kept[i].types
               /\ kept'[i].shapes = "none"
      BY <1>5, <2>1, <2>2
    <2>4. /\ stages' \in [Stages -> Seq(Statuses)]
          /\ stages'["symbolicate_finalize"] = stages["symbolicate_finalize"]
          /\ OthersOk' <=> OthersOk
      BY <1>3, <1>6, Recorded DEF Statuses
    <2>5. faults' \in 0 .. MaxFaults BY <1>3, <1>6, NoFault
    <2> QED BY <1>1, <1>2, <1>3, <1>6, <2>3, <2>4, <2>5, ShapesSwept
  <1>7. ASSUME haveRows, NEW bad \in SUBSET Images, NEW f,
               \A i \in Images : /\ f[i] \in {"none", "ok", "failed"}
                                 /\ f[i] = "none" => res[i].outcome = "opaque",
               Fault({<<"shapes", i>> : i \in bad}),
               kept' = Keep("shapes", Images, f),
               row' = [i \in Images |-> [row[i] EXCEPT !.kept.shapes = f[i]]],
               disk' = [i \in Images |-> IF f[i] = "ok"
                                         THEN [disk[i] EXCEPT !.shapes = Inputs(i)]
                                         ELSE disk[i]],
               RecordShapes(Verdict({i \in Images : f[i] = "failed"}))
        PROVE  IInv'
    <2>1. faults' \in 0 .. MaxFaults
      <3>1. IsFiniteSet({<<"shapes", i>> : i \in bad}) BY Tagged
      <3> QED BY <1>3, <1>7, <3>1, FaultOk
    <2> DEFINE v == Verdict({i \in Images : f[i] = "failed"})
    <2>2. v \in Statuses /\ (v # "failed" => \A i \in Images : f[i] # "failed")
      BY DEF Verdict, Statuses
    <2>3. RecordShapes(v) BY <1>7
    <2> HIDE DEF v
    <2>4. /\ stages' \in [Stages -> Seq(Statuses)]
          /\ stages'["symbolicate_finalize"] = stages["symbolicate_finalize"]
          /\ OthersOk' <=> OthersOk
          /\ Failed("global_shapes")' <=> v = "failed"
      BY <1>3, <2>2, <2>3, Recorded
    <2>5. /\ kept' \in [Images -> Kepts]
          /\ \A i \in Images :
               /\ kept'[i].startup = kept[i].startup /\ kept'[i].types = kept[i].types
               /\ kept'[i].shapes = f[i]
               /\ \A h \in Groups : h # "shapes" => kept'[i][h] = kept[i][h]
               /\ kept'[i] = [h \in Groups |-> kept'[i][h]]
      BY <1>5, <1>7
    <2>6. ASSUME NEW i \in Images
          PROVE  /\ disk'[i] \in Trees
                 /\ disk'[i].functions = disk[i].functions /\ disk'[i].thumb = disk[i].thumb
                 /\ disk'[i].globals = disk[i].globals /\ disk'[i].text = disk[i].text
                 /\ disk'[i].symbols = disk[i].symbols
                 /\ f[i] = "ok" => disk'[i].shapes = Inputs(i)
      <3>1. disk[i] \in Trees BY <1>3
      <3>2. \/ disk'[i] = disk[i] /\ f[i] # "ok"
            \/ disk'[i] = [disk[i] EXCEPT !.shapes = Inputs(i)]
        BY <1>7
      <3>3. Inputs(i) \in Nat \X Nat \X Nat BY <3>1 DEF Inputs, Trees
      <3> DEFINE x == Inputs(i)
      <3> HIDE DEF x
      <3>4. (disk'[i] = disk[i] /\ f[i] # "ok") \/ disk'[i] = [disk[i] EXCEPT !.shapes = x]
        BY <3>2 DEF x
      <3>5. x \in Nat \X Nat \X Nat BY <3>3 DEF x
      <3>6. f[i] = "ok" => disk'[i].shapes = x BY <3>1, <3>4 DEF Trees
      <3>7. disk'[i] \in Trees BY <3>1, <3>4, <3>5 DEF Trees
      <3>8. /\ disk'[i].functions = disk[i].functions /\ disk'[i].thumb = disk[i].thumb
            /\ disk'[i].globals = disk[i].globals /\ disk'[i].text = disk[i].text
            /\ disk'[i].symbols = disk[i].symbols
        BY <3>1, <3>4 DEF Trees
      <3> QED BY <3>6, <3>7, <3>8 DEF x
    <2>7. disk' \in [Images -> Trees]
      <3>1. disk' = [i \in Images |-> disk'[i]] BY <1>7
      <3> QED BY <2>6, <3>1
    <2>8. \A i \in Images : f[i] = "ok" => disk'[i].shapes = Inputs(i)' BY <2>6 DEF Inputs
    <2>9. ASSUME NEW i \in Images
          PROVE  /\ row'[i] \in [base : Results, kept : Kepts]
                 /\ row'[i].base = row[i].base /\ row'[i].kept = kept'[i]
      <3> DEFINE b == row[i].base
                 k == row[i].kept
                 n == [k EXCEPT !["shapes"] = f[i]]
      <3>1. row[i] \in [base : Results, kept : Kepts] BY <1>3
      <3>2. b \in Results /\ row[i] = RowOf(b, k) BY <3>1 DEF RowOf
      <3>3. row'[i] = [row[i] EXCEPT !.kept = n] BY <1>7
      <3>4. k = kept[i] BY <1>4, <1>7
      <3>5. k = [h \in Groups |-> k[h]] BY <1>3, <3>4, KeptFunctions
      <3>6. n = kept'[i]
        <4>1. n = [h \in Groups |-> n[h]] BY <3>5
        <4>2. \A h \in Groups : n[h] = IF h = "shapes" THEN f[i] ELSE k[h] BY <3>5
        <4>3. kept'[i]["shapes"] = f[i] BY <2>5
        <4>4. \A h \in Groups : n[h] = kept'[i][h]
          <5> HIDE DEF n
          <5> QED BY <2>5, <3>4, <4>2, <4>3
        <4>5. kept'[i] = [h \in Groups |-> kept'[i][h]] BY <2>5
        <4> HIDE DEF n
        <4> QED BY <4>1, <4>4, <4>5
      <3> HIDE DEF b, k, n
      <3>7. row'[i] = RowOf(b, n) BY <3>2, <3>3 DEF RowOf
      <3>8. n \in Kepts BY <2>5, <3>6
      <3> QED BY <3>2, <3>6, <3>7, <3>8 DEF RowOf, b
    <2>10. row' \in [Images -> [base : Results, kept : Kepts]]
      <3>1. row' = [i \in Images |-> row'[i]] BY <1>7
      <3> QED BY <2>9, <3>1
    <2>11. ~Failed("global_shapes")' => \A i \in Images : kept'[i].shapes # "failed"
      BY <2>2, <2>4, <2>5
    <2>12. \A i \in Images :
              /\ row'[i].base = row[i].base /\ row'[i].kept = kept'[i]
              /\ kept'[i].shapes = "ok" => disk'[i].shapes = Inputs(i)'
              /\ kept'[i].shapes = "none" => res[i].outcome = "opaque"
      BY <1>7, <2>5, <2>8, <2>9
    <2> QED BY <1>1, <1>2, <2>1, <2>4, <2>5, <2>6, <2>7, <2>10, <2>11, <2>12, ShapesSwept
  <1>8. CASE /\ haveRows
             /\ \E bad \in SUBSET {i \in Images : ShapesCurrent(i)} :
                   LET of == [i \in Images |->
                                IF ShapesCurrent(i) /\ i \notin bad THEN "ok"
                                ELSE IF HasResult /\ res[i].outcome = "opaque" THEN "none"
                                ELSE "failed"]
                   IN /\ Fault({<<"shapes", i>> : i \in bad})
                      /\ kept' = Keep("shapes", Images, of)
                      /\ row' = [i \in Images |-> [row[i] EXCEPT !.kept.shapes = of[i]]]
                      /\ disk' = [i \in Images |-> IF of[i] = "ok"
                                                   THEN [disk[i] EXCEPT !.shapes = Inputs(i)]
                                                   ELSE disk[i]]
                      /\ RecordShapes(Verdict({i \in Images : of[i] = "failed"}))
    <2> DEFINE of(bad) == [i \in Images |->
                            IF ShapesCurrent(i) /\ i \notin bad THEN "ok"
                            ELSE IF HasResult /\ res[i].outcome = "opaque" THEN "none"
                            ELSE "failed"]
    <2>1. PICK bad \in SUBSET {i \in Images : ShapesCurrent(i)} :
             /\ Fault({<<"shapes", i>> : i \in bad})
             /\ kept' = Keep("shapes", Images, of(bad))
             /\ row' = [i \in Images |-> [row[i] EXCEPT !.kept.shapes = of(bad)[i]]]
             /\ disk' = [i \in Images |-> IF of(bad)[i] = "ok"
                                          THEN [disk[i] EXCEPT !.shapes = Inputs(i)]
                                          ELSE disk[i]]
             /\ RecordShapes(Verdict({i \in Images : of(bad)[i] = "failed"}))
      BY <1>8
    <2>2. bad \in SUBSET Images OBVIOUS
    <2>3. \A i \in Images : /\ of(bad)[i] \in {"none", "ok", "failed"}
                            /\ of(bad)[i] = "none" => res[i].outcome = "opaque"
      OBVIOUS
    <2> HIDE DEF of
    <2> QED BY <1>7, <1>8, <2>1, <2>2, <2>3
  <1> QED BY <1>1, <1>6, <1>8, Zenon DEF ShapesSweep

-----------------------------------------------------------------------------
(* The second pass.                                                        *)

LEMMA Dispatches ==
    ASSUME IInv, TodoInv', opts' = opts, At = "DispatchPass2", At' = "PostPass2",
           ~opts.noSymbol,
           stages' \in [Stages -> Seq(Statuses)], faults' \in 0 .. MaxFaults,
           stages'["symbolicate_finalize"] = stages["symbolicate_finalize"],
           Failed("global_shapes")' <=> Failed("global_shapes"),
           NEW types \in SUBSET Images, opts.noTypes => types = {},
           maps' = [maps EXCEPT !["types"] = types], scheduled' \subseteq snap,
           res' \in [Images -> Results], disk' \in [Images -> Trees],
           \A i \in Images : /\ res'[i].outcome = res[i].outcome
                             /\ res'[i].thumb = res[i].thumb
                             /\ res'[i].enrichError = res[i].enrichError
                             /\ res'[i].globals = res[i].globals
                             /\ disk'[i].functions >= disk[i].functions
                             /\ disk'[i].globals = disk[i].globals,
           \/ report' = report /\ retained' = retained /\ row' = row
           \/ /\ report /\ report' = FALSE /\ retained' = TRUE /\ ~OthersOk' /\ res' = res
              /\ row' = FromResults(res),
           OthersOk' => /\ OthersOk /\ maps["global"] \subseteq snap
                        /\ \A i \in Images : res'[i].pass2 # "failed"
                        /\ \A i \in types \ snap : res'[i].pass2 # "ok",
           UNCHANGED <<haveRows, kept, contexts, snap, pruned>>
    PROVE  IInv'
  <1> USE DEF Start, BeforeMaps, Final, Dispatched, Typed, Globaled, Swept, Finalized
  <1>1. contexts \subseteq Images BY DEF IInv, ShapeInv
  <1>2. /\ maps'["types"] = types /\ maps'["global"] = maps["global"]
        /\ maps' \in [{"function", "global", "types"} -> SUBSET Images]
    BY DEF IInv, ShapeInv
  <1>3. ~retained /\ (haveRows <=> report) BY DEF IInv, ReportInv, ShapeInv
  <1>4. ShapeInv'
    <2>1. row' \in [Images -> [base : Results, kept : Kepts]]
      <3>1. row \in [Images -> [base : Results, kept : Kepts]] /\ res \in [Images -> Results]
        BY DEF IInv, ShapeInv
      <3>2. Nulls \in Kepts BY DEF Nulls, Groups, Kepts
      <3>3. ASSUME NEW i \in Images PROVE FromResults(res)[i] \in [base : Results, kept : Kepts]
        <4>1. FromResults(res)[i] = [base |-> res[i], kept |-> Nulls] BY DEF FromResults
        <4>2. res[i] \in Results BY <3>1
        <4> QED BY <3>2, <4>1, <4>2
      <3>4. FromResults(res) = [i \in Images |-> FromResults(res)[i]] BY DEF FromResults
      <3>5. FromResults(res) \in [Images -> [base : Results, kept : Kepts]] BY <3>3, <3>4
      <3>6. CASE row' = row BY <3>1, <3>6
      <3>7. CASE row' = FromResults(res) BY <3>5, <3>7
      <3> QED BY <3>6, <3>7
    <2> QED BY <1>2, <2>1 DEF IInv, ShapeInv
  <1>5. ReportInv'
    <2>1. \A i \in contexts' : res'[i].outcome = "analyzed" /\ disk'[i].functions >= 2
      <3>1. \A i \in contexts : res[i].outcome = "analyzed" /\ disk[i].functions >= 2
        BY DEF IInv, ReportInv
      <3>2. ASSUME NEW i \in contexts PROVE disk'[i].functions >= 2
        <4>1. disk[i] \in Trees /\ disk'[i] \in Trees BY <1>1 DEF IInv, ShapeInv
        <4>2. disk[i].functions \in Nat /\ disk'[i].functions \in Nat BY <4>1 DEF Trees
        <4>3. disk'[i].functions >= disk[i].functions /\ disk[i].functions >= 2
          BY <1>1, <3>1
        <4> QED BY <4>2, <4>3
      <3> QED BY <1>1, <3>1, <3>2
    <2>2. (haveRows' <=> report' \/ retained') /\ ~(report' /\ retained')
      BY <1>3 DEF IInv, ShapeInv
    <2>3. contexts' # {} => haveRows' BY DEF IInv, ReportInv
    <2> QED BY <2>1, <2>2, <2>3 DEF ReportInv
  <1>6. RowInv'
    <2>1. CASE report' = report /\ retained' = retained /\ row' = row
      BY <1>3, <2>1 DEF IInv, RowInv
    <2>2. CASE report' = FALSE /\ res' = res /\ row' = FromResults(res)
      <3>1. ASSUME NEW i \in Images
            PROVE  /\ row'[i] = [base |-> res'[i], kept |-> Nulls]
                   /\ row'[i].base = res'[i]
        BY <2>2 DEF FromResults
      <3> QED BY <2>2, <3>1 DEF RowInv
    <2> QED BY <2>1, <2>2
  <1>7. KeptInv' BY DEF IInv, KeptInv
  <1>8. GlobalsInv' BY <1>1 DEF IInv, GlobalsInv
  <1>9. BindInv' BY DEF IInv, BindInv
  <1>10. HonestInv' BY DEF IInv, HonestInv
  <1>11. MapsInv' BY <1>2 DEF IInv, MapsInv
  <1> QED BY <1>4, <1>5, <1>6, <1>7, <1>8, <1>9, <1>10, <1>11 DEF IInv

\* The entries that a dispatch leaves.
LEMMA Applied ==
    ASSUME ShapeInv, NEW some, NEW rs, NEW pass2 \in Statuses, ApplyStages(some, rs, pass2)
    PROVE  /\ stages' \in [Stages -> Seq(Statuses)]
           /\ stages'["symbolicate_finalize"] = stages["symbolicate_finalize"]
           /\ Failed("global_shapes")' <=> Failed("global_shapes")
           /\ OthersOk' => /\ OthersOk /\ pass2 # "failed"
                           /\ maps["global"] = {} \/ \A i \in maps["global"] : rs[i].pass2 = "ok"
  <1> DEFINE g == ApplyStage(maps["global"], some, rs)
             p == ApplyStage(PresentStartup, some, rs)
             E == [decompile_pass2 |-> pass2, globals_apply |-> g, startup_metadata_apply |-> p]
  <1>1. Push(E) BY DEF ApplyStages
  <1>2. g \in Statuses /\ p \in Statuses BY DEF ApplyStage, Statuses
  <1>3. g # "failed" => maps["global"] = {} \/ \A i \in maps["global"] : rs[i].pass2 = "ok"
    BY DEF ApplyStage
  <1>4. stages \in [Stages -> Seq(Statuses)] BY DEF ShapeInv
  <1> HIDE DEF g, p
  <1>5. /\ DOMAIN E = {"decompile_pass2", "globals_apply", "startup_metadata_apply"}
        /\ E["decompile_pass2"] = pass2 /\ E["globals_apply"] = g
        /\ \A s \in DOMAIN E : E[s] \in Statuses
    BY <1>2
  <1>6. DOMAIN E \subseteq Plain BY DEF Plain, Stages
  <1> HIDE DEF E
  <1>7. /\ stages' \in [Stages -> Seq(Statuses)]
        /\ stages'["symbolicate_finalize"] = stages["symbolicate_finalize"]
        /\ Failed("global_shapes")' <=> Failed("global_shapes")
        /\ OthersOk' <=> OthersOk /\ \A s \in DOMAIN E : E[s] # "failed"
    BY <1>1, <1>4, <1>5, <1>6, PlainPush
  <1>8. (\A s \in DOMAIN E : E[s] # "failed") => pass2 # "failed" /\ g # "failed" BY <1>5
  <1> QED BY <1>3, <1>7, <1>8, Zenon

LEMMA TwoPassWorks ==
    ASSUME ShapeInv, NEW sched \in SUBSET Images, sched # {}, NEW unmatched \in SUBSET Images,
           NEW unbound,
           RunTwoPass(sched, {<<"bind", i>> : i \in unmatched}, unbound)
    PROVE  /\ stages' \in [Stages -> Seq(Statuses)] /\ faults' \in 0 .. MaxFaults
           /\ stages'["symbolicate_finalize"] = stages["symbolicate_finalize"]
           /\ Failed("global_shapes")' <=> Failed("global_shapes")
           /\ res' \in [Images -> Results] /\ disk' \in [Images -> Trees]
           /\ \A i \in Images : /\ res'[i].outcome = res[i].outcome
                                /\ res'[i].thumb = res[i].thumb
                                /\ res'[i].enrichError = res[i].enrichError
                                /\ res'[i].globals = res[i].globals
                                /\ disk'[i].functions >= disk[i].functions
                                /\ disk'[i].globals = disk[i].globals
           /\ OthersOk' => /\ OthersOk /\ unbound = {}
                           /\ \A i \in Images : res'[i].pass2 # "failed"
  <1> DEFINE errors == {<<"bind", i>> : i \in unmatched}
             errs(failed) == errors \union {<<"pass2", i>> : i \in failed \union unbound}
             T(failed, partial, i) == IF i \in failed THEN "failed"
                                      ELSE IF i \in partial THEN "partial"
                                      ELSE IF i \in sched THEN "ok" ELSE "none"
  <1>1. PICK failed, partial \in SUBSET sched :
        /\ Fault({<<"pass2", i>> : i \in failed \union partial} \union errors)
        /\ res' = [i \in Images |-> [res[i] EXCEPT !.pass2 = T(failed, partial, i)]]
        /\ disk' = [i \in Images |-> IF i \in sched \ failed
                                     THEN [disk[i] EXCEPT !.functions = @ + 1, !.text = "raw"]
                                     ELSE disk[i]]
        /\ ApplyStages(TRUE, res', Pass2Stage(sched, errs(failed)))
    BY DEF RunTwoPass
  <1> DEFINE v == Pass2Stage(sched, errs(failed))
  <1>2. v \in Statuses /\ (v # "failed" => errs(failed) = {})
    BY DEF Pass2Stage, Verdict, Statuses
  <1>3. errs(failed) = {} => failed = {} /\ unbound = {} OBVIOUS
  <1>4. faults' \in 0 .. MaxFaults
    <2>1. failed \union partial \in SUBSET Images OBVIOUS
    <2>2. /\ IsFiniteSet({<<"pass2", i>> : i \in failed \union partial})
          /\ IsFiniteSet(errors)
      BY <2>1, Tagged
    <2>3. faults \in 0 .. MaxFaults BY DEF ShapeInv
    <2> HIDE DEF errors
    <2> QED BY <1>1, <2>2, <2>3, FS_Union, FaultOk
  <1>5. ApplyStages(TRUE, res', v) BY <1>1
  <1> HIDE DEF v, errs, errors
  <1>6. /\ stages' \in [Stages -> Seq(Statuses)]
        /\ stages'["symbolicate_finalize"] = stages["symbolicate_finalize"]
        /\ Failed("global_shapes")' <=> Failed("global_shapes")
        /\ OthersOk' => OthersOk /\ failed = {} /\ unbound = {}
    BY <1>2, <1>3, <1>5, Applied
  <1>7. ASSUME NEW i \in Images
        PROVE  /\ res'[i] \in Results
               /\ res'[i].outcome = res[i].outcome /\ res'[i].thumb = res[i].thumb
               /\ res'[i].enrichError = res[i].enrichError
               /\ res'[i].globals = res[i].globals
               /\ res'[i].pass2 = T(failed, partial, i)
    <2>1. res[i] \in Results BY DEF ShapeInv
    <2>2. res'[i] = [res[i] EXCEPT !.pass2 = T(failed, partial, i)] BY <1>1
    <2>3. T(failed, partial, i) \in {"none", "ok", "failed", "partial"} OBVIOUS
    <2> HIDE DEF T
    <2> QED BY <2>1, <2>2, <2>3 DEF Results
  <1>8. ASSUME NEW i \in Images
        PROVE  /\ disk'[i] \in Trees /\ disk'[i].globals = disk[i].globals
               /\ disk'[i].functions >= disk[i].functions
    <2>1. disk[i] \in Trees BY DEF ShapeInv
    <2>2. \/ disk'[i] = disk[i]
          \/ disk'[i] = [disk[i] EXCEPT !.functions = @ + 1, !.text = "raw"]
      BY <1>1
    <2>3. disk[i].functions \in Nat BY <2>1 DEF Trees
    <2>4. CASE disk'[i] = disk[i] BY <2>1, <2>3, <2>4
    <2>5. CASE disk'[i] = [disk[i] EXCEPT !.functions = @ + 1, !.text = "raw"]
      <3> DEFINE n == disk[i].functions + 1
      <3>1. n \in Nat /\ n >= disk[i].functions BY <2>3
      <3>2. disk'[i] = [disk[i] EXCEPT !.functions = n, !.text = "raw"] BY <2>5
      <3> HIDE DEF n
      <3>3. disk'[i] \in Trees BY <2>1, <3>1, <3>2 DEF Trees
      <3>4. disk'[i].functions = n /\ disk'[i].globals = disk[i].globals
        BY <2>1, <3>2 DEF Trees
      <3> QED BY <3>1, <3>3, <3>4
    <2> QED BY <2>2, <2>4, <2>5
  <1>9. res' \in [Images -> Results] /\ disk' \in [Images -> Trees]
    <2>1. res' = [i \in Images |-> res'[i]] /\ disk' = [i \in Images |-> disk'[i]] BY <1>1
    <2> QED BY <1>7, <1>8, <2>1
  <1>10. failed = {} => \A i \in Images : res'[i].pass2 # "failed" BY <1>7
  <1> QED BY <1>4, <1>6, <1>7, <1>8, <1>9, <1>10

LEMMA DispatchStep == ASSUME IInv, DispatchPass2 PROVE IInv'
  <1>0. ShapeInv /\ TodoInv BY DEF IInv
  <1>1. /\ Step("DispatchPass2") /\ Continue
        /\ UNCHANGED <<opts, haveRows, kept, contexts, snap, pruned>>
    BY DEF DispatchPass2
  <1>2. TodoInv' /\ At = "DispatchPass2" /\ At' = "PostPass2" /\ ~opts.noSymbol
    BY <1>0, <1>1, Goes DEF Edge, Foreign
  <1> DEFINE Errors(unmatched) == {<<"bind", i>> : i \in unmatched}
  <1>3. PICK types \in SUBSET {i \in Images : HasShapes(i) /\ ~opts.noTypes},
             unmatched \in SUBSET maps["function"] :
          LET sched  == Schedule(types, unmatched)
              errors == Errors(unmatched)
          IN /\ maps' = [maps EXCEPT !["types"] = types] /\ scheduled' = sched
             /\ \/ /\ ~report \/ sched = {}
                   /\ Fault(errors) /\ ApplyStages(report, res, Pass2Stage(sched, errors))
                   /\ UNCHANGED <<report, retained, res, disk, row>>
                \/ /\ report /\ sched # {}
                   /\ Fault(errors \union {<<"two_pass", "">>})
                   /\ report' = FALSE /\ retained' = TRUE
                   /\ ApplyStages(FALSE, res, "failed") /\ Rows(FromResults(res))
                   /\ UNCHANGED <<res, disk>>
                \/ /\ report /\ sched # {}
                   /\ RunTwoPass(sched, errors, Unbound(types))
                   /\ UNCHANGED <<report, retained, row>>
    BY DEF DispatchPass2
  <1> DEFINE sched == Schedule(types, unmatched)
             errors == Errors(unmatched)
  <1>4. /\ types \in SUBSET Images /\ (opts.noTypes => types = {})
        /\ maps' = [maps EXCEPT !["types"] = types] /\ scheduled' = sched
        /\ sched \subseteq snap
    BY <1>3 DEF Schedule
  <1>5. /\ maps \in [{"function", "global", "types"} -> SUBSET Images]
        /\ snap \subseteq contexts /\ contexts \subseteq Images
        /\ faults \in 0 .. MaxFaults /\ res \in [Images -> Results] /\ disk \in [Images -> Trees]
    BY <1>0 DEF ShapeInv
  <1>6. unmatched \in SUBSET Images /\ sched \in SUBSET Images BY <1>4, <1>5
  <1>7. IsFiniteSet(errors) BY <1>6, Tagged
  <1>8. /\ ~retained /\ (haveRows <=> report)
        /\ \A i \in Images : res[i].pass2 = "none"
    BY <1>0, <1>2 DEF IInv, ReportInv, ShapeInv, Dispatched, Final
  <1>9. CASE /\ Fault(errors) /\ ApplyStages(report, res, Pass2Stage(sched, errors))
             /\ UNCHANGED <<report, retained, res, disk, row>>
    <2> DEFINE v == Pass2Stage(sched, errors)
    <2>1. v \in Statuses BY DEF Pass2Stage, Verdict, Statuses
    <2>2. ApplyStages(report, res, v) BY <1>9
    <2> HIDE DEF v, errors, sched
    <2>3. faults' \in 0 .. MaxFaults BY <1>5, <1>7, <1>9, FaultOk
    <2>4. /\ stages' \in [Stages -> Seq(Statuses)]
          /\ stages'["symbolicate_finalize"] = stages["symbolicate_finalize"]
          /\ Failed("global_shapes")' <=> Failed("global_shapes")
          /\ OthersOk' => /\ OthersOk
                          /\ maps["global"] = {} \/ \A i \in maps["global"] : res[i].pass2 = "ok"
      BY <1>0, <2>1, <2>2, Applied
    <2>5. maps["global"] \subseteq Images BY <1>5
    <2>6. OthersOk' => /\ OthersOk /\ maps["global"] \subseteq snap
                       /\ \A i \in Images : res'[i].pass2 # "failed"
                       /\ \A i \in types \ snap : res'[i].pass2 # "ok"
      BY <1>4, <1>8, <1>9, <2>4, <2>5
    <2>7. \A i \in Images : disk'[i].functions >= disk[i].functions
      <3> TAKE i \in Images
      <3>1. disk[i].functions \in Nat BY <1>5 DEF Trees
      <3> QED BY <1>9, <3>1
    <2> QED BY <1>1, <1>2, <1>4, <1>5, <1>9, <2>3, <2>4, <2>6, <2>7, Dispatches
  <1>10. CASE /\ report /\ Fault(errors \union {<<"two_pass", "">>})
              /\ report' = FALSE /\ retained' = TRUE
              /\ ApplyStages(FALSE, res, "failed") /\ Rows(FromResults(res))
              /\ UNCHANGED <<res, disk>>
    <2> HIDE DEF errors, sched
    <2>1. faults' \in 0 .. MaxFaults
      <3>1. IsFiniteSet({<<"two_pass", "">>}) BY FS_Singleton
      <3> QED BY <1>5, <1>7, <1>10, <3>1, FS_Union, FaultOk
    <2>2. "failed" \in Statuses BY DEF Statuses
    <2>3. /\ stages' \in [Stages -> Seq(Statuses)]
          /\ stages'["symbolicate_finalize"] = stages["symbolicate_finalize"]
          /\ Failed("global_shapes")' <=> Failed("global_shapes")
          /\ ~OthersOk'
      BY <1>0, <1>10, <2>2, Applied
    <2>4. row' = FromResults(res) BY <1>8, <1>10 DEF Rows
    <2>5. \A i \in Images : disk'[i].functions >= disk[i].functions
      <3> TAKE i \in Images
      <3>1. disk[i].functions \in Nat BY <1>5 DEF Trees
      <3>2. disk' = disk BY <1>10
      <3> QED BY <3>1, <3>2
    <2> QED BY <1>1, <1>2, <1>4, <1>5, <1>10, <2>1, <2>3, <2>4, <2>5, Dispatches
  <1>11. CASE /\ sched # {} /\ RunTwoPass(sched, errors, Unbound(types))
              /\ UNCHANGED <<report, retained, row>>
    <2> DEFINE unbound == Unbound(types)
    <2>1. unbound = {} => maps["global"] \subseteq snap /\ types \subseteq snap BY DEF Unbound
    <2>2. RunTwoPass(sched, {<<"bind", i>> : i \in unmatched}, unbound) BY <1>11
    <2> HIDE DEF unbound, errors, sched
    <2>3. /\ stages' \in [Stages -> Seq(Statuses)] /\ faults' \in 0 .. MaxFaults
          /\ stages'["symbolicate_finalize"] = stages["symbolicate_finalize"]
          /\ Failed("global_shapes")' <=> Failed("global_shapes")
          /\ res' \in [Images -> Results] /\ disk' \in [Images -> Trees]
          /\ \A i \in Images : /\ res'[i].outcome = res[i].outcome
                               /\ res'[i].thumb = res[i].thumb
                               /\ res'[i].enrichError = res[i].enrichError
                               /\ res'[i].globals = res[i].globals
                               /\ disk'[i].functions >= disk[i].functions
                               /\ disk'[i].globals = disk[i].globals
          /\ OthersOk' => /\ OthersOk /\ unbound = {}
                          /\ \A i \in Images : res'[i].pass2 # "failed"
      BY <1>0, <1>6, <1>11, <2>2, TwoPassWorks
    <2>4. OthersOk' => /\ OthersOk /\ maps["global"] \subseteq snap
                       /\ \A i \in Images : res'[i].pass2 # "failed"
                       /\ \A i \in types \ snap : res'[i].pass2 # "ok"
      BY <2>1, <2>3
    <2> QED BY <1>1, <1>2, <1>4, <1>11, <2>3, <2>4, Dispatches
  <1> QED BY <1>3, <1>9, <1>10, <1>11, Zenon

LEMMA PostWorks ==
    ASSUME IInv, TodoInv', opts' = opts, At = "PostPass2", At' = "ApplyGlobalTypes",
           ~opts.noSymbol,
           stages' \in [Stages -> Seq(Statuses)], faults' \in 0 .. MaxFaults,
           stages'["symbolicate_finalize"] = stages["symbolicate_finalize"],
           Failed("global_shapes")' <=> Failed("global_shapes"),
           res' \in [Images -> Results], disk' \in [Images -> Trees],
           row' \in [Images -> [base : Results, kept : Kepts]],
           \A i \in Images : /\ res'[i].outcome = res[i].outcome
                             /\ res'[i].thumb = res[i].thumb
                             /\ res'[i].globals = res[i].globals
                             /\ res'[i].pass2 = res[i].pass2
                             /\ disk'[i].functions = disk[i].functions
                             /\ disk'[i].globals = disk[i].globals,
           haveRows => \A i \in Images : row'[i].base = res'[i] /\ row'[i].kept = kept[i],
           OthersOk' => /\ OthersOk
                        /\ \A i \in Images : res'[i].enrichError = res[i].enrichError,
           UNCHANGED <<report, haveRows, kept, contexts, retained, snap, maps, scheduled,
                       pruned>>
    PROVE  IInv'
  <1>1. ShapeInv' BY DEF IInv, ShapeInv
  <1> USE DEF Start, BeforeMaps, Final, Dispatched, Typed, Globaled, Swept, Finalized
  <1>2. contexts \subseteq Images BY DEF IInv, ShapeInv
  <1>3. ReportInv' BY <1>2 DEF IInv, ReportInv
  <1>4. RowInv' BY DEF RowInv
  <1>5. KeptInv' BY DEF IInv, KeptInv
  <1>6. GlobalsInv' BY <1>2 DEF IInv, GlobalsInv
  <1>7. BindInv' BY DEF IInv, BindInv
  <1>8. HonestInv' BY DEF IInv, HonestInv
  <1>9. MapsInv'
    <2>1. maps["types"] \subseteq Images BY DEF IInv, ShapeInv
    <2>2. /\ opts.noTypes => maps["types"] = {}
          /\ OthersOk => /\ maps["global"] \subseteq snap
                         /\ \A i \in maps["types"] \ snap : res[i].pass2 # "ok"
      BY DEF IInv, MapsInv
    <2>3. ~Typed' OBVIOUS
    <2> QED BY <2>1, <2>2, <2>3 DEF MapsInv
  <1> QED BY <1>1, <1>3, <1>4, <1>5, <1>6, <1>7, <1>8, <1>9 DEF IInv

LEMMA PostPass2Step == ASSUME IInv, PostPass2 PROVE IInv'
  <1>0. ShapeInv /\ TodoInv BY DEF IInv
  <1>1. /\ Step("PostPass2") /\ Continue
        /\ UNCHANGED <<report, haveRows, kept, contexts, retained, snap, maps, scheduled,
                       pruned, opts>>
        /\ Rows(Reapply(IF report THEN FromResults(res') ELSE row, Groups \ {"types"}, kept))
    BY DEF PostPass2, afterPass1
  <1>2. TodoInv' /\ At = "PostPass2" /\ At' = "ApplyGlobalTypes" /\ ~opts.noSymbol
    BY <1>0, <1>1, Goes DEF Edge, Foreign
  <1>3. /\ stages \in [Stages -> Seq(Statuses)] /\ faults \in 0 .. MaxFaults
        /\ res \in [Images -> Results] /\ disk \in [Images -> Trees]
        /\ kept \in [Images -> Kepts] /\ row \in [Images -> [base : Results, kept : Kepts]]
    BY <1>0 DEF ShapeInv
  <1>4. /\ \A i \in Images : kept[i]["types"] = "none"
        /\ haveRows /\ ~report => \A i \in Images : row[i] = RowOf(res[i], Nulls)
    <2>1. \A i \in Images : kept[i].types = "none" BY <1>2 DEF IInv, KeptInv, Typed, Final
    <2>2. haveRows /\ ~report => \A i \in Images : row[i] = [base |-> res[i], kept |-> Nulls]
      BY <1>2 DEF IInv, RowInv
    <2> QED BY <2>1, <2>2 DEF RowOf
  \* Whoever writes the results, the rows are rebuilt from them and from kept.
  <1>5. ASSUME res' \in [Images -> Results], report \/ res' = res
        PROVE  /\ row' \in [Images -> [base : Results, kept : Kepts]]
               /\ haveRows => \A i \in Images :
                                 row'[i].base = res'[i] /\ row'[i].kept = kept[i]
    <2>1. CASE ~haveRows BY <1>1, <1>3, <2>1 DEF Rows
    <2>2. CASE haveRows
      <3> DEFINE b == IF report THEN FromResults(res') ELSE row
                 gs == Groups \ {"types"}
      <3>1. row' = Reapply(b, gs, kept) BY <1>1, <2>2 DEF Rows
      <3>2. \A i \in Images : b[i] = RowOf(res'[i], Nulls)
        BY <1>4, <1>5, <2>2 DEF FromResults, RowOf
      <3> HIDE DEF b
      <3>3. \A i \in Images : b[i].base = res'[i] /\ b[i].kept = Nulls
        <4> TAKE i \in Images
        <4> DEFINE x == res'[i]
        <4>1. b[i] = [base |-> x, kept |-> Nulls] BY <3>2 DEF RowOf
        <4> HIDE DEF x
        <4>2. b[i].base = x /\ b[i].kept = Nulls BY <4>1
        <4> QED BY <4>2 DEF x
      <3>4. \A i \in Images : b[i] = RowOf(b[i].base, b[i].kept) BY <3>2, <3>3
      <3>5. \A i \in Images : kept[i] = [g \in Groups |-> kept[i][g]] BY <1>3, KeptFunctions
      <3>6. \A i \in Images : \A g \in Groups :
               (g \in gs /\ kept[i][g] # "none") \/ b[i].kept[g] = kept[i][g]
        <4> TAKE i \in Images
        <4> TAKE g \in Groups
        <4>1. b[i].kept[g] = "none" BY <3>3 DEF Nulls
        <4>2. CASE g = "types" BY <1>4, <4>1, <4>2
        <4>3. CASE g # "types" BY <4>1, <4>3
        <4> QED BY <4>2, <4>3
      <3> HIDE DEF gs
      <3>7. /\ row' = [i \in Images |-> row'[i]]
            /\ \A i \in Images : row'[i] = RowOf(b[i].base, kept[i])
        BY <3>1, <3>4, <3>5, <3>6, ReapplyWorks
      <3>8. \A i \in Images : row'[i] = [base |-> res'[i], kept |-> kept[i]]
        BY <3>3, <3>7 DEF RowOf
      <3>9. ASSUME NEW i \in Images PROVE row'[i] \in [base : Results, kept : Kepts]
        <4>1. res'[i] \in Results /\ kept[i] \in Kepts BY <1>3, <1>5
        <4> DEFINE x == res'[i]
                   k == kept[i]
        <4>2. row'[i] = [base |-> x, kept |-> k] BY <3>8
        <4> HIDE DEF x, k
        <4>3. x \in Results /\ k \in Kepts BY <4>1 DEF x, k
        <4> QED BY <4>2, <4>3
      <3> QED BY <3>7, <3>8, <3>9
    <2> QED BY <2>1, <2>2
  <1>6. ASSUME Fault({}), UNCHANGED <<res, disk>>,
               stages' \in [Stages -> Seq(Statuses)],
               stages'["symbolicate_finalize"] = stages["symbolicate_finalize"],
               Failed("global_shapes")' <=> Failed("global_shapes"),
               OthersOk' => OthersOk
        PROVE  IInv'
    <2>1. faults' \in 0 .. MaxFaults BY <1>3, <1>6, NoFault
    <2>2. /\ row' \in [Images -> [base : Results, kept : Kepts]]
          /\ haveRows => \A i \in Images : row'[i].base = res'[i] /\ row'[i].kept = kept[i]
      BY <1>3, <1>5, <1>6
    <2> QED BY <1>1, <1>2, <1>3, <1>6, <2>1, <2>2, PostWorks
  <1>7. CASE ~report /\ Fault({}) /\ UNCHANGED <<stages, res, disk>>
    <2>1. (Failed("global_shapes")' <=> Failed("global_shapes")) /\ (OthersOk' => OthersOk)
      BY <1>7 DEF Failed, OthersOk
    <2> QED BY <1>3, <1>6, <1>7, <2>1
  <1>8. CASE /\ report /\ opts.noThumb /\ Fault({})
             /\ Push([thumb_enrich_post_pass2 |-> "skipped"]) /\ UNCHANGED <<res, disk>>
    <2>1. [thumb_enrich_post_pass2 |-> "skipped"]
             = [s \in {"thumb_enrich_post_pass2"} |-> "skipped"]
      OBVIOUS
    <2>2. "thumb_enrich_post_pass2" \in Plain /\ "skipped" \in Statuses
      BY DEF Plain, Stages, Statuses
    <2>3. /\ stages' \in [Stages -> Seq(Statuses)]
          /\ stages'["symbolicate_finalize"] = stages["symbolicate_finalize"]
          /\ Failed("global_shapes")' <=> Failed("global_shapes")
          /\ OthersOk' <=> OthersOk /\ "skipped" # "failed"
      BY <1>3, <1>8, <2>1, <2>2, PlainOne
    <2> QED BY <1>6, <1>8, <2>3
  <1>9. CASE /\ report /\ ~opts.noThumb
             /\ \E bad \in SUBSET Images : Sweep(bad, "thumb_enrich_post_pass2")
    <2>1. PICK bad \in SUBSET Images : Sweep(bad, "thumb_enrich_post_pass2") BY <1>9
    <2>2. "thumb_enrich_post_pass2" \in Plain BY DEF Plain, Stages
    <2>3. /\ stages' \in [Stages -> Seq(Statuses)] /\ faults' \in 0 .. MaxFaults
          /\ stages'["symbolicate_finalize"] = stages["symbolicate_finalize"]
          /\ Failed("global_shapes")' <=> Failed("global_shapes")
          /\ res' \in [Images -> Results] /\ disk' \in [Images -> Trees]
          /\ \A i \in Images : /\ res'[i].outcome = res[i].outcome
                               /\ res'[i].thumb = res[i].thumb
                               /\ res'[i].globals = res[i].globals
                               /\ res'[i].pass2 = res[i].pass2
                               /\ disk'[i].functions = disk[i].functions
                               /\ disk'[i].globals = disk[i].globals
          /\ OthersOk' => /\ OthersOk
                          /\ \A i \in Images : res'[i].enrichError = res[i].enrichError
      BY <1>0, <2>1, <2>2, SweepWorks
    <2>4. /\ row' \in [Images -> [base : Results, kept : Kepts]]
          /\ haveRows => \A i \in Images : row'[i].base = res'[i] /\ row'[i].kept = kept[i]
      BY <1>5, <1>9, <2>3
    <2> QED BY <1>1, <1>2, <2>3, <2>4, PostWorks
  <1> QED BY <1>7, <1>8, <1>9, Zenon DEF PostPass2

-----------------------------------------------------------------------------
(* The global types.                                                       *)

LEMMA TypesWorks ==
    ASSUME IInv, TodoInv', opts' = opts, At = "ApplyGlobalTypes", At' = "Finalize",
           ~opts.noSymbol,
           stages' \in [Stages -> Seq(Statuses)], faults' \in 0 .. MaxFaults,
           stages'["symbolicate_finalize"] = stages["symbolicate_finalize"],
           Failed("global_shapes")' <=> Failed("global_shapes"),
           kept' \in [Images -> Kepts], row' \in [Images -> [base : Results, kept : Kepts]],
           \A i \in Images : /\ kept'[i].shapes = kept[i].shapes
                             /\ kept'[i].startup = kept[i].startup,
           haveRows => \A i \in Images : row'[i].base = res[i] /\ row'[i].kept = kept'[i],
           OthersOk' => /\ OthersOk /\ \A i \in Images : kept'[i].types # "failed"
                        /\ \A i \in maps["types"] : res[i].pass2 = "ok",
           UNCHANGED <<report, res, haveRows, disk, contexts, retained, snap, maps,
                       scheduled, pruned>>
    PROVE  IInv'
  <1>1. ShapeInv' BY DEF IInv, ShapeInv
  <1> USE DEF Start, BeforeMaps, Final, Dispatched, Typed, Globaled, Swept, Finalized
  <1>2. contexts \subseteq Images BY DEF IInv, ShapeInv
  <1>3. ReportInv' BY <1>2 DEF IInv, ReportInv
  <1>4. RowInv' BY DEF RowInv
  <1>5. KeptInv' BY DEF IInv, KeptInv
  <1>6. GlobalsInv' BY <1>2 DEF IInv, GlobalsInv
  <1>7. BindInv' BY DEF IInv, BindInv
  <1>8. HonestInv' BY DEF IInv, HonestInv
  <1>9. MapsInv'
    <2>1. /\ opts.noTypes => maps["types"] = {}
          /\ OthersOk => /\ maps["global"] \subseteq snap
                         /\ \A i \in maps["types"] \ snap : res[i].pass2 # "ok"
      BY DEF IInv, MapsInv
    <2>2. OthersOk' => maps["types"] \subseteq snap BY <2>1
    <2> QED BY <2>1, <2>2 DEF MapsInv
  <1> QED BY <1>1, <1>3, <1>4, <1>5, <1>6, <1>7, <1>8, <1>9 DEF IInv

LEMMA ApplyTypesStep == ASSUME IInv, ApplyGlobalTypes PROVE IInv'
  <1>0. ShapeInv /\ TodoInv BY DEF IInv
  <1> DEFINE S == maps["types"]
             of == [i \in Images |-> IF report /\ res[i].pass2 = "ok" THEN "applied"
                                     ELSE "failed"]
             v == IF opts.noTypes THEN "skipped" ELSE ApplyStage(S, report, res)
  <1>1. /\ Step("ApplyGlobalTypes") /\ Continue /\ Fault({})
        /\ UNCHANGED <<report, res, haveRows, disk, contexts, retained, snap, maps,
                       scheduled, pruned, opts>>
        /\ kept' = Keep("types", S, of) /\ Rows(Reapply(row, {"types"}, kept'))
        /\ Push([global_types_apply |-> v])
    BY Zenon DEF ApplyGlobalTypes, afterPass1
  <1>2. TodoInv' /\ At = "ApplyGlobalTypes" /\ At' = "Finalize" /\ ~opts.noSymbol
    BY <1>0, <1>1, Goes DEF Edge, Foreign
  <1>3. /\ stages \in [Stages -> Seq(Statuses)] /\ faults \in 0 .. MaxFaults
        /\ res \in [Images -> Results]
        /\ kept \in [Images -> Kepts] /\ row \in [Images -> [base : Results, kept : Kepts]]
    BY <1>0 DEF ShapeInv
  <1>4. v \in Statuses /\ (v # "failed" => \A i \in S : report /\ res[i].pass2 = "ok")
    <2>1. opts.noTypes => S = {} BY DEF IInv, MapsInv
    <2>2. /\ ApplyStage(S, report, res) \in Statuses
          /\ ApplyStage(S, report, res) # "failed" => \A i \in S : report /\ res[i].pass2 = "ok"
      BY DEF ApplyStage, Statuses
    <2>3. "skipped" \in Statuses BY DEF Statuses
    <2> HIDE DEF S
    <2> QED BY <2>1, <2>2, <2>3
  <1>5. faults' \in 0 .. MaxFaults BY <1>1, <1>3, NoFault
  <1>6. [global_types_apply |-> v] = [s \in {"global_types_apply"} |-> v] OBVIOUS
  <1>7. "global_types_apply" \in Plain BY DEF Plain, Stages
  <1>8. \A i \in Images : /\ of[i] \in {"applied", "failed"}
                          /\ report /\ res[i].pass2 = "ok" => of[i] = "applied"
    OBVIOUS
  <1> HIDE DEF v, of, S
  <1>9. /\ stages' \in [Stages -> Seq(Statuses)]
        /\ stages'["symbolicate_finalize"] = stages["symbolicate_finalize"]
        /\ Failed("global_shapes")' <=> Failed("global_shapes")
        /\ OthersOk' <=> OthersOk /\ v # "failed"
    BY <1>1, <1>3, <1>4, <1>6, <1>7, PlainOne
  <1>10. /\ kept' = [i \in Images |-> kept'[i]]
         /\ \A i \in Images :
              /\ kept'[i] = [h \in Groups |-> kept'[i][h]]
              /\ \A h \in Groups : h # "types" \/ i \notin S => kept'[i][h] = kept[i][h]
              /\ i \in S => kept'[i]["types"] = of[i]
    <2>1. "types" \in Groups BY DEF Groups
    <2> QED BY <1>1, <1>3, <2>1, KeepWorks
  <1>11. kept' \in [Images -> Kepts]
    <2>1. ASSUME NEW i \in Images PROVE kept'[i] \in Kepts
      <3>1. kept[i] \in Kepts BY <1>3
      <3>2. kept'[i]["types"] \in {"none", "applied", "failed"}
        BY <1>8, <1>10, <3>1, KeptFunctions DEF Groups
      <3>3. \A h \in {"dbt", "startup", "ss", "shapes"} : kept'[i][h] = kept[i][h]
        BY <1>10 DEF Groups
      <3> QED BY <1>10, <3>1, <3>2, <3>3, KeptFunctions
    <2> QED BY <1>10, <2>1
  <1>12. \A i \in Images : /\ kept'[i].shapes = kept[i].shapes
                           /\ kept'[i].startup = kept[i].startup
    BY <1>10 DEF Groups
  <1>13. haveRows => \A i \in Images : row[i].base = res[i] /\ row[i].kept = kept[i]
    BY <1>2 DEF IInv, RowInv
  <1>14. /\ row' \in [Images -> [base : Results, kept : Kepts]]
         /\ haveRows => \A i \in Images : row'[i].base = res[i] /\ row'[i].kept = kept'[i]
    <2>1. CASE ~haveRows BY <1>1, <1>3, <2>1 DEF Rows
    <2>2. CASE haveRows
      <3> DEFINE gs == {"types"}
                 k == kept'
      <3>1. row' = Reapply(row, gs, k) BY <1>1, <2>2 DEF Rows
      <3>2. \A i \in Images : row[i] = RowOf(row[i].base, row[i].kept) BY <1>3 DEF RowOf
      <3>3. \A i \in Images : \A g \in Groups :
               (g \in gs /\ k[i][g] # "none") \/ row[i].kept[g] = k[i][g]
        <4> TAKE i \in Images
        <4> TAKE g \in Groups
        <4>1. row[i].kept = kept[i] BY <1>13, <2>2
        <4>2. g # "types" \/ i \notin S => kept'[i][g] = kept[i][g] BY <1>10
        <4>3. i \in S => kept'[i]["types"] # "none" BY <1>8, <1>10
        <4> QED BY <4>1, <4>2, <4>3
      <3>4. \A i \in Images : k[i] = [g \in Groups |-> k[i][g]] BY <1>10
      <3> HIDE DEF gs, k
      <3>5. /\ row' = [i \in Images |-> row'[i]]
            /\ \A i \in Images : row'[i] = RowOf(row[i].base, k[i])
        BY <3>1, <3>2, <3>3, <3>4, ReapplyWorks
      <3>6. ASSUME NEW i \in Images
            PROVE  /\ row'[i] \in [base : Results, kept : Kepts]
                   /\ row'[i].base = res[i] /\ row'[i].kept = kept'[i]
        <4> DEFINE x == res[i]
                   y == kept'[i]
        <4>1. x \in Results /\ y \in Kepts BY <1>3, <1>11
        <4>2. row'[i] = [base |-> x, kept |-> y] BY <1>13, <2>2, <3>5 DEF RowOf, k
        <4> HIDE DEF x, y
        <4>3. /\ row'[i] \in [base : Results, kept : Kepts]
              /\ row'[i].base = x /\ row'[i].kept = y
          BY <4>1, <4>2
        <4> QED BY <4>3 DEF x, y
      <3> QED BY <3>5, <3>6
    <2> QED BY <2>1, <2>2
  <1>15. OthersOk' => /\ OthersOk /\ \A i \in Images : kept'[i].types # "failed"
                      /\ \A i \in maps["types"] : res[i].pass2 = "ok"
    <2> SUFFICES ASSUME OthersOk'
                 PROVE  /\ OthersOk /\ \A i \in Images : kept'[i].types # "failed"
                        /\ \A i \in maps["types"] : res[i].pass2 = "ok"
      OBVIOUS
    <2>1. OthersOk /\ \A i \in S : report /\ res[i].pass2 = "ok" BY <1>4, <1>9
    <2>2. \A i \in Images : kept[i].types # "failed" BY <2>1 DEF IInv, HonestInv
    <2>3. ASSUME NEW i \in Images PROVE kept'[i]["types"] # "failed"
      <3>1. CASE i \in S BY <1>8, <1>10, <2>1, <3>1
      <3>2. CASE i \notin S BY <1>10, <2>2, <3>2 DEF Groups
      <3> QED BY <3>1, <3>2
    <2> QED BY <2>1, <2>3 DEF S
  <1> QED BY <1>1, <1>2, <1>5, <1>9, <1>11, <1>12, <1>14, <1>15, TypesWorks

-----------------------------------------------------------------------------
(* The finalization.                                                       *)

LEMMA FinalWorks ==
    ASSUME IInv, TodoInv', opts' = opts,
           \/ opts.noSymbol /\ At = "Finalize" /\ At' = "RunGlobals"
           \/ opts.noSymbol /\ At = "FinalizeText" /\ At' = "RunGlobalShapes"
           \/ ~opts.noSymbol /\ At = "Finalize" /\ At' = "RefreshGlobalShapes",
           stages' \in [Stages -> Seq(Statuses)], faults' \in 0 .. MaxFaults,
           Failed("global_shapes")' <=> Failed("global_shapes"),
           disk' \in [Images -> Trees],
           kept' \in [Images -> Kepts], row' \in [Images -> [base : Results, kept : Kepts]],
           \A i \in Images : /\ kept'[i].shapes = kept[i].shapes
                             /\ kept'[i].startup = kept[i].startup
                             /\ kept'[i].types = kept[i].types
                             /\ disk'[i].functions >= disk[i].functions
                             /\ disk'[i].globals = disk[i].globals
                             /\ \/ disk'[i].text = disk[i].text
                                \/ At = "FinalizeText" /\ disk'[i].text = "full"
                                \/ At = "FinalizeText" /\ disk[i].globals = 0,
           haveRows => \A i \in Images : row'[i].base = res[i] /\ row'[i].kept = kept'[i],
           LET f == stages'["symbolicate_finalize"] IN
             f # <<>> /\ f[Len(f)] = "ok" =>
                 \A i \in contexts : disk'[i].symbols = disk'[i].functions,
           OthersOk' => OthersOk,
           UNCHANGED <<report, res, haveRows, contexts, retained, snap, maps, scheduled,
                       pruned>>
    PROVE  IInv'
  <1>1. ShapeInv' BY DEF IInv, ShapeInv
  <1> USE DEF Start, BeforeMaps, Final, Dispatched, Typed, Globaled, Swept, Finalized
  <1>2. contexts \subseteq Images BY DEF IInv, ShapeInv
  <1>3. ReportInv'
    <2>1. \A i \in contexts : disk'[i].functions >= 2
      <3>1. \A i \in contexts : disk[i].functions >= 2 BY DEF IInv, ReportInv
      <3>2. ASSUME NEW i \in contexts PROVE disk'[i].functions >= 2
        <4>1. disk[i] \in Trees /\ disk'[i] \in Trees BY <1>2 DEF IInv, ShapeInv
        <4>2. disk[i].functions \in Nat /\ disk'[i].functions \in Nat BY <4>1 DEF Trees
        <4>3. disk'[i].functions >= disk[i].functions /\ disk[i].functions >= 2
          BY <1>2, <3>1
        <4> QED BY <4>2, <4>3
      <3> QED BY <3>2
    <2> QED BY <2>1 DEF IInv, ReportInv
  <1>4. RowInv' BY DEF RowInv
  <1>5. KeptInv' BY DEF IInv, KeptInv
  <1>6. GlobalsInv'
    <2>1. CASE ~opts.noSymbol BY <1>2, <2>1 DEF IInv, GlobalsInv
    <2>2. CASE opts.noSymbol /\ At = "Finalize" /\ At' = "RunGlobals"
      BY <1>2, <2>2 DEF IInv, GlobalsInv
    <2>3. CASE opts.noSymbol /\ At = "FinalizeText" /\ At' = "RunGlobalShapes"
      <3>1. \A i \in contexts :
              /\ res[i].globals # "none"
              /\ disk[i].globals > 0 \/ res[i].globals = "error"
              /\ disk[i].text = "raw"
        BY <2>3 DEF IInv, GlobalsInv
      <3>2. ASSUME NEW i \in contexts, disk'[i].text = "named"
            PROVE  res[i].globals = "error"
        <4>1. disk[i].globals = 0 BY <1>2, <3>1, <3>2
        <4> QED BY <3>1, <4>1
      <3> QED BY <1>2, <2>3, <3>1, <3>2 DEF GlobalsInv
    <2> QED BY <2>1, <2>2, <2>3
  <1>7. BindInv' BY DEF BindInv
  <1>8. HonestInv' BY DEF IInv, HonestInv
  <1>9. MapsInv' BY DEF IInv, MapsInv
  <1> QED BY <1>1, <1>3, <1>4, <1>5, <1>6, <1>7, <1>8, <1>9 DEF IInv

LEMMA StampWorks ==
    ASSUME NEW d \in Trees, NEW whole \in BOOLEAN, NEW text \in BOOLEAN
    PROVE  /\ Stamp(d, whole, text) \in Trees
           /\ Stamp(d, whole, text).functions >= d.functions
           /\ Stamp(d, whole, text).globals = d.globals
           /\ whole => Stamp(d, whole, text).symbols = Stamp(d, whole, text).functions
           /\ \/ Stamp(d, whole, text).text = d.text
              \/ text /\ Stamp(d, whole, text).text = "full"
              \/ text /\ d.globals = 0
  <1> DEFINE n == d.functions + 1
             m == IF d.thumb = 0 THEN 0 ELSE d.thumb + 1
             y == IF whole THEN d.functions + 1 ELSE d.symbols
             x == IF ~text \/ d.text # "raw" THEN d.text
                  ELSE IF d.globals = 0 THEN "named" ELSE "full"
             s == Stamp(d, whole, text)
  <1>1. s = [d EXCEPT !.functions = n, !.thumb = m, !.symbols = y, !.text = x]
    BY Zenon DEF Stamp
  <1>2. /\ d.functions \in Nat /\ d.thumb \in Nat /\ d.symbols \in Nat
        /\ d.text \in {"none", "raw", "named", "full"}
    BY DEF Trees
  <1>3. n \in Nat /\ n >= d.functions BY <1>2
  <1>4. m \in Nat BY <1>2
  <1>5. whole => y = n BY Zenon
  <1>6. y \in Nat
    <2>1. y = d.functions + 1 \/ y = d.symbols BY Zenon
    <2> HIDE DEF y
    <2> QED BY <1>2, <2>1
  <1>7. \/ x = d.text
        \/ text /\ x = "full"
        \/ text /\ d.globals = 0 /\ x = "named"
    BY Zenon
  <1> HIDE DEF n, m, y, x, s
  <1>8. x \in {"none", "raw", "named", "full"} BY <1>2, <1>7
  <1>9. s \in Trees BY <1>1, <1>3, <1>4, <1>6, <1>8 DEF Trees
  <1>10. s.functions = n /\ s.globals = d.globals /\ s.symbols = y /\ s.text = x
    BY <1>1 DEF Trees
  <1>11. /\ s \in Trees /\ s.functions >= d.functions /\ s.globals = d.globals
    BY <1>3, <1>9, <1>10
  <1>12. whole => s.symbols = s.functions BY <1>5, <1>10, Zenon
  <1>13. \/ s.text = d.text
         \/ text /\ s.text = "full"
         \/ text /\ d.globals = 0
    <2>1. s.text = x BY <1>10
    <2>2. CASE x = d.text
      <3>1. s.text = d.text BY <2>1, <2>2
      <3> QED BY <3>1, Zenon
    <2>3. CASE text /\ x = "full"
      <3>1. s.text = "full" BY <2>1, <2>3
      <3> QED BY <2>3, <3>1, Zenon
    <2>4. CASE text /\ d.globals = 0 BY <2>4, Zenon
    <2> QED BY <1>7, <2>2, <2>3, <2>4, Zenon
  <1> QED BY <1>11, <1>12, <1>13, Zenon DEF s

LEMMA FinalizeStep == ASSUME IInv, Finalize PROVE IInv'
  <1>0. ShapeInv /\ TodoInv BY DEF IInv
  <1> DEFINE text == Step("FinalizeText")
  <1>1. /\ Step("Finalize") \/ text
        /\ Continue
        /\ UNCHANGED <<report, res, haveRows, contexts, retained, snap, maps, scheduled,
                       pruned, opts>>
    BY DEF Finalize, afterPass1
  <1>2. /\ TodoInv'
        /\ \/ opts.noSymbol /\ At = "Finalize" /\ At' = "RunGlobals"
           \/ opts.noSymbol /\ At = "FinalizeText" /\ At' = "RunGlobalShapes"
           \/ ~opts.noSymbol /\ At = "Finalize" /\ At' = "RefreshGlobalShapes"
    <2>1. CASE Step("Finalize") BY <1>0, <1>1, <2>1, Goes DEF Edge
    <2>2. CASE Step("FinalizeText") BY <1>0, <1>1, <2>2, Goes DEF Edge, Foreign
    <2> QED BY <1>1, <2>1, <2>2
  <1>3. text => At = "FinalizeText" BY DEF Step, At
  <1>4. /\ stages \in [Stages -> Seq(Statuses)] /\ faults \in 0 .. MaxFaults
        /\ res \in [Images -> Results] /\ disk \in [Images -> Trees]
        /\ kept \in [Images -> Kepts] /\ row \in [Images -> [base : Results, kept : Kepts]]
        /\ contexts \subseteq Images
    BY <1>0 DEF ShapeInv
  <1>5. haveRows => \A i \in Images : row[i].base = res[i] /\ row[i].kept = kept[i]
    BY <1>2 DEF IInv, RowInv
  <1>6. ASSUME NEW v \in {"ok", "failed"}, Push([symbolicate_finalize |-> v])
        PROVE  /\ stages' \in [Stages -> Seq(Statuses)]
               /\ Failed("global_shapes")' <=> Failed("global_shapes")
               /\ stages'["symbolicate_finalize"] # <<>>
               /\ stages'["symbolicate_finalize"][Len(stages'["symbolicate_finalize"])] = v
               /\ OthersOk' => OthersOk
    <2> DEFINE E == [symbolicate_finalize |-> v]
    <2>1. Push(E) BY <1>6
    <2>2. DOMAIN E = {"symbolicate_finalize"} /\ E["symbolicate_finalize"] = v OBVIOUS
    <2>3. v \in Statuses BY DEF Statuses
    <2> HIDE DEF E
    <2> QED BY <1>4, <2>1, <2>2, <2>3, NamesApart, Pushes
  <1>7. CASE /\ Fault({})
             /\ disk' = [i \in Images |-> IF i \in contexts THEN Stamp(disk[i], TRUE, text)
                                          ELSE disk[i]]
             /\ kept' = MergeSs(contexts) /\ Rows(Reapply(row, {"ss"}, kept'))
             /\ Push([symbolicate_finalize |-> "ok"])
    <2>1. faults' \in 0 .. MaxFaults BY <1>4, <1>7, NoFault
    <2>2. /\ stages' \in [Stages -> Seq(Statuses)]
          /\ Failed("global_shapes")' <=> Failed("global_shapes")
          /\ OthersOk' => OthersOk
      BY <1>6, <1>7
    <2>3. ASSUME NEW i \in Images
          PROVE  /\ disk'[i] \in Trees /\ disk'[i].functions >= disk[i].functions
                 /\ disk'[i].globals = disk[i].globals
                 /\ i \in contexts => disk'[i].symbols = disk'[i].functions
                 /\ \/ disk'[i].text = disk[i].text
                    \/ At = "FinalizeText" /\ disk'[i].text = "full"
                    \/ At = "FinalizeText" /\ disk[i].globals = 0
      <3>1. disk[i] \in Trees BY <1>4
      <3>2. CASE i \in contexts
        <4> DEFINE w == TRUE
                   b == disk[i]
                   d == Stamp(b, w, text)
        <4>1. disk'[i] = d BY <1>7, <3>2
        <4>2. b \in Trees /\ w /\ w \in BOOLEAN BY <3>1
        <4>4. text \in BOOLEAN BY Zenon DEF Step
        <4> HIDE DEF text, b, w
        <4>3. /\ d \in Trees /\ d.functions >= b.functions /\ d.globals = b.globals
              /\ w => d.symbols = d.functions
              /\ \/ d.text = b.text
                 \/ text /\ d.text = "full"
                 \/ text /\ b.globals = 0
          BY <4>2, <4>4, StampWorks
        <4> HIDE DEF d
        <4> QED BY <1>3, <4>1, <4>2, <4>3 DEF b
      <3>3. CASE i \notin contexts
        <4>1. disk'[i] = disk[i] BY <1>7, <3>3
        <4>2. disk[i].functions \in Nat BY <3>1 DEF Trees
        <4> QED BY <3>1, <3>3, <4>1, <4>2
      <3> QED BY <3>2, <3>3
    <2>4. disk' \in [Images -> Trees]
      <3>1. disk' = [i \in Images |-> disk'[i]] BY <1>7
      <3> QED BY <2>3, <3>1
    <2> DEFINE S == {i \in contexts : kept[i].ss = "none"}
               of == [i \in Images |-> "finalize"]
    <2>5. kept' = Keep("ss", S, of) BY <1>7 DEF MergeSs
    <2>6. \A i \in Images : of[i] = "finalize" OBVIOUS
    <2> HIDE DEF S, of
    <2>7. /\ kept' = [i \in Images |-> kept'[i]]
          /\ \A i \in Images :
               /\ kept'[i] = [h \in Groups |-> kept'[i][h]]
               /\ \A h \in Groups : h # "ss" \/ i \notin S => kept'[i][h] = kept[i][h]
               /\ i \in S => kept'[i]["ss"] = "finalize"
      <3>1. "ss" \in Groups BY DEF Groups
      <3> QED BY <1>4, <2>5, <2>6, <3>1, KeepWorks
    <2>8. kept' \in [Images -> Kepts]
      <3>1. ASSUME NEW i \in Images PROVE kept'[i] \in Kepts
        <4>1. kept[i] \in Kepts BY <1>4
        <4>2. kept'[i]["ss"] \in {"none", "symbol_map", "finalize"}
          BY <2>7, <4>1, KeptFunctions DEF Groups
        <4>3. \A h \in {"dbt", "startup", "shapes", "types"} : kept'[i][h] = kept[i][h]
          BY <2>7 DEF Groups
        <4> QED BY <2>7, <4>1, <4>2, <4>3, KeptFunctions
      <3> QED BY <2>7, <3>1
    <2>9. \A i \in Images : /\ kept'[i].shapes = kept[i].shapes
                            /\ kept'[i].startup = kept[i].startup
                            /\ kept'[i].types = kept[i].types
      BY <2>7 DEF Groups
    <2>10. /\ row' \in [Images -> [base : Results, kept : Kepts]]
           /\ haveRows => \A i \in Images : row'[i].base = res[i] /\ row'[i].kept = kept'[i]
      <3>1. CASE ~haveRows BY <1>4, <1>7, <3>1 DEF Rows
      <3>2. CASE haveRows
        <4> DEFINE gs == {"ss"}
                   k == kept'
        <4>1. row' = Reapply(row, gs, k) BY <1>7, <3>2 DEF Rows
        <4>2. \A i \in Images : row[i] = RowOf(row[i].base, row[i].kept) BY <1>4 DEF RowOf
        <4>3. \A i \in Images : \A g \in Groups :
                 (g \in gs /\ k[i][g] # "none") \/ row[i].kept[g] = k[i][g]
          <5> TAKE i \in Images
          <5> TAKE g \in Groups
          <5>1. row[i].kept = kept[i] BY <1>5, <3>2
          <5>2. g # "ss" \/ i \notin S => kept'[i][g] = kept[i][g] BY <2>7
          <5>3. i \in S => kept'[i]["ss"] # "none" BY <2>7
          <5> QED BY <5>1, <5>2, <5>3
        <4>4. \A i \in Images : k[i] = [g \in Groups |-> k[i][g]] BY <2>7
        <4> HIDE DEF gs, k
        <4>5. /\ row' = [i \in Images |-> row'[i]]
              /\ \A i \in Images : row'[i] = RowOf(row[i].base, k[i])
          BY <4>1, <4>2, <4>3, <4>4, ReapplyWorks
        <4>6. ASSUME NEW i \in Images
              PROVE  /\ row'[i] \in [base : Results, kept : Kepts]
                     /\ row'[i].base = res[i] /\ row'[i].kept = kept'[i]
          <5> DEFINE x == res[i]
                     y == kept'[i]
          <5>1. x \in Results /\ y \in Kepts BY <1>4, <2>8
          <5>2. row'[i] = [base |-> x, kept |-> y] BY <1>5, <3>2, <4>5 DEF RowOf, k
          <5> HIDE DEF x, y
          <5>3. /\ row'[i] \in [base : Results, kept : Kepts]
                /\ row'[i].base = x /\ row'[i].kept = y
            BY <5>1, <5>2
          <5> QED BY <5>3 DEF x, y
        <4> QED BY <4>5, <4>6
      <3> QED BY <3>1, <3>2
    <2>11. \A i \in contexts : disk'[i].symbols = disk'[i].functions BY <1>4, <2>3
    <2> HIDE DEF text
    <2> QED BY <1>1, <1>2, <2>1, <2>2, <2>3, <2>4, <2>8, <2>9, <2>10, <2>11, FinalWorks
  <1>8. CASE \E whole, torn \in SUBSET contexts :
               /\ whole \cap torn = {} /\ whole # contexts /\ Cardinality(torn) <= 1
               /\ Fault({"finalize"})
               /\ disk' = [i \in Images |-> IF i \in whole \union torn
                                            THEN Stamp(disk[i], i \in whole, text)
                                            ELSE disk[i]]
               /\ Push([symbolicate_finalize |-> "failed"])
               /\ UNCHANGED <<kept, row>>
    <2>1. PICK whole, torn \in SUBSET contexts :
               /\ Fault({"finalize"})
               /\ disk' = [i \in Images |-> IF i \in whole \union torn
                                            THEN Stamp(disk[i], i \in whole, text)
                                            ELSE disk[i]]
               /\ Push([symbolicate_finalize |-> "failed"])
               /\ UNCHANGED <<kept, row>>
      BY <1>8
    <2>2. faults' \in 0 .. MaxFaults BY <1>4, <2>1, OneFault
    <2>3. /\ stages' \in [Stages -> Seq(Statuses)]
          /\ Failed("global_shapes")' <=> Failed("global_shapes")
          /\ OthersOk' => OthersOk
          /\ stages'["symbolicate_finalize"][Len(stages'["symbolicate_finalize"])] = "failed"
      BY <1>6, <2>1
    <2>4. ASSUME NEW i \in Images
          PROVE  /\ disk'[i] \in Trees /\ disk'[i].functions >= disk[i].functions
                 /\ disk'[i].globals = disk[i].globals
                 /\ \/ disk'[i].text = disk[i].text
                    \/ At = "FinalizeText" /\ disk'[i].text = "full"
                    \/ At = "FinalizeText" /\ disk[i].globals = 0
      <3>1. disk[i] \in Trees BY <1>4
      <3>2. CASE i \in whole \union torn
        <4> DEFINE w == i \in whole
                   b == disk[i]
                   d == Stamp(b, w, text)
        <4>1. disk'[i] = d BY <2>1, <3>2
        <4>2. b \in Trees /\ w \in BOOLEAN BY <3>1
        <4>4. text \in BOOLEAN BY Zenon DEF Step
        <4> HIDE DEF text, b, w
        <4>3. /\ d \in Trees /\ d.functions >= b.functions /\ d.globals = b.globals
              /\ \/ d.text = b.text
                 \/ text /\ d.text = "full"
                 \/ text /\ b.globals = 0
          BY <4>2, <4>4, StampWorks
        <4> HIDE DEF d
        <4> QED BY <1>3, <4>1, <4>3 DEF b
      <3>3. CASE i \notin whole \union torn
        <4>1. disk'[i] = disk[i] BY <2>1, <3>3
        <4>2. disk[i].functions \in Nat BY <3>1 DEF Trees
        <4> QED BY <3>1, <4>1, <4>2
      <3> QED BY <3>2, <3>3
    <2>5. disk' \in [Images -> Trees]
      <3>1. disk' = [i \in Images |-> disk'[i]] BY <2>1
      <3> QED BY <2>4, <3>1
    <2>6. kept' = kept /\ row' = row BY <2>1
    <2> HIDE DEF text
    <2> QED BY <1>1, <1>2, <1>4, <1>5, <2>2, <2>3, <2>4, <2>5, <2>6, FinalWorks
  <1> QED BY <1>7, <1>8, Zenon DEF Finalize

-----------------------------------------------------------------------------
(* The invariant holds of every state of every run.                        *)

LEMMA StutterStep == ASSUME IInv, UNCHANGED vars PROVE IInv'
  <1> USE DEF vars
  <1>1. ShapeInv' BY DEF IInv, ShapeInv
  <1>2. TodoInv' BY DEF IInv, TodoInv
  <1> USE DEF At, Dispatched, Typed, Globaled, Swept, Finalized
  <1>3. ReportInv' BY DEF IInv, ReportInv
  <1>4. RowInv' BY DEF IInv, RowInv
  <1>5. KeptInv' BY DEF IInv, KeptInv
  <1>6. GlobalsInv' BY DEF IInv, GlobalsInv
  <1> USE DEF OthersOk, Failed
  <1>7. BindInv' BY DEF IInv, BindInv, ReportOk, Inputs
  <1>8. HonestInv' BY DEF IInv, HonestInv
  <1>9. MapsInv' BY DEF IInv, MapsInv
  <1> QED BY <1>1, <1>2, <1>3, <1>4, <1>5, <1>6, <1>7, <1>8, <1>9, Zenon DEF IInv

LEMMA InitInv == Init => IInv
  <1> SUFFICES ASSUME Init PROVE IInv
    OBVIOUS
  <1>1. opts.noSymbol \in BOOLEAN BY RouteAssumption DEF Init
  <1>2. /\ todo = Pipeline(opts.noSymbol) /\ todo \in Seq(StepNames)
        /\ Len(todo) \in Nat /\ Len(todo) >= 1 /\ todo[1] = "Extract"
    <2>1. CASE opts.noSymbol = TRUE
      <3> DEFINE p == Pipeline(TRUE)
      <3>1. p \in Seq(StepNames) /\ Len(p) = 15 /\ p[1] = "Extract" BY Pipelines, Zenon
      <3>2. Pipeline(opts.noSymbol) = p BY <2>1, Zenon
      <3> HIDE DEF p
      <3>3. todo = p BY <3>2 DEF Init
      <3>4. /\ todo \in Seq(StepNames) /\ Len(todo) \in Nat /\ Len(todo) >= 1
            /\ todo[1] = "Extract"
        <4>1. todo \in Seq(StepNames) /\ todo[1] = "Extract" BY <3>1, <3>3, Zenon
        <4>2. Len(todo) = 15 BY <3>1, <3>3, Zenon
        <4>3. Len(todo) \in Nat /\ Len(todo) >= 1
          <5> DEFINE n == Len(todo)
          <5>1. n = 15 BY <4>2
          <5> HIDE DEF n
          <5>2. n \in Nat /\ n >= 1 BY <5>1
          <5> QED BY <5>2 DEF n
        <4> QED BY <4>1, <4>3, Zenon
      <3> QED BY <3>2, <3>3, <3>4, Zenon
    <2>2. CASE opts.noSymbol = FALSE
      <3> DEFINE p == Pipeline(FALSE)
      <3>1. p \in Seq(StepNames) /\ Len(p) = 18 /\ p[1] = "Extract" BY Pipelines, Zenon
      <3>2. Pipeline(opts.noSymbol) = p BY <2>2, Zenon
      <3> HIDE DEF p
      <3>3. todo = p BY <3>2 DEF Init
      <3>4. /\ todo \in Seq(StepNames) /\ Len(todo) \in Nat /\ Len(todo) >= 1
            /\ todo[1] = "Extract"
        <4>1. todo \in Seq(StepNames) /\ todo[1] = "Extract" BY <3>1, <3>3, Zenon
        <4>2. Len(todo) = 18 BY <3>1, <3>3, Zenon
        <4>3. Len(todo) \in Nat /\ Len(todo) >= 1
          <5> DEFINE n == Len(todo)
          <5>1. n = 18 BY <4>2
          <5> HIDE DEF n
          <5>2. n \in Nat /\ n >= 1 BY <5>1
          <5> QED BY <5>2 DEF n
        <4> QED BY <4>1, <4>3, Zenon
      <3> QED BY <3>2, <3>3, <3>4, Zenon
    <2> QED BY <1>1, <2>1, <2>2
  <1>3. At = "Extract" /\ TodoInv
    <2>1. todo # <<>> /\ Head(todo) = todo[1] BY <1>2
    <2>2. At = "Extract" BY <1>2, <2>1 DEF At
    <2> DEFINE p == Pipeline(opts.noSymbol)
    <2>3. todo = p BY <1>2
    <2> HIDE DEF p
    <2>4. /\ todo \in Seq(StepNames) /\ Len(todo) <= Len(p)
          /\ \A j \in 1 .. Len(todo) : todo[j] = p[Len(p) - Len(todo) + j]
      BY <1>2, <2>3
    <2>5. TodoInv BY <2>4 DEF TodoInv, p
    <2> QED BY <2>2, <2>5
  <1>4. Nulls \in Kepts /\ Nulls.shapes = "none" /\ Nulls.types = "none"
        /\ Nulls.startup = "none"
    BY DEF Nulls, Groups, Kepts
  <1>5. Fresh \in Results BY DEF Fresh, Results
  <1>6. NoFiles \in Trees /\ Earlier \in Trees
    BY DEF NoFiles, Earlier, Trees
  <1>7. ShapeInv
    <2>1. 0 \in 0 .. MaxFaults BY RouteAssumption
    <2>2. stages \in [Stages -> Seq(Statuses)] BY DEF Init
    <2>3. /\ res \in [Images -> Results] /\ kept \in [Images -> Kepts]
          /\ disk \in [Images -> Trees]
      BY <1>4, <1>5, <1>6 DEF Init
    <2>4. row \in [Images -> [base : Results, kept : Kepts]] BY <1>4, <1>5 DEF Init
    <2>5. maps \in [{"function", "global", "types"} -> SUBSET Images] BY DEF Init
    <2> QED BY <2>1, <2>2, <2>3, <2>4, <2>5 DEF Init, ShapeInv
  <1>8. /\ ~report /\ ~retained /\ ~haveRows /\ contexts = {} /\ snap = {} /\ scheduled = {}
        /\ maps["types"] = {} /\ maps["global"] = {} /\ ~pruned
        /\ stages["symbolicate_finalize"] = <<>>
        /\ \A i \in Images : res[i] = Fresh /\ kept[i] = Nulls
    BY NamesApart DEF Init
  <1>9. /\ ~Dispatched /\ ~Typed /\ ~Globaled /\ ~Swept /\ ~Finalized
        /\ At \in Start /\ At \notin Final /\ At # "end"
    BY <1>1, <1>3 DEF Dispatched, Typed, Globaled, Swept, Finalized, Start, BeforeMaps, Final
  <1>10. ReportInv BY <1>8, <1>9 DEF ReportInv, Fresh
  <1>11. RowInv BY <1>8 DEF RowInv
  <1>12. KeptInv BY <1>4, <1>8 DEF KeptInv
  <1>13. GlobalsInv BY <1>8 DEF GlobalsInv
  <1>14. BindInv BY <1>8, <1>9 DEF BindInv
  <1>15. HonestInv BY <1>4, <1>8, <1>9 DEF HonestInv, Fresh
  <1>16. MapsInv BY <1>8, <1>9 DEF MapsInv
  <1> QED BY <1>3, <1>7, <1>10, <1>11, <1>12, <1>13, <1>14, <1>15, <1>16 DEF IInv

LEMMA NextInv == IInv /\ [Next]_vars => IInv'
  <1> SUFFICES ASSUME IInv, [Next]_vars PROVE IInv'
    OBVIOUS
  <1> QED
    BY ExtractStep, LocateRootfsStep, DecompileStep, ThumbEnrichStep, DebugTracesStep,
       SideStep, StartupStep, SymbolMapStep, GlobalsStep, GlobalShapesStep, DispatchStep,
       PostPass2Step, ApplyTypesStep, FinalizeStep, PruneStep, StutterStep, Zenon DEF Next

\* Every state of every run satisfies the inductive invariant: what each row,
\* sidecar and map may hold at the step that the pipeline has reached.
THEOREM Invariance == Spec => []IInv
  <1>1. Init => IInv BY InitInv
  <1>2. IInv /\ [Next]_vars => IInv' BY NextInv
  <1> QED BY <1>1, <1>2, PTL DEF Spec


\* When the pipeline ends, each row of report.json is the last state of its
\* ImageResult with every outcome that its stages kept.
THEOREM ReportRowsCurrent == Spec => []RowsAreCurrent
  <1>1. IInv => RowsAreCurrent
    <2> SUFFICES ASSUME IInv, Done, haveRows, NEW i \in Images
                 PROVE  row[i] = [base |-> res[i], kept |-> kept[i]]
      BY DEF RowsAreCurrent
    <2>1. At = "end" BY DEF Done, At
    <2>2. row[i].kept = kept[i] /\ row[i].base = res[i] BY <2>1 DEF IInv, RowInv
    <2>3. row[i] \in [base : Results, kept : Kepts] BY DEF IInv, ShapeInv
    <2> QED BY <2>2, <2>3
  <1> QED BY <1>1, Invariance, PTL

\* Every variable keeps its type, and the digests in symbols.json and
\* global_shapes.json are those of the files that the run ends with.
THEOREM SidecarsBindFinal == Spec => []BindingsOK
  <1>1. IInv => TypeOK
    <2> SUFFICES ASSUME IInv PROVE TypeOK
      OBVIOUS
    <2>1. ShapeInv /\ ~(report /\ retained) BY DEF IInv, ReportInv
    <2>2. \A s \in Stages : \A k \in 1 .. Len(stages[s]) : stages[s][k] \in Statuses
      <3> TAKE s \in Stages
      <3>1. stages[s] \in Seq(Statuses) BY <2>1 DEF ShapeInv
      <3> HIDE DEF Statuses
      <3> QED BY <3>1
    <2>3. ASSUME NEW i \in Images
          PROVE  /\ res[i].outcome \in {"analyzed", "opaque", "failed"}
                 /\ res[i].thumb \in {"none", "ok", "error"}
                 /\ kept[i].dbt \in {"none", "counted"}
                 /\ kept[i].startup \in {"none", "present", "skipped", "failed"}
                 /\ kept[i].ss \in {"none", "symbol_map", "finalize"}
                 /\ kept[i].shapes \in {"none", "ok", "failed"}
                 /\ kept[i].types \in {"none", "applied", "failed"}
      <3>1. res[i] \in Results /\ kept[i] \in Kepts BY <2>1 DEF ShapeInv
      <3> QED BY <3>1 DEF Results, Kepts
    <2> QED BY <2>1, <2>2, <2>3 DEF ShapeInv, TypeOK
  <1>2. IInv => ShapesBindFinal
    <2> SUFFICES ASSUME IInv, Done, haveRows, NEW i \in Images
                 PROVE  /\ row[i].kept.shapes = "ok" => disk[i].shapes = Inputs(i)
                        /\ ReportOk /\ i \in contexts /\ HasShapes(i) =>
                             disk[i].shapes = Inputs(i)
      BY DEF ShapesBindFinal
    <2>1. At = "end" /\ At \in Final BY DEF Done, At, Final
    <2>2. row[i].kept = kept[i] BY <2>1 DEF IInv, RowInv
    <2>3. /\ kept[i].shapes = "ok" => disk[i].shapes = Inputs(i)
          /\ ReportOk /\ i \in contexts => kept[i].shapes = "ok"
      BY <2>1 DEF IInv, BindInv
    <2> QED BY <2>2, <2>3
  <1>3. IInv => SymbolsBindFinal
    <2> SUFFICES ASSUME IInv, Reached("symbolicate_finalize"),
                        stages["symbolicate_finalize"][Len(stages["symbolicate_finalize"])]
                          = "ok"
                 PROVE  \A i \in contexts : disk[i].symbols = disk[i].functions
      BY DEF SymbolsBindFinal
    <2>1. stages["symbolicate_finalize"] # <<>> BY DEF Reached
    <2> QED BY <2>1 DEF IInv, BindInv
  <1>4. IInv => BindingsOK BY <1>1, <1>2, <1>3 DEF BindingsOK
  <1> QED BY <1>4, Invariance, PTL

\* No current image has a globals.json when the maps for Ghidra are built, and
\* without a symbol pass decompiled.c is rewritten with the globals' names.
THEOREM GlobalsKeepTheirPlace == Spec => []GlobalsInOrder
  <1>1. IInv => GlobalsInOrder
    <2> SUFFICES ASSUME IInv PROVE NoGuessesInMaps /\ TextHasAllNames
      BY DEF GlobalsInOrder
    <2>1. NoGuessesInMaps
      <3>1. Step("SymbolMap") => At \in BeforeMaps BY DEF Step, At, BeforeMaps
      <3> QED BY <3>1 DEF IInv, GlobalsInv, NoGuessesInMaps
    <2>2. TextHasAllNames BY DEF IInv, GlobalsInv, TextHasAllNames
    <2> QED BY <2>1, <2>2
  <1> QED BY <1>1, Invariance, PTL

\* No tree of another run takes part in the second pass, and maps made from
\* one make the report fail.
THEOREM ForeignTreesStayOut == Spec => []ForeignTreeStaysOut
  <1>1. IInv => ForeignTreeStaysOut
    <2> SUFFICES ASSUME IInv, Done PROVE ForeignTreeStaysOut
      BY DEF ForeignTreeStaysOut
    <2>1. At = "end" BY DEF Done, At
    <2>2. scheduled \subseteq contexts BY DEF IInv, ShapeInv
    <2>3. \A i \in scheduled : disk[i].functions >= 2 BY <2>2 DEF IInv, ReportInv
    <2>4. ASSUME ReportOk, NEW i \in maps["global"] \union maps["types"] PROVE i \in snap
      <3>1. OthersOk BY <2>4, ReportOkSplit
      <3>2. CASE opts.noSymbol
        <4>1. ~Dispatched BY <3>2 DEF Dispatched
        <4>2. maps["global"] = {} /\ maps["types"] = {} BY <3>2, <4>1 DEF IInv, ReportInv
        <4> QED BY <2>4, <4>2
      <3>3. CASE ~opts.noSymbol
        <4>1. Dispatched /\ Typed BY <2>1, <3>3 DEF Dispatched, Typed, Final
        <4>2. maps["global"] \subseteq snap /\ maps["types"] \subseteq snap
          BY <3>1, <4>1 DEF IInv, MapsInv
        <4> QED BY <2>4, <4>2
      <3> QED BY <3>2, <3>3
    <2> QED BY <2>3, <2>4 DEF ForeignTreeStaysOut
  <1> QED BY <1>1, Invariance, PTL

\* A report that says ok has rows without a failure in any field, and the
\* sweep that the command line asked for has been done.
THEOREM OkReportsAreHonest == Spec => []OkIsHonest
  <1>1. IInv => OkIsHonest
    <2> SUFFICES ASSUME IInv, Done, ReportOk
                 PROVE  /\ opts.prune => pruned
                        /\ haveRows
                        /\ \A i \in Images :
                              /\ row[i].base.outcome # "failed" /\ row[i].base.thumb # "error"
                              /\ ~row[i].base.enrichError /\ row[i].base.globals # "error"
                              /\ row[i].base.pass2 # "failed"
                              /\ \A g \in Groups : row[i].kept[g] # "failed"
      BY DEF OkIsHonest
    <2>1. At = "end" /\ At \notin Start BY DEF Done, At, Start
    <2>2. OthersOk /\ ~Failed("global_shapes") BY ReportOkSplit
    <2>3. haveRows /\ (opts.prune => pruned) BY <2>1, <2>2 DEF IInv, HonestInv
    <2>4. ASSUME NEW i \in Images
          PROVE  /\ res[i].outcome # "failed" /\ res[i].thumb # "error"
                 /\ ~res[i].enrichError /\ res[i].globals # "error" /\ res[i].pass2 # "failed"
                 /\ \A g \in Groups : kept[i][g] # "failed"
                 /\ row[i].base = res[i] /\ row[i].kept = kept[i]
      <3>1. row[i].kept = kept[i] /\ row[i].base = res[i] BY <2>1, <2>3 DEF IInv, RowInv
      <3>2. /\ res[i].outcome # "failed" /\ res[i].thumb # "error"
            /\ ~res[i].enrichError /\ res[i].globals # "error" /\ res[i].pass2 # "failed"
            /\ kept[i].startup # "failed" /\ kept[i].types # "failed"
            /\ kept[i].shapes # "failed"
        BY <2>1, <2>2 DEF IInv, HonestInv
      <3>3. kept[i] \in Kepts BY DEF IInv, ShapeInv
      <3>4. kept[i]["dbt"] # "failed" /\ kept[i]["ss"] # "failed"
        BY <3>3, KeptFunctions
      <3>5. \A g \in Groups : kept[i][g] # "failed" BY <3>2, <3>4 DEF Groups
      <3> QED BY <3>1, <3>2, <3>5
    <2> QED BY <2>3, <2>4
  <1> QED BY <1>1, Invariance, PTL
=============================================================================
