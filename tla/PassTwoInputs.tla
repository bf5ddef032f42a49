---------------------------- MODULE PassTwoInputs ----------------------------
(***************************************************************************)
(* The files that describe the runtime of one image, from their generation *)
(* in the Ghidra kit, through their publication in the image's directory   *)
(* and back into the kit, to the scripts of the second pass that read      *)
(* them: src/decompile.rs, src/decompose.rs and src/terminal_pass2.rs.     *)
(*                                                                         *)
(* Every manifest binds the bytes that it was derived from, so an artifact *)
(* of an earlier run, or one that was altered, must not pass for this      *)
(* run's. The memory of the run says which files it owns (present), which  *)
(* it knows to be absent, and which it does not manage; a file's existence *)
(* proves nothing.                                                         *)
(*                                                                         *)
(* A content is a number: the version of the firmware that it was derived  *)
(* from, for a function inventory the run that exported it. A digest of a  *)
(* content is the content. The startup metadata bind four of them. A file  *)
(* that somebody alters holds a content that no run produces. Deleting is  *)
(* not told apart from altering: every reader refuses both.                *)
(***************************************************************************)
EXTENDS Integers, Sequences, FiniteSets

CONSTANTS
    Versions,       \* firmware images that the runs are given
    Discoveries,    \* sets of manifests that discovery may find in an image
    MaxRuns,        \* bound: runs of decompose over one output directory
    MaxMishaps      \* bound: failed file operations, alterations and crashes

Manifests == {"scatter", "exc", "pal", "msg"}

ASSUME InputsAssumption ==
    /\ Versions \subseteq 1 .. 9 /\ Discoveries \subseteq SUBSET Manifests
    /\ MaxRuns \in 1 .. 9 /\ MaxMishaps \in Nat

VARIABLES
    main,       \* the image is MAIN
    found,      \* Versions -> what discovery finds in that version
    run, ver,   \* the current run and the version it was given
    kit,        \* the files of the kit
    term,       \* the files of images/<label>
    st,         \* what generation established about each manifest
    ghidra,     \* how the first pass ended
    out,        \* how the publication of each file ended
    ctx,        \* the CurrentSymbolicationContext
    snap,       \* the TerminalPass2Snapshot
    maps,       \* the prepared maps
    prog,       \* what the program of the project holds
    applied,    \* what the scripts of the second pass read, by script
    result,     \* outcome of the second pass
    pc, mishaps

vars == <<main, found, run, ver, kit, term, st, ghidra, out, ctx, snap, maps,
          prog, applied, result, pc, mishaps>>
disk   == <<kit, term>>
setup  == <<main, found, run, ver>>
pass1  == <<st, ghidra, out, ctx>>
second == <<snap, maps, applied, result>>

Files == Manifests \cup {"raw", "startup", "functions", "marker", "map", "globals"}
Tuples == {"startup", "marker"}
Gone(f)    == IF f \in Tuples THEN <<>> ELSE 0
Altered(f) == IF f \in Tuples THEN <<-1>> ELSE -1
Second(n)  == 10 + n        \* the inventory that run n's second pass exports

\* ArtifactState, RuntimeScatterState, RuntimeExceptionState, RuntimeTaskState
Present(v) == <<"present", v>>
Absent     == <<"absent">>
Unmanaged  == <<"unmanaged">>
IsPresent(s) == s[1] = "present"
None       == [kind |-> "none"]

Digest(s) == IF IsPresent(s) THEN s[2] ELSE 0
TupleDigest(s) == IF IsPresent(s) THEN s[2] ELSE <<>>

(***************************************************************************)
(* What a manifest binds                                                   *)
(***************************************************************************)
\* read_materialized: the map has to be one of these raw bytes.
ScatterFits(scatter, raw) == scatter > 0 /\ scatter = raw

\* read_bytes of the other manifests, given the raw bytes and the digest of
\* the scatter map they are read against, 0 for none.
BoundScatter(v) == IF main /\ "scatter" \in found[v] THEN v ELSE 0
Fits(v, raw, scatter) ==
    /\ v \in Versions /\ v = raw
    /\ scatter = BoundScatter(v)
    /\ scatter # 0 => ScatterFits(scatter, raw)

\* authenticate_startup: the inventory is taken from the manifest itself.
StartupFits(s, raw, scatter, exc) ==
    Len(s) = 4 /\ s[1] = raw /\ s[2] = scatter /\ s[3] = exc

(***************************************************************************)
(* Generation and the first pass                                           *)
(***************************************************************************)
Managed(m) == main \/ m = "exc"
Found(m) ==
    IF ~Managed(m) THEN Unmanaged
    ELSE IF m \in found[ver] THEN Present(ver) ELSE Absent
Order == <<"scatter", "exc", "pal", "msg">>

AfterGeneration(ms) ==
    [f \in Files |-> IF f \in ms /\ Managed(f) THEN Digest(Found(f)) ELSE kit[f]]

NoOutcome == [f \in Manifests \cup {"raw", "functions"} |-> "pending"]
Refused == [refused |-> TRUE]
NoScript == [s \in {} |-> <<>>]

Generate ==
    /\ pc = "generate"
    /\ kit' = AfterGeneration(Manifests)
    /\ st' = [m \in Manifests |-> Found(m)]
    /\ pc' = "ghidra"
    /\ UNCHANGED <<setup, term, ghidra, out, ctx, second, prog, mishaps>>

\* An error of any step ends the command. materialize removes the old
\* scatter directory first; the other manifests are replaced atomically.
GenerateFails ==
    /\ pc = "generate" /\ mishaps < MaxMishaps
    /\ \E i \in 1 .. 4 :
        LET before == AfterGeneration({Order[j] : j \in 1 .. i - 1})
        IN  kit' \in {before} \cup
                 (IF Order[i] = "scatter" THEN {[before EXCEPT !["scatter"] = 0]} ELSE {})
    /\ pc' = "done" /\ mishaps' = mishaps + 1
    /\ UNCHANGED <<setup, term, pass1, second, prog>>

\* The scripts of the first pass read the manifests in the kit.
KitIntact ==
    \A m \in Manifests \ {"msg"} :
        IsPresent(st[m]) => Fits(kit[m], kit["raw"], BoundScatter(ver))

\* GhidraExportRun.invalidate: the marker and the export of the kit go.
Scrubbed == [kit EXCEPT !["functions"] = 0, !["marker"] = <<>>]

\* Failed stands for TerminalInvalid as well.
Analyze ==
    /\ pc = "ghidra"
    /\ \/ /\ KitIntact
          /\ ghidra' = "analyzed"
          /\ prog' = [raw |-> kit["raw"], startup |-> <<>>]
          /\ \E startup \in {<<ver, Digest(st["scatter"]), Digest(st["exc"]), run>>,
                            kit["startup"]} :
                kit' = [kit EXCEPT !["functions"] = run, !["startup"] = startup,
                                   !["marker"] = <<Digest(st["exc"]),
                                                   Digest(st["pal"]), <<>>, 0>>]
       \/ /\ ghidra' = "failed"
          /\ kit' = Scrubbed
          /\ UNCHANGED prog
       \/ /\ ghidra' = "opaque"
          /\ kit' = [Scrubbed EXCEPT !["startup"] = <<>>]
          /\ UNCHANGED prog
    /\ pc' = "raw"
    /\ UNCHANGED <<setup, term, st, out, ctx, second, mishaps>>

(***************************************************************************)
(* Publication in the image's directory                                    *)
(***************************************************************************)
ExportCurrent == ghidra = "analyzed"

\* explicit_runtime_state: a failed pass owns no scatter map and no tasks.
Runtime(m) ==
    IF ghidra = "failed" /\ m \in {"scatter", "pal"} THEN Unmanaged ELSE st[m]

\* The exception roots keep the map that they were generated with.
ScatterState == IF IsPresent(st["exc"]) THEN st["scatter"] ELSE Runtime("scatter")

\* Mutant: a manifest is compared with its digest only.
MutFitsTerminal(m, scatter) == kit[m] = Digest(st[m])

\* validate_terminal_*_manifest_bytes: the bytes that generation recorded,
\* read against the raw image and the scatter map published before.
FitsTerminal(m, scatter) ==
    /\ kit[m] = Digest(st[m])
    /\ scatter # Unmanaged \/ ~main
    /\ Fits(kit[m], term["raw"], IF IsPresent(scatter) THEN term["scatter"] ELSE 0)

\* marshal_image_stages: what each manifest is read against, and whether
\* the files that it depends on have to be current.
ScatterOf(m) == IF m = "pal" THEN Runtime("scatter") ELSE st["scatter"]
Blocked(m) ==
    /\ IsPresent(Runtime(m))
    /\ \/ out["raw"] # "current"
       \/ m # "msg" /\ IsPresent(ScatterOf(m)) /\ out["scatter"] # "current"

Outcome(f, o) == out' = [out EXCEPT ![f] = o]
AfterMarshal == [raw |-> "functions", functions |-> "scatter", scatter |-> "exc",
                 exc |-> "pal", pal |-> "msg", msg |-> "context"]

\* Renamed out of the kit; a directory that is not empty is never replaced.
Moved(f) ==
    /\ kit[f] # 0
    /\ f = "functions" => term["functions"] = 0

Move(f) ==
    /\ term' = [term EXCEPT ![f] = kit[f]] /\ kit' = [kit EXCEPT ![f] = 0]
    /\ Outcome(f, "current")

\* Mutant: an earlier run's leaf is left when this one found nothing.
MutClear(f) == UNCHANGED disk /\ Outcome(f, "absent")

Clear(f) ==
    /\ term' = [term EXCEPT ![f] = 0]
    /\ kit' = IF f = "exc" THEN [kit EXCEPT ![f] = 0] ELSE kit
    /\ Outcome(f, "absent")

Leave(f, o) == UNCHANGED disk /\ Outcome(f, o)

MarshalRaw ==
    /\ pc = "raw"
    /\ IF Moved("raw") THEN Move("raw") ELSE Leave("raw", "failed")

MarshalExport ==
    /\ pc = "functions"
    /\ IF ~ExportCurrent THEN Leave("functions", "unmanaged")
       ELSE IF Moved("functions") THEN Move("functions")
       ELSE Leave("functions", "failed")

MarshalScatter ==
    /\ pc = "scatter"
    /\ IF ScatterState = Unmanaged THEN Leave("scatter", "unmanaged")
       ELSE IF ScatterState = Absent THEN Clear("scatter")
       ELSE IF Moved("scatter") THEN Move("scatter")
       ELSE Leave("scatter", "failed")

MarshalManifest(m) ==
    /\ pc = m
    /\ IF Blocked(m) THEN Leave(m, "blocked")
       ELSE IF Runtime(m) = Unmanaged THEN Leave(m, "unmanaged")
       ELSE IF Runtime(m) = Absent THEN Clear(m)
       ELSE IF ~FitsTerminal(m, ScatterOf(m)) THEN Leave(m, "failed")
       ELSE /\ term' = [term EXCEPT ![m] = kit[m]] /\ UNCHANGED kit
            /\ Outcome(m, "current")

Marshal ==
    /\ MarshalRaw \/ MarshalExport \/ MarshalScatter
       \/ \E m \in {"exc", "pal", "msg"} : MarshalManifest(m)
    /\ pc' = AfterMarshal[pc]
    /\ UNCHANGED <<setup, st, ghidra, ctx, second, prog, mishaps>>

\* A file operation of the step fails: the old leaf stays, or, for the
\* scatter directory, is gone when the rename fails.
MarshalFails ==
    /\ pc \in DOMAIN AfterMarshal /\ mishaps < MaxMishaps
    /\ ~(pc \in {"exc", "pal", "msg"} /\ Blocked(pc))
    /\ term' \in {term} \cup (IF pc = "scatter" /\ IsPresent(ScatterState)
                              THEN {[term EXCEPT !["scatter"] = 0]} ELSE {})
    /\ UNCHANGED kit /\ Outcome(pc, "failed")
    /\ pc' = AfterMarshal[pc] /\ mishaps' = mishaps + 1
    /\ UNCHANGED <<setup, st, ghidra, ctx, second, prog>>

Matches(o, s) == <<o, s[1]>> \in {<<"current", "present">>, <<"absent", "absent">>,
                                  <<"unmanaged", "unmanaged">>}

\* is_terminal_pass2_ready
Ready ==
    /\ ExportCurrent /\ out["raw"] = "current" /\ out["functions"] = "current"
    /\ Matches(out["scatter"], ScatterState)
    /\ Matches(out["exc"], st["exc"]) /\ Matches(out["pal"], Runtime("pal"))

\* AuthenticatedRoleEvidence.validate_runtime_binding
Binds(raw, scatter, s) == IsPresent(s) => Fits(s[2], raw, scatter)

\* build_current_symbolication_context
Authentic ==
    LET scatter == IF IsPresent(ScatterState) THEN term["scatter"] ELSE 0
    IN  /\ scatter # 0 => ScatterFits(scatter, term["raw"])
        /\ IsPresent(ScatterState) => scatter # 0
        /\ Binds(term["raw"], scatter, st["exc"])
        /\ Binds(term["raw"], scatter, Runtime("pal"))

MakeContext ==
    /\ pc = "context"
    /\ ctx' = IF Ready /\ Authentic
              THEN [kind    |-> "context",
                    raw     |-> term["raw"],
                    scatter |-> IF IsPresent(ScatterState)
                                THEN Present(term["scatter"]) ELSE ScatterState,
                    exc     |-> st["exc"], pal |-> Runtime("pal"),
                    startup |-> Unmanaged]
              ELSE None
    /\ pc' = "discover"
    /\ UNCHANGED <<setup, disk, st, ghidra, out, second, prog, mishaps>>

(***************************************************************************)
(* Startup metadata                                                        *)
(***************************************************************************)
CtxState(m) == IF ctx = None THEN Unmanaged ELSE ctx[m]

\* The inventory of this run reads against the raw bytes; another one may.
Readable == /\ term["functions"] > 0
            /\ IsPresent(CtxState("scatter")) =>
                   ScatterFits(term["scatter"], term["raw"])

\* discover_image_startup
Published == <<term["raw"], Digest(CtxState("scatter")), Digest(CtxState("exc")),
               term["functions"]>>

DiscoverStartup ==
    /\ pc = "discover"
    /\ \/ /\ ghidra = "opaque"
          /\ term' = [term EXCEPT !["startup"] = <<>>]
          /\ ctx' = IF ctx = None THEN None ELSE [ctx EXCEPT !.startup = Absent]
       \/ /\ ghidra = "analyzed" /\ Readable
          /\ term' = [term EXCEPT !["startup"] = Published]
          /\ ctx' = IF ctx # None /\ term["raw"] = ctx.raw
                    THEN [ctx EXCEPT !.startup = Present(Published)] ELSE ctx
       \/ /\ ghidra = "failed" \/ (ghidra = "analyzed" /\ (term["functions"] # run \/ ~Readable))
          /\ UNCHANGED <<term, ctx>>
    /\ pc' = "snapshot"
    /\ UNCHANGED <<setup, kit, st, ghidra, out, second, prog, mishaps>>

StartupFails ==
    /\ pc = "discover" /\ ghidra = "analyzed" /\ mishaps < MaxMishaps
    /\ \/ UNCHANGED term
       \/ Readable /\ term' = [term EXCEPT !["startup"] = Published]
    /\ pc' = "snapshot" /\ mishaps' = mishaps + 1
    /\ UNCHANGED <<setup, kit, pass1, second, prog>>

(***************************************************************************)
(* The terminal snapshot                                                   *)
(***************************************************************************)
Stages == <<"raw", "scatter", "exc", "pal", "startup">>
StateOf(m) ==
    CASE m = "raw" -> Present(term["raw"])
      [] m = "startup" -> ctx.startup
      [] OTHER -> Runtime(m)

\* What each stage reads in the image's directory has to fit what the
\* stages before it read.
StageFits(m) ==
    LET scatter == IF IsPresent(Runtime("scatter")) THEN term["scatter"] ELSE 0
    IN  CASE m = "raw" -> term["raw"] # 0
          [] m = "scatter" -> ScatterFits(term["scatter"], term["raw"])
          [] m = "startup" ->
                 /\ term["startup"] = ctx.startup[2]
                 /\ StartupFits(term["startup"], term["raw"], scatter, Digest(ctx.exc))
          [] OTHER ->
                 /\ term[m] = Digest(Runtime(m))
                 /\ Fits(term[m], term["raw"], scatter)

FittingStages == {n \in 0 .. Len(Stages) :
    \A i \in 1 .. n : IsPresent(StateOf(Stages[i])) => StageFits(Stages[i])}

\* A present leaf is copied into the kit, the leaf of an absent one goes.
Staged(n) ==
    [f \in Files |->
        IF f \notin {Stages[i] : i \in 1 .. n} \/ StateOf(f) = Unmanaged THEN kit[f]
        ELSE IF IsPresent(StateOf(f)) THEN term[f] ELSE Gone(f)]

\* validate_for_spawn: the context that the leaves give is this run's.
SameRuntime ==
    /\ term["raw"] = ctx.raw
    /\ IsPresent(ctx.scatter) => term["scatter"] = ctx.scatter[2]

BuildSnapshot ==
    /\ pc = "snapshot"
    /\ IF ctx = None \/ ~ExportCurrent
       THEN UNCHANGED <<kit, snap>>
       ELSE \E n \in FittingStages :
            /\ n + 1 \notin FittingStages
            /\ kit' = Staged(n)
            /\ snap' = IF n = Len(Stages) /\ SameRuntime
                       THEN [ctx EXCEPT !.raw = term["raw"]] ELSE None
    /\ pc' = "maps"
    /\ UNCHANGED <<setup, term, pass1, maps, applied, result, prog, mishaps>>

SnapshotFails ==
    /\ pc = "snapshot" /\ ctx # None /\ mishaps < MaxMishaps
    /\ \E n \in FittingStages : n < Len(Stages) /\ kit' = Staged(n)
    /\ pc' = "maps" /\ mishaps' = mishaps + 1
    /\ UNCHANGED <<setup, term, pass1, second, prog>>

(***************************************************************************)
(* The maps and the input of the second pass                               *)
(***************************************************************************)
\* What a script is given of a manifest, nothing when it is not present.
Identity(m) ==
    IF m = "raw" THEN snap.raw
    ELSE IF m = "startup" THEN TupleDigest(snap.startup) ELSE Digest(snap[m])
HasLeaf(m) == m = "raw" \/ IsPresent(snap[m])
Leaves == {Stages[i] : i \in 1 .. Len(Stages)}

\* validate_with_runtime
KitHolds ==
    \A m \in Leaves :
        IF HasLeaf(m) THEN kit[m] = Identity(m)
        ELSE snap[m] = Absent => kit[m] = Gone(m)

\* The map binds the leaves and the inventory; its content is the run's.
SymbolPlan == [kind |-> "map", map |-> run, image |-> term["raw"],
               functions |-> term["functions"]]

PlanMaps ==
    /\ pc = "maps"
    /\ IF snap = None
       THEN UNCHANGED <<disk, maps>> /\ pc' = "finish"
       ELSE /\ pc' = "bind"
            /\ \E sym \in {None} \cup (IF KitHolds /\ term["functions"] # 0
                                        THEN {SymbolPlan} ELSE {}),
                  globals \in BOOLEAN :
                /\ maps' = [sym |-> sym, globals |-> globals]
                /\ kit' = IF sym = None THEN kit ELSE [kit EXCEPT !["map"] = run]
                /\ term' = IF globals THEN [term EXCEPT !["globals"] = run] ELSE term
    /\ UNCHANGED <<setup, pass1, snap, applied, result, prog, mishaps>>

\* prepare_pass2_inputs, should_schedule: a map that was planned on another
\* image is dropped, the rest of the input stays.
Bind ==
    /\ pc = "bind"
    /\ LET bound == IF /\ maps.sym # None /\ maps.sym.image = snap.raw
                       /\ kit["raw"] = snap.raw
                    THEN maps.sym ELSE None
       IN  /\ maps' = [maps EXCEPT !.sym = bound]
           /\ pc' = IF bound # None \/ maps.globals \/ IsPresent(snap.startup)
                    THEN "begin" ELSE "finish"
    /\ UNCHANGED <<setup, disk, pass1, snap, applied, result, prog, mishaps>>

(***************************************************************************)
(* The second pass                                                         *)
(***************************************************************************)
Begin ==
    /\ pc = "begin"
    /\ kit' = Scrubbed
    /\ pc' = "validate"
    /\ UNCHANGED <<setup, term, pass1, second, prog, mishaps>>

Remains == {[Scrubbed EXCEPT !["functions"] = kit["functions"]],
            [Scrubbed EXCEPT !["marker"] = kit["marker"]], kit}

BeginFails ==
    /\ pc = "begin" /\ mishaps < MaxMishaps
    /\ kit' \in Remains /\ result' = "dirty"
    /\ pc' = "finish" /\ mishaps' = mishaps + 1
    /\ UNCHANGED <<setup, term, pass1, snap, maps, applied, prog>>

Scripts == <<"thumb", "symbols", "startup", "globals", "export">>
Scheduled(s) ==
    CASE s \in {"thumb", "symbols"} -> maps.sym # None
      [] s = "startup" -> IsPresent(snap.startup)
      [] s = "globals" -> maps.globals
      [] OTHER -> TRUE

\* The scripts in the order of the command line: the first of those asked for
\* from position k on. The export is always asked for.
Queued(k) ==
    Scripts[CHOOSE j \in k .. Len(Scripts) :
        Scheduled(Scripts[j]) /\ \A i \in k .. j - 1 : ~Scheduled(Scripts[i])]
After(s) == IF s = "export" THEN "accept"
            ELSE Queued(1 + CHOOSE i \in 1 .. Len(Scripts) : Scripts[i] = s)

\* headless_process_args
InputHolds ==
    /\ KitHolds
    /\ maps.sym # None => /\ kit["map"] = maps.sym.map
                         /\ term["functions"] = maps.sym.functions
                         /\ kit["raw"] = maps.sym.image
    /\ maps.globals => term["globals"] # 0

Validate ==
    /\ pc = "validate"
    /\ pc' = IF InputHolds THEN Queued(1) ELSE "scrub"
    /\ UNCHANGED <<setup, disk, pass1, second, prog, mishaps>>

\* The files that a script opens, and the digest that it is given of each.
\* A manifest is read with the raw image and the scatter map that it binds.
Under(m) == IF HasLeaf(m) THEN {m, "raw"} \cup {f \in {"scatter"} : HasLeaf(f)} ELSE {}
Reads(s) ==
    CASE s = "thumb"   -> {"map", "functions"} \cup Under("exc")
      [] s = "symbols" -> {"map", "functions"} \cup Under("exc") \cup Under("pal")
      [] s = "startup" -> {"functions"} \cup Under("startup")
      [] s = "globals" -> {"globals"}
      [] OTHER -> Under("exc") \cup Under("pal") \cup Under("startup")
                  \cup (IF maps.sym = None THEN {} ELSE {"map"})
Content(f) == IF f \in {"functions", "globals"} THEN term[f] ELSE kit[f]
Expected(f) ==
    CASE f = "map" -> maps.sym.map
      [] f = "functions" -> IF maps.sym # None THEN maps.sym.functions ELSE snap.startup[2][4]
      [] f = "globals" -> term["globals"]
      [] OTHER -> Identity(f)
Given(s) == [f \in Reads(s) |-> Content(f)]

\* Mutant: a script believes the driver.
MutOpens(s) == TRUE

\* The inventory that the startup metadata bind is the one of the maps.
Opens(s) ==
    /\ \A f \in Reads(s) : Content(f) = Expected(f)
    /\ s = "startup" => Expected("functions") = snap.startup[2][4]

Applied(s, what) ==
    applied' = [x \in DOMAIN applied \cup {s} |-> IF x = s THEN what ELSE applied[x]]

Script(s) ==
    /\ pc = s /\ s # "export"
    /\ IF Opens(s)
       THEN /\ Applied(s, Given(s)) /\ pc' = After(s)
            /\ prog' = IF s = "startup" THEN [prog EXCEPT !.startup = kit["startup"]] ELSE prog
       ELSE UNCHANGED <<prog, applied>> /\ s # "startup" /\ pc' = "scrub"
    /\ UNCHANGED <<setup, disk, pass1, snap, maps, result, mishaps>>

\* ApplyStartupMetadata returns after its preflight: a file is not the one
\* it was promised, or the program has no function at an application.
RefuseStartup ==
    /\ pc = "startup"
    /\ Applied("startup", Refused) /\ pc' = After("startup")
    /\ UNCHANGED <<setup, disk, pass1, snap, maps, result, prog, mishaps>>

Marker == <<Digest(snap.exc), Digest(snap.pal), TupleDigest(snap.startup),
            IF maps.sym = None THEN 0 ELSE maps.sym.map>>

\* ExportDecomp: what the program holds has to be what the manifests say.
Export ==
    /\ pc = "export"
    /\ IF Opens("export") /\ prog.startup = Identity("startup")
       THEN /\ kit' = [kit EXCEPT !["functions"] = Second(run), !["marker"] = Marker]
            /\ Applied("export", Given("export")) /\ pc' = "accept"
       ELSE UNCHANGED <<kit, applied>> /\ pc' = "scrub"
    /\ UNCHANGED <<setup, term, pass1, snap, maps, result, prog, mishaps>>

\* The process is not started, a script fails on the program, or the child
\* is killed, between the export and its marker too.
ChildFails ==
    /\ pc \in {Scripts[i] : i \in 1 .. Len(Scripts)} /\ mishaps < MaxMishaps
    /\ kit' \in {kit} \cup (IF pc = "export"
                              THEN {[kit EXCEPT !["functions"] = Second(run)]} ELSE {})
    /\ pc' = "scrub" /\ mishaps' = mishaps + 1
    /\ UNCHANGED <<setup, term, pass1, second, prog>>

\* validate_current
Accept ==
    /\ pc = "accept"
    /\ IF kit["functions"] # 0 /\ kit["marker"] = Marker
       THEN /\ result' = "ok" /\ pc' = "refresh"
       ELSE pc' = "scrub" /\ UNCHANGED result
    /\ UNCHANGED <<setup, disk, pass1, snap, maps, applied, prog, mishaps>>

\* A summary that does not parse: the export is not marked current.
AcceptFails ==
    /\ pc = "accept" /\ maps.sym # None /\ mishaps < MaxMishaps
    /\ pc' = "scrub" /\ mishaps' = mishaps + 1
    /\ UNCHANGED <<setup, disk, pass1, second, prog>>

\* Mutant: an attempt that ends without an export leaves the kit as it is.
MutScrub ==
    /\ pc = "scrub"
    /\ UNCHANGED kit /\ result' = "failed" /\ pc' = "finish"
    /\ UNCHANGED <<setup, term, pass1, snap, maps, applied, prog, mishaps>>

\* GhidraExportAttempt's Drop
Scrub ==
    /\ pc = "scrub"
    /\ kit' = Scrubbed /\ result' = "failed" /\ pc' = "finish"
    /\ UNCHANGED <<setup, term, pass1, snap, maps, applied, prog, mishaps>>

ScrubFails ==
    /\ pc = "scrub" /\ mishaps < MaxMishaps
    /\ kit' \in Remains /\ result' = "dirty"
    /\ pc' = "finish" /\ mishaps' = mishaps + 1
    /\ UNCHANGED <<setup, term, pass1, snap, maps, applied, prog>>

\* RefreshTransaction has its own module: it takes the inventory or leaves
\* the old one.
Refresh ==
    /\ pc = "refresh"
    /\ \/ kit' = [kit EXCEPT !["functions"] = 0]
          /\ term' = [term EXCEPT !["functions"] = kit["functions"]]
       \/ UNCHANGED disk
    /\ pc' = "finish"
    /\ UNCHANGED <<setup, pass1, second, prog, mishaps>>

(***************************************************************************)
(* The end of a run, and what may happen at any time                       *)
(***************************************************************************)
Forget ==
    /\ st' = [m \in Manifests |-> Unmanaged] /\ ghidra' = "none" /\ out' = NoOutcome
    /\ ctx' = None /\ snap' = None /\ maps' = [sym |-> None, globals |-> FALSE]
    /\ applied' = NoScript /\ result' = "none"
    /\ prog' = [raw |-> 0, startup |-> <<>>]

\* prune, when it was asked for
Finish ==
    /\ pc = "finish" /\ pc' = "done"
    /\ \/ UNCHANGED disk
       \/ kit' = [f \in Files |-> Gone(f)] /\ term' = [term EXCEPT !["raw"] = 0]
    /\ UNCHANGED <<setup, pass1, second, prog, mishaps>>

\* The image of the next run is extracted into the kit.
StartRun ==
    /\ pc = "done" /\ run < MaxRuns
    /\ \E v \in Versions : ver' = v /\ kit' = [kit EXCEPT !["raw"] = v]
    /\ run' = run + 1 /\ pc' = "generate" /\ Forget
    /\ UNCHANGED <<main, found, term, mishaps>>

Crash ==
    /\ pc # "done" /\ mishaps < MaxMishaps
    /\ pc' = "done" /\ mishaps' = mishaps + 1 /\ Forget
    /\ UNCHANGED <<setup, disk>>

Alter ==
    /\ pc # "done" /\ mishaps < MaxMishaps
    /\ \E f \in Files :
        \/ /\ kit[f] \notin {Gone(f), Altered(f)}
           /\ kit' = [kit EXCEPT ![f] = Altered(f)] /\ UNCHANGED term
        \/ /\ term[f] \notin {Gone(f), Altered(f)}
           /\ term' = [term EXCEPT ![f] = Altered(f)] /\ UNCHANGED kit
    /\ mishaps' = mishaps + 1
    /\ UNCHANGED <<setup, pass1, second, prog, pc>>

Init ==
    /\ main \in BOOLEAN /\ found \in [Versions -> Discoveries]
    /\ run = 1 /\ ver \in Versions
    /\ kit = [[f \in Files |-> Gone(f)] EXCEPT !["raw"] = ver]
    /\ term = [f \in Files |-> Gone(f)]
    /\ st = [m \in Manifests |-> Unmanaged] /\ ghidra = "none" /\ out = NoOutcome
    /\ ctx = None /\ snap = None /\ maps = [sym |-> None, globals |-> FALSE]
    /\ applied = NoScript /\ result = "none"
    /\ prog = [raw |-> 0, startup |-> <<>>]
    /\ pc = "generate" /\ mishaps = 0

Next ==
    \/ Generate \/ GenerateFails \/ Analyze
    \/ Marshal \/ MarshalFails \/ MakeContext \/ DiscoverStartup \/ StartupFails
    \/ BuildSnapshot \/ SnapshotFails \/ PlanMaps \/ Bind
    \/ Begin \/ BeginFails \/ Validate
    \/ \E s \in {"thumb", "symbols", "startup", "globals"} : Script(s)
    \/ RefuseStartup \/ Export \/ ChildFails \/ Accept \/ AcceptFails
    \/ Scrub \/ ScrubFails \/ Refresh
    \/ Finish \/ StartRun \/ Crash \/ Alter
    \/ pc = "done" /\ run = MaxRuns /\ UNCHANGED vars

Spec == Init /\ [][Next]_vars

(***************************************************************************)
(* Properties                                                              *)
(***************************************************************************)
Contents == {-1, 0} \cup Versions \cup 1 .. MaxRuns \cup {Second(n) : n \in 1 .. MaxRuns}
Disks == [Files \ Tuples -> Contents]
DiskOK(d) == /\ [f \in Files \ Tuples |-> d[f]] \in Disks
             /\ \A f \in Tuples : \/ d[f] \in {<<>>, <<-1>>}
                                 \/ Len(d[f]) = 4
StatesOf(m) == {Absent, Unmanaged} \cup {Present(v) : v \in Versions}

\* Every variable is of its kind: contents are versions or runs, the digest
\* of a symbol map names the run that wrote it.
TypeOK ==
    /\ main \in BOOLEAN /\ found \in [Versions -> SUBSET Manifests]
    /\ run \in 1 .. MaxRuns /\ ver \in Versions /\ mishaps \in 0 .. MaxMishaps
    /\ DiskOK(kit) /\ DiskOK(term)
    /\ \A m \in Manifests : st[m] \in StatesOf(m)
    /\ ghidra \in {"none", "analyzed", "failed", "opaque"}
    /\ DOMAIN out = DOMAIN NoOutcome
    /\ maps.sym # None => /\ maps.sym.map \in 1 .. MaxRuns
                         /\ maps.sym.functions \in Contents \ {0}
    /\ DOMAIN applied \subseteq {Scripts[i] : i \in 1 .. Len(Scripts)}
    /\ result \in {"none", "ok", "failed", "dirty"}

\* A symbolication context speaks of this run's files (decompose.rs
\* 792-933): each manifest that it has is the one that this run generated,
\* unless somebody altered it later, each that it says is absent is absent
\* in the image's directory, whatever an earlier run left there, and the
\* startup metadata bind the same raw image, scatter map and roots.
ContextIsThisRuns ==
    ctx # None =>
        /\ \A m \in {"scatter", "exc", "pal"} :
            CASE Found(m) = Absent -> ctx[m] = Absent /\ term[m] = 0
              [] IsPresent(Found(m)) -> ctx[m] = Found(m) /\ term[m] \in {ver, -1}
              [] OTHER -> ctx[m] = Unmanaged
        /\ ctx.raw \in {ver} \cup (IF \E m \in {"scatter", "exc", "pal"} :
                                      IsPresent(ctx[m]) THEN {} ELSE {-1})
        /\ IsPresent(ctx.startup) =>
               StartupFits(ctx.startup[2], ctx.raw, Digest(ctx.scatter), Digest(ctx.exc))
        /\ term["functions"] \in {run, Second(run), -1}

\* A manifest is only reported as published over the raw image and the
\* scatter map that it was derived from (decompose.rs 1264-1829): it is
\* never current while one of them is an earlier run's or missing.
ManifestsBindTerminalFiles ==
    pc # "done" =>
        \A m \in {"exc", "pal", "msg"} : out[m] = "current" =>
            /\ {term[m], term["raw"]} \subseteq {ver, -1}
            /\ BoundScatter(ver) # 0 => term["scatter"] \in {ver, -1}

\* What an accepted second pass applied is what the context bound
\* (terminal_pass2.rs, decompile.rs 3643-3993 and the scripts' preflights):
\* every script that was asked for read the files of this run, and two
\* scripts that read the same file read the same bytes, though they read it
\* at different times from a directory that others may write. The global
\* maps carry no digest and are left out.
AppliedIsBound ==
    result = "ok" =>
        /\ DOMAIN applied = {Scripts[i] : i \in {j \in 1 .. Len(Scripts) : Scheduled(Scripts[j])}}
        /\ \A s \in DOMAIN applied \ {"globals"} : \A f \in DOMAIN applied[s] :
            CASE f \in {"scatter", "exc", "pal"} -> applied[s][f] = ver
              [] f = "raw" -> applied[s][f] = ctx.raw
              [] f = "startup" -> applied[s][f] = ctx.startup[2]
              [] f = "map" -> applied[s][f] = run
              [] OTHER -> \A t \in {x \in DOMAIN applied : f \in DOMAIN applied[x]} :
                              applied[s][f] = applied[t][f]

\* "Drift blocks the process and leaves no old export current"
\* (README.md 415-417): a second pass that ends for any reason but a failed
\* removal leaves neither a marker nor an export in the kit, and the first
\* pass's inventory stays published; one that succeeds refused no script.
SecondPassIsAllOrNothing ==
    /\ result = "failed" => /\ kit["functions"] = 0 /\ kit["marker"] = <<>>
                           /\ term["functions"] \in {run, -1}
    /\ result = "ok" => \A s \in DOMAIN applied : applied[s] # Refused

\* The above over well-typed states.
SecondPassOK == TypeOK /\ SecondPassIsAllOrNothing
=============================================================================
