------------------------- MODULE PassTwoInputs_proofs -------------------------
(***************************************************************************)
(* Proofs about PassTwoInputs for every number of firmware versions, runs  *)
(* and mishaps: what is published, bound into the context, staged for the  *)
(* second pass and applied by its scripts is this run's.                   *)
(***************************************************************************)
EXTENDS PassTwoInputs, TLAPS

-----------------------------------------------------------------------------
(* The inductive invariant.                                                *)

\* The steps before there is a context, and the ones that publish.
Publishing == {"raw", "functions", "scatter", "exc", "pal", "msg"}
Early == {"generate", "ghidra", "context"} \cup Publishing
ScriptSet == {"thumb", "symbols", "startup", "globals", "export"}
\* The steps of a second pass that has a snapshot.
Running == {"bind", "begin", "validate", "accept", "refresh", "scrub"} \cup ScriptSet
Steps == Early \cup Running \cup {"discover", "snapshot", "maps", "finish", "done"}

States == {Absent, Unmanaged} \cup {Present(v) : v \in Versions}
Quads == Contents \X Contents \X Contents \X Contents
Contexts ==
    [kind : {"context"}, raw : Contents,
     scatter : {Absent, Unmanaged} \cup {Present(v) : v \in Contents},
     exc : States, pal : States,
     startup : {Absent, Unmanaged} \cup {Present(q) : q \in Quads}]
Plans == [kind : {"map"}, map : 1 .. MaxRuns, image : Contents,
          functions : Contents \ {0}]
Endings == {"pending", "current", "failed", "absent", "unmanaged", "blocked"}

Shaped(d) ==
    /\ DOMAIN d = Files
    /\ \A f \in Files \ Tuples : d[f] \in Contents
    /\ \A f \in Tuples : d[f] \in {<<>>, <<-1>>} \/ Len(d[f]) = 4

ShapeInv ==
    /\ main \in BOOLEAN /\ found \in [Versions -> SUBSET Manifests]
    /\ run \in 1 .. MaxRuns /\ ver \in Versions /\ mishaps \in 0 .. MaxMishaps
    /\ pc \in Steps
    /\ Shaped(kit) /\ Shaped(term)
    /\ st \in [Manifests -> States]
    /\ ghidra \in {"none", "analyzed", "failed", "opaque"}
    /\ out \in [Manifests \cup {"raw", "functions"} -> Endings]
    /\ ctx \in {None} \cup Contexts
    /\ maps \in [sym : {None} \cup Plans, globals : BOOLEAN]
    /\ result \in {"none", "ok", "failed", "dirty"}

\* What generation found is what the run knows of each manifest.
FoundInv ==
    pc \notin {"generate", "done"} => \A m \in Manifests : st[m] = Found(m)

\* What the kit holds where the driver moves it without another look.
KitInv ==
    /\ pc # "done" => kit["raw"] \in {ver, -1, 0}
    /\ pc \in {"ghidra", "raw", "functions", "scatter"} /\ IsPresent(Found("scatter"))
         => kit["scatter"] \in {ver, -1, 0}
    /\ pc \in {"raw", "functions"} /\ ExportCurrent => kit["functions"] \in {run, -1}
    /\ pc \in {"accept", "refresh"} => kit["functions"] \in {Second(run), -1}
    /\ result = "failed" => kit["functions"] = 0 /\ kit["marker"] = <<>>

\* The stages of the publication that have not run.
ToCome ==
    CASE pc \in {"generate", "ghidra", "raw"} -> Manifests \cup {"raw", "functions"}
      [] pc = "functions" -> Manifests \cup {"functions"}
      [] pc = "scatter" -> Manifests
      [] pc = "exc" -> {"exc", "pal", "msg"}
      [] pc = "pal" -> {"pal", "msg"}
      [] pc = "msg" -> {"msg"}
      [] OTHER -> {}

\* What each outcome of the publication says of the image's directory.
OutInv ==
    pc # "done" =>
        /\ \A f \in ToCome : out[f] = "pending"
        /\ out["raw"] = "current" => term["raw"] \in {ver, -1}
        /\ out["scatter"] = "current" => term["scatter"] \in {ver, -1}
        /\ pc \in Early /\ out["functions"] = "current" => term["functions"] \in {run, -1}
        /\ \A m \in {"scatter", "exc", "pal"} : out[m] = "absent" => term[m] = 0

CtxInv ==
    /\ pc \in Early => ctx = None
    /\ ctx # None /\ result # "ok" => term["functions"] \in {run, -1}
    /\ ctx # None /\ pc # "done" => out["raw"] = "current"

SnapInv ==
    /\ snap # None => snap = ctx
    /\ pc \in Early \cup {"discover", "snapshot"} => snap = None
    /\ pc \in Running \/ result # "none" => snap # None
    /\ pc \notin {"refresh", "finish", "done"} => result = "none"
    /\ pc = "refresh" => result = "ok"
    /\ maps.sym # None => maps.sym.map = run

Asked == {s \in ScriptSet : Scheduled(s)}
\* The scripts asked for that come before s.
Before(s) ==
    {t \in Asked : \E i, j \in 1 .. 5 : i < j /\ Scripts[i] = t /\ Scripts[j] = s}

\* A script that was let in read what it was promised; one that was not left
\* no trace in the program.
ReadsWell(s) ==
    /\ DOMAIN applied[s] = Reads(s)
    /\ \A f \in Reads(s) \ {"globals"} : applied[s][f] = Expected(f)

AppliedInv ==
    /\ "startup" \in DOMAIN prog
    /\ pc \in Early \cup {"discover", "snapshot", "maps", "bind", "begin", "validate"}
         \/ snap = None => applied = NoScript /\ prog.startup = <<>>
    /\ pc \in ScriptSet => Scheduled(pc) /\ DOMAIN applied = Before(pc)
    /\ pc \in {"accept", "refresh"} \/ result = "ok" => DOMAIN applied = Asked
    /\ applied = NoScript \/ DOMAIN applied \subseteq Asked
    /\ \A s \in DOMAIN applied :
         \/ s = "startup" /\ applied[s] = Refused /\ prog.startup = <<>>
         \/ ReadsWell(s)
    /\ "startup" \notin DOMAIN applied => prog.startup = <<>>
    /\ "export" \in DOMAIN applied /\ "startup" \in DOMAIN applied =>
         applied["startup"] # Refused

IInv == /\ ShapeInv /\ FoundInv /\ KitInv /\ OutInv /\ CtxInv /\ SnapInv
        /\ AppliedInv /\ ManifestsBindTerminalFiles /\ ContextIsThisRuns

-----------------------------------------------------------------------------
(* Constants, states and files.                                            *)

LEMMA Bounds ==
    /\ MaxMishaps \in Nat /\ MaxRuns \in 1 .. 9
    /\ \A v \in Versions : v \in Int /\ v > 0 /\ v < 10 /\ v \in Contents
    /\ \A n \in 1 .. MaxRuns :
         /\ n \in Int /\ n > 0 /\ n < 10 /\ n \in Contents
         /\ Second(n) \in Contents /\ Second(n) > 10
    /\ 0 \in Contents /\ -1 \in Contents
    /\ 0 \notin Versions /\ -1 \notin Versions
  <1>1. Versions \subseteq 1 .. 9 /\ MaxMishaps \in Nat /\ MaxRuns \in 1 .. 9
    BY InputsAssumption
  <1>2. \A n \in 1 .. MaxRuns : Second(n) \in Contents BY DEF Contents
  <1>3. \A n \in 1 .. MaxRuns : n \in 1 .. 9 BY <1>1
  <1>4. \A n \in 1 .. MaxRuns : n \in Contents BY DEF Contents
  <1>5. \A v \in Versions : v \in Contents BY DEF Contents
  <1>6. 0 \in Contents /\ -1 \in Contents BY DEF Contents
  <1> QED BY <1>1, <1>2, <1>3, <1>4, <1>5, <1>6 DEF Second

LEMMA TheFiles ==
    /\ Manifests \subseteq Files /\ Tuples \subseteq Files
    /\ \A m \in Manifests : m \notin Tuples
    /\ {"raw", "functions", "map", "globals"} \subseteq Files \ Tuples
    /\ Tuples = {"startup", "marker"}
  BY DEF Files, Manifests, Tuples

\* A manifest is present, absent or not managed, never two of these.
LEMMA TheStates ==
    /\ Absent # Unmanaged /\ ~IsPresent(Absent) /\ ~IsPresent(Unmanaged)
    /\ \A v : /\ IsPresent(Present(v)) /\ Present(v)[2] = v
              /\ Present(v) # Absent /\ Present(v) # Unmanaged
              /\ Digest(Present(v)) = v /\ TupleDigest(Present(v)) = v
    /\ Digest(Absent) = 0 /\ Digest(Unmanaged) = 0
    /\ TupleDigest(Absent) = <<>> /\ TupleDigest(Unmanaged) = <<>>
  <1>1. \A v : /\ Present(v)[1] = "present" /\ Present(v)[2] = v
               /\ Present(v) # Absent /\ Present(v) # Unmanaged
    BY DEF Present, Absent, Unmanaged
  <1>2. Absent[1] = "absent" /\ Unmanaged[1] = "unmanaged"
    BY DEF Absent, Unmanaged
  <1> QED BY <1>1, <1>2 DEF IsPresent, Digest, TupleDigest

LEMMA StateKinds ==
    /\ \A s \in States :
         /\ Digest(s) \in Contents
         /\ IsPresent(s) <=> s \notin {Absent, Unmanaged}
         /\ IsPresent(s) => s = Present(s[2]) /\ s[2] \in Versions /\ Digest(s) = s[2]
         /\ ~IsPresent(s) => Digest(s) = 0
    /\ \A v \in Versions : Present(v) \in States
    /\ Absent \in States /\ Unmanaged \in States
  BY TheStates, Bounds DEF States

LEMMA FoundState ==
    ASSUME ver \in Versions, NEW m
    PROVE  /\ Found(m) \in States
           /\ IsPresent(Found(m)) => Found(m) = Present(ver)
  BY TheStates, StateKinds DEF Found

LEMMA RuntimeState ==
    ASSUME ShapeInv, NEW m \in Manifests
    PROVE  /\ Runtime(m) \in States /\ ScatterState \in States
           /\ ScatterOf(m) \in States
           /\ IsPresent(Runtime(m)) => Runtime(m) = st[m]
  <1>1. \A x \in Manifests : st[x] \in States /\ Runtime(x) \in States
    BY StateKinds DEF ShapeInv, Runtime
  <1>2. "scatter" \in Manifests BY DEF Manifests
  <1>3. IsPresent(Runtime(m)) => Runtime(m) = st[m] BY TheStates DEF Runtime
  <1> QED BY <1>1, <1>2, <1>3 DEF ScatterState, ScatterOf

\* A file replaced.
LEMMA ShapedWith ==
    ASSUME NEW d, Shaped(d), NEW f \in Files, NEW v,
           IF f \in Tuples THEN v \in {<<>>, <<-1>>} \/ Len(v) = 4
           ELSE v \in Contents
    PROVE  Shaped([d EXCEPT ![f] = v])
  BY DEF Shaped

LEMMA Nothing ==
    /\ \A f \in Files : IF f \in Tuples THEN Gone(f) = <<>> /\ Altered(f) = <<-1>>
                        ELSE Gone(f) = 0 /\ Altered(f) = -1
    /\ \A f \in Files \ Tuples : Gone(f) \in Contents /\ Altered(f) \in Contents
  BY Bounds DEF Gone, Altered

LEMMA ScrubbedShape ==
    ASSUME Shaped(kit)
    PROVE  /\ Shaped(Scrubbed) /\ \A d \in Remains : Shaped(d)
           /\ Scrubbed["functions"] = 0 /\ Scrubbed["marker"] = <<>>
           /\ \A f \in Files \ {"functions", "marker"} :
                /\ Scrubbed[f] = kit[f]
                /\ \A d \in Remains : d[f] = kit[f]
  <1>1. /\ "functions" \in Files \ Tuples /\ "marker" \in Tuples
        /\ DOMAIN kit = Files /\ Tuples \subseteq Files /\ 0 \in Contents
    BY TheFiles, Bounds DEF Shaped
  <1>2. /\ DOMAIN Scrubbed = Files
        /\ Scrubbed["functions"] = 0 /\ Scrubbed["marker"] = <<>>
        /\ \A f \in Files \ {"functions", "marker"} : Scrubbed[f] = kit[f]
    BY <1>1 DEF Scrubbed
  <1>3. Shaped(Scrubbed) BY <1>1, <1>2 DEF Shaped
  <1>4. ASSUME NEW d \in Remains
        PROVE  /\ Shaped(d)
               /\ \A f \in Files \ {"functions", "marker"} : d[f] = kit[f]
    <2>1. CASE d = kit BY <2>1
    <2>2. CASE d = [Scrubbed EXCEPT !["functions"] = kit["functions"]]
      <3>1. kit["functions"] \in Contents BY <1>1 DEF Shaped
      <3>2. Shaped(d) BY <1>1, <1>3, <2>2, <3>1, ShapedWith
      <3> QED BY <1>1, <1>2, <2>2, <3>2
    <2>3. CASE d = [Scrubbed EXCEPT !["marker"] = kit["marker"]]
      <3>1. kit["marker"] \in {<<>>, <<-1>>} \/ Len(kit["marker"]) = 4
        BY <1>1 DEF Shaped
      <3>2. Shaped(d) BY <1>1, <1>3, <2>3, <3>1, ShapedWith
      <3> QED BY <1>1, <1>2, <2>3, <3>2
    <2> QED BY <2>1, <2>2, <2>3 DEF Remains
  <1> QED BY <1>2, <1>3, <1>4

-----------------------------------------------------------------------------
(* What the steps that rewrite several files do.                           *)

\* Generation writes the manifests it is asked for and nothing else.
LEMMA Generated ==
    ASSUME ShapeInv, NEW ms, ms \subseteq Manifests
    PROVE  /\ Shaped(AfterGeneration(ms))
           /\ \A f \in Files \ ms : AfterGeneration(ms)[f] = kit[f]
           /\ \A f \in ms : IsPresent(Found(f)) => AfterGeneration(ms)[f] = ver
  <1>1. /\ Shaped(kit) /\ ver \in Versions BY DEF ShapeInv
  <1>2. \A f \in ms : f \in Files /\ f \notin Tuples BY TheFiles
  <1>3. DOMAIN AfterGeneration(ms) = Files BY DEF AfterGeneration
  <1>4. \A f \in Files \ ms : AfterGeneration(ms)[f] = kit[f]
    BY DEF AfterGeneration
  <1>5. \A f \in ms : AfterGeneration(ms)[f] \in {kit[f], Digest(Found(f))}
    BY <1>2 DEF AfterGeneration
  <1>6. \A f \in ms : Digest(Found(f)) \in Contents
    <2> SUFFICES ASSUME NEW f \in ms PROVE Digest(Found(f)) \in Contents OBVIOUS
    <2>1. Found(f) \in States BY <1>1, FoundState
    <2> QED BY <2>1, StateKinds
  <1>7. Shaped(AfterGeneration(ms))
    <2> DEFINE g == AfterGeneration(ms)
    <2>1. \A f \in ms : g[f] \in {kit[f], Digest(Found(f))} BY <1>5
    <2>2. \A f \in Files \ ms : g[f] = kit[f] BY <1>4
    <2>3. DOMAIN g = Files BY <1>3
    <2> HIDE DEF g
    <2>4. ASSUME NEW f \in Files \ Tuples PROVE g[f] \in Contents
      <3>1. kit[f] \in Contents BY <1>1 DEF Shaped
      <3>2. CASE f \in ms BY <1>6, <2>1, <3>1, <3>2
      <3>3. CASE f \notin ms BY <2>2, <3>1, <3>3
      <3> QED BY <3>2, <3>3
    <2>5. ASSUME NEW f \in Tuples PROVE g[f] \in {<<>>, <<-1>>} \/ Len(g[f]) = 4
      <3>1. f \in Files /\ f \notin ms BY <1>2, TheFiles
      <3>2. g[f] = kit[f] BY <2>2, <3>1
      <3> QED BY <1>1, <3>2 DEF Shaped
    <2>6. Shaped(g) BY <2>3, <2>4, <2>5 DEF Shaped
    <2> QED BY <2>6 DEF g
  <1>8. ASSUME NEW f \in ms, IsPresent(Found(f)) PROVE AfterGeneration(ms)[f] = ver
    <2>1. Managed(f) BY <1>8, TheStates DEF Found
    <2>2. Found(f) = Present(ver) BY <1>1, <1>8, FoundState
    <2>3. Digest(Found(f)) = ver BY <2>2, TheStates
    <2>4. AfterGeneration(ms)[f] = Digest(Found(f))
      BY <1>2, <2>1 DEF AfterGeneration
    <2> QED BY <2>3, <2>4
  <1> QED BY <1>4, <1>7, <1>8

\* Staging copies leaves, or removes them, and touches nothing else.
LEMMA StagedShape ==
    ASSUME ShapeInv, NEW n \in 0 .. Len(Stages)
    PROVE  /\ Shaped(Staged(n))
           /\ \A f \in Files : Staged(n)[f] \in {kit[f], term[f], Gone(f)}
           /\ \A f \in {"functions", "marker", "map", "globals"} : Staged(n)[f] = kit[f]
  <1>1. Shaped(kit) /\ Shaped(term) BY DEF ShapeInv
  <1>2. \A f \in Files : Staged(n)[f] \in {kit[f], term[f], Gone(f)} BY DEF Staged
  <1>3. DOMAIN Staged(n) = Files BY DEF Staged
  <1>4. Shaped(Staged(n)) BY <1>1, <1>2, <1>3, Nothing, TheFiles DEF Shaped
  <1>5. \A i \in 1 .. n : Stages[i] \in {"raw", "scatter", "exc", "pal", "startup"}
    BY DEF Stages
  <1>6. \A f \in {"functions", "marker", "map", "globals"} : Staged(n)[f] = kit[f]
    BY <1>5 DEF Staged, Files
  <1> QED BY <1>2, <1>4, <1>6

\* A stage of the publication: file f ends as o.
MarshalOf(f, o) ==
    /\ pc = f /\ pc' = AfterMarshal[f] /\ mishaps' \in 0 .. MaxMishaps
    /\ out' = [out EXCEPT ![f] = o]
    /\ DOMAIN kit' = DOMAIN kit /\ DOMAIN term' = DOMAIN term
    /\ \A x \in Files \ {f} : kit'[x] = kit[x] /\ term'[x] = term[x]
    /\ kit'[f] \in {kit[f], 0} /\ term'[f] \in {term[f], 0, kit[f]}
    /\ o = "current" =>
         /\ term'[f] = kit[f]
         /\ f \in {"raw", "functions", "scatter"} => kit[f] # 0
         /\ f = "functions" => ExportCurrent
         /\ f = "scatter" => IsPresent(ScatterState)
         /\ f \in {"exc", "pal", "msg"} =>
              ~Blocked(f) /\ IsPresent(Runtime(f)) /\ FitsTerminal(f, ScatterOf(f))
    /\ o = "absent" => term'[f] = 0
    /\ UNCHANGED <<setup, st, ghidra, ctx, second, prog>>

LEMMA MarshalEffect ==
    ASSUME ShapeInv, Marshal \/ MarshalFails
    PROVE  \E f \in Publishing : \E o \in Endings \ {"pending"} : MarshalOf(f, o)
  <1>1. /\ DOMAIN kit = Files /\ DOMAIN term = Files
        /\ mishaps \in 0 .. MaxMishaps /\ MaxMishaps \in Nat
    BY Bounds DEF ShapeInv, Shaped
  <1>2. /\ Publishing \subseteq Files
        /\ {"current", "absent", "unmanaged", "failed", "blocked"}
             \subseteq Endings \ {"pending"}
    BY DEF Publishing, Files, Manifests, Endings
  <1>3. ASSUME NEW f \in Files, Move(f)
        PROVE  /\ DOMAIN kit' = DOMAIN kit /\ DOMAIN term' = DOMAIN term
               /\ \A x \in Files \ {f} : kit'[x] = kit[x] /\ term'[x] = term[x]
               /\ kit'[f] = 0 /\ term'[f] = kit[f]
               /\ out' = [out EXCEPT ![f] = "current"]
    BY <1>1, <1>3 DEF Move, Outcome
  <1>4. ASSUME NEW f \in Files, Clear(f)
        PROVE  /\ DOMAIN kit' = DOMAIN kit /\ DOMAIN term' = DOMAIN term
               /\ \A x \in Files \ {f} : kit'[x] = kit[x] /\ term'[x] = term[x]
               /\ kit'[f] \in {kit[f], 0} /\ term'[f] = 0
               /\ out' = [out EXCEPT ![f] = "absent"]
    <2>1. CASE f = "exc" BY <1>1, <1>4, <2>1 DEF Clear, Outcome
    <2>2. CASE f # "exc" BY <1>1, <1>4, <2>2 DEF Clear, Outcome
    <2> QED BY <2>1, <2>2
  <1>5. ASSUME NEW f \in Files, NEW o, Leave(f, o)
        PROVE  /\ kit' = kit /\ term' = term /\ out' = [out EXCEPT ![f] = o]
    BY <1>5 DEF Leave, Outcome, disk
  <1>6. \A m \in Manifests : /\ Runtime(m) \in States /\ ScatterState \in States
    BY RuntimeState
  <1>7. \A s \in States : s # Unmanaged /\ s # Absent => IsPresent(s)
    BY StateKinds
  <1>8. CASE Marshal
    <2>1. /\ UNCHANGED <<setup, st, ghidra, ctx, second, prog>>
          /\ mishaps' \in 0 .. MaxMishaps /\ pc' = AfterMarshal[pc]
      BY <1>1, <1>8 DEF Marshal
    <2>2. CASE MarshalRaw
      <3>1. pc = "raw" /\ "raw" \in Publishing BY <2>2 DEF MarshalRaw, Publishing
      <3>2. (Move("raw") /\ kit["raw"] # 0) \/ Leave("raw", "failed")
        BY <2>2, Zenon DEF MarshalRaw, Moved
      <3>3. CASE Move("raw") /\ kit["raw"] # 0
        <4>1. MarshalOf("raw", "current")
          BY <1>2, <1>3, <2>1, <3>1, <3>3 DEF MarshalOf
        <4> QED BY <1>2, <3>1, <4>1
      <3>4. CASE Leave("raw", "failed")
        <4>1. MarshalOf("raw", "failed")
          BY <1>2, <1>5, <2>1, <3>1, <3>4 DEF MarshalOf
        <4> QED BY <1>2, <3>1, <4>1
      <3> QED BY <3>2, <3>3, <3>4
    <2>3. CASE MarshalExport
      <3>1. pc = "functions" /\ "functions" \in Publishing
        BY <2>3 DEF MarshalExport, Publishing
      <3>2. \/ Move("functions") /\ kit["functions"] # 0 /\ ExportCurrent
            \/ \E o \in {"unmanaged", "failed"} : Leave("functions", o)
        BY <2>3, Zenon DEF MarshalExport, Moved
      <3>3. CASE Move("functions") /\ kit["functions"] # 0 /\ ExportCurrent
        <4>1. MarshalOf("functions", "current")
          BY <1>2, <1>3, <2>1, <3>1, <3>3 DEF MarshalOf
        <4> QED BY <1>2, <3>1, <4>1
      <3>4. ASSUME NEW o \in {"unmanaged", "failed"}, Leave("functions", o)
            PROVE  \E f \in Publishing : \E e \in Endings \ {"pending"} : MarshalOf(f, e)
        <4>1. MarshalOf("functions", o)
          BY <1>2, <1>5, <2>1, <3>1, <3>4 DEF MarshalOf
        <4> QED BY <1>2, <3>1, <4>1
      <3> QED BY <3>2, <3>3, <3>4
    <2>4. CASE MarshalScatter
      <3>1. pc = "scatter" /\ "scatter" \in Publishing /\ "scatter" \in Manifests
        BY <2>4 DEF MarshalScatter, Publishing, Manifests
      <3>2. \/ /\ Move("scatter") /\ kit["scatter"] # 0
               /\ ScatterState # Unmanaged /\ ScatterState # Absent
            \/ Clear("scatter")
            \/ \E o \in {"unmanaged", "failed"} : Leave("scatter", o)
        BY <2>4, Zenon DEF MarshalScatter, Moved
      <3>3. CASE /\ Move("scatter") /\ kit["scatter"] # 0
                 /\ ScatterState # Unmanaged /\ ScatterState # Absent
        <4>1. IsPresent(ScatterState) BY <1>6, <1>7, <3>1, <3>3
        <4>2. MarshalOf("scatter", "current")
          BY <1>2, <1>3, <2>1, <3>1, <3>3, <4>1 DEF MarshalOf
        <4> QED BY <1>2, <3>1, <4>2
      <3>4. CASE Clear("scatter")
        <4>1. MarshalOf("scatter", "absent")
          BY <1>2, <1>4, <2>1, <3>1, <3>4 DEF MarshalOf
        <4> QED BY <1>2, <3>1, <4>1
      <3>5. ASSUME NEW o \in {"unmanaged", "failed"}, Leave("scatter", o)
            PROVE  \E f \in Publishing : \E e \in Endings \ {"pending"} : MarshalOf(f, e)
        <4>1. MarshalOf("scatter", o)
          BY <1>2, <1>5, <2>1, <3>1, <3>5 DEF MarshalOf
        <4> QED BY <1>2, <3>1, <4>1
      <3> QED BY <3>2, <3>3, <3>4, <3>5
    <2>5. ASSUME NEW m \in {"exc", "pal", "msg"}, MarshalManifest(m)
          PROVE  \E f \in Publishing : \E o \in Endings \ {"pending"} : MarshalOf(f, o)
      <3>1. pc = m /\ m \in Publishing /\ m \in Manifests
        BY <2>5 DEF MarshalManifest, Publishing, Manifests
      <3> DEFINE Copy == /\ term' = [term EXCEPT ![m] = kit[m]] /\ UNCHANGED kit
                         /\ Outcome(m, "current")
                 Good == /\ ~Blocked(m) /\ Runtime(m) # Unmanaged
                         /\ Runtime(m) # Absent /\ FitsTerminal(m, ScatterOf(m))
      <3>2. \/ Copy /\ Good
            \/ Clear(m)
            \/ \E o \in {"unmanaged", "failed", "blocked"} : Leave(m, o)
        BY <2>5, Zenon DEF MarshalManifest
      <3>3. CASE Copy /\ Good
        <4>1. IsPresent(Runtime(m)) BY <1>6, <1>7, <3>1, <3>3
        <4>2. /\ DOMAIN kit' = DOMAIN kit /\ DOMAIN term' = DOMAIN term
              /\ \A x \in Files \ {m} : kit'[x] = kit[x] /\ term'[x] = term[x]
              /\ kit'[m] = kit[m] /\ term'[m] = kit[m]
              /\ out' = [out EXCEPT ![m] = "current"]
          BY <1>1, <1>2, <3>1, <3>3 DEF Outcome
        <4>3. ~Blocked(m) /\ FitsTerminal(m, ScatterOf(m)) BY <3>3
        <4>4. MarshalOf(m, "current")
          BY <2>1, <3>1, <4>1, <4>2, <4>3 DEF MarshalOf
        <4> QED BY <1>2, <3>1, <4>4
      <3>4. CASE Clear(m)
        <4>1. MarshalOf(m, "absent")
          BY <1>2, <1>4, <2>1, <3>1, <3>4 DEF MarshalOf
        <4> QED BY <1>2, <3>1, <4>1
      <3>5. ASSUME NEW o \in {"unmanaged", "failed", "blocked"}, Leave(m, o)
            PROVE  \E f \in Publishing : \E e \in Endings \ {"pending"} : MarshalOf(f, e)
        <4>1. MarshalOf(m, o) BY <1>2, <1>5, <2>1, <3>1, <3>5 DEF MarshalOf
        <4> QED BY <1>2, <3>1, <4>1
      <3> QED BY <3>2, <3>3, <3>4, <3>5
    <2> QED BY <1>8, <2>2, <2>3, <2>4, <2>5 DEF Marshal
  <1>9. CASE MarshalFails
    <2>1. /\ UNCHANGED <<setup, st, ghidra, ctx, second, prog, kit>>
          /\ pc' = AfterMarshal[pc] /\ out' = [out EXCEPT ![pc] = "failed"]
      BY <1>9 DEF MarshalFails, Outcome
    <2>2. mishaps' \in 0 .. MaxMishaps BY <1>1, <1>9 DEF MarshalFails
    <2>3. pc \in Publishing BY <1>9 DEF MarshalFails, AfterMarshal, Publishing
    <2>4. term' = term \/ (pc = "scatter" /\ term' = [term EXCEPT !["scatter"] = 0])
      BY <1>9 DEF MarshalFails
    <2>5. /\ DOMAIN term' = DOMAIN term
          /\ \A x \in Files \ {pc} : term'[x] = term[x]
          /\ term'[pc] \in {term[pc], 0}
      BY <1>1, <1>2, <2>3, <2>4
    <2>6. MarshalOf(pc, "failed") BY <2>1, <2>2, <2>5 DEF MarshalOf
    <2> QED BY <1>2, <2>3, <2>6
  <1> QED BY <1>8, <1>9

-----------------------------------------------------------------------------
(* The queue of the scripts.                                               *)

LEMMA TheScripts ==
    /\ Len(Scripts) = 5
    /\ Scripts[1] = "thumb" /\ Scripts[2] = "symbols" /\ Scripts[3] = "startup"
    /\ Scripts[4] = "globals" /\ Scripts[5] = "export"
    /\ \A i \in 1 .. 5 : Scripts[i] \in ScriptSet
    /\ \A s \in ScriptSet : \E i \in 1 .. 5 : Scripts[i] = s
    /\ \A i, j \in 1 .. 5 : Scripts[i] = Scripts[j] => i = j
  <1>1. /\ Len(Scripts) = 5
        /\ Scripts[1] = "thumb" /\ Scripts[2] = "symbols" /\ Scripts[3] = "startup"
        /\ Scripts[4] = "globals" /\ Scripts[5] = "export"
    BY DEF Scripts
  <1>2. \A i \in 1 .. 5 : i = 1 \/ i = 2 \/ i = 3 \/ i = 4 \/ i = 5 OBVIOUS
  <1>3. \A i \in 1 .. 5 : Scripts[i] \in ScriptSet BY <1>1, <1>2 DEF ScriptSet
  <1>4. \A s \in ScriptSet : \E i \in 1 .. 5 : Scripts[i] = s BY <1>1 DEF ScriptSet
  <1>5. \A i, j \in 1 .. 5 : Scripts[i] = Scripts[j] => i = j BY <1>1, <1>2
  <1> QED BY <1>1, <1>3, <1>4, <1>5

\* The export is always asked for, so every suffix of the list has a first
\* script that is.
LEMMA QueuedFirst ==
    ASSUME NEW k \in 1 .. 5
    PROVE  \E j \in k .. 5 : /\ Queued(k) = Scripts[j] /\ Scheduled(Scripts[j])
                             /\ \A i \in k .. j - 1 : ~Scheduled(Scripts[i])
  <1> DEFINE P(j) == Scheduled(Scripts[j])
             First(j) == P(j) /\ \A i \in k .. j - 1 : ~P(i)
  <1>1. P(5) BY TheScripts DEF Scheduled
  <1> HIDE DEF P
  <1>2. \E j \in k .. 5 : First(j)
    <2>1. CASE P(k) BY <2>1
    <2>2. CASE ~P(k) /\ k + 1 \in 1 .. 5 /\ P(k + 1)
      <3>1. First(k + 1) BY <2>2
      <3> QED BY <2>2, <3>1
    <2>3. CASE ~P(k) /\ ~P(k + 1) /\ k + 2 \in 1 .. 5 /\ P(k + 2)
      <3>1. \A i \in k .. k + 1 : i = k \/ i = k + 1 OBVIOUS
      <3>2. First(k + 2) BY <2>3, <3>1
      <3> QED BY <2>3, <3>2
    <2>4. CASE ~P(k) /\ ~P(k + 1) /\ ~P(k + 2) /\ k + 3 \in 1 .. 5 /\ P(k + 3)
      <3>1. \A i \in k .. k + 2 : i = k \/ i = k + 1 \/ i = k + 2 OBVIOUS
      <3>2. First(k + 3) BY <2>4, <3>1
      <3> QED BY <2>4, <3>2
    <2>5. CASE ~P(k) /\ ~P(k + 1) /\ ~P(k + 2) /\ ~P(k + 3) /\ k + 4 \in 1 .. 5
      <3>1. k = 1 BY <2>5
      <3>2. \A i \in 1 .. 4 : i = 1 \/ i = 2 \/ i = 3 \/ i = 4 OBVIOUS
      <3>3. First(5) BY <1>1, <2>5, <3>1, <3>2
      <3> QED BY <3>1, <3>3
    <2>6. k = 1 \/ k = 2 \/ k = 3 \/ k = 4 \/ k = 5 OBVIOUS
    <2> QED BY <1>1, <2>1, <2>2, <2>3, <2>4, <2>5, <2>6
  <1> DEFINE j == CHOOSE j \in k .. 5 : First(j)
  <1>3. j \in k .. 5 /\ First(j) BY <1>2
  <1>4. Queued(k) = Scripts[j] BY TheScripts DEF Queued, P
  <1> HIDE DEF j
  <1>5. Queued(k) = Scripts[j] /\ Scheduled(Scripts[j])
        /\ \A i \in k .. j - 1 : ~Scheduled(Scripts[i])
    BY <1>3, <1>4 DEF P
  <1> QED BY <1>3, <1>5

LEMMA QueueStart ==
    /\ Queued(1) \in ScriptSet /\ Scheduled(Queued(1)) /\ Before(Queued(1)) = {}
  <1>1. PICK j \in 1 .. 5 : /\ Queued(1) = Scripts[j] /\ Scheduled(Scripts[j])
                            /\ \A i \in 1 .. j - 1 : ~Scheduled(Scripts[i])
    BY QueuedFirst
  <1>2. ASSUME NEW t \in Before(Queued(1)) PROVE FALSE
    <2>1. PICK i \in 1 .. 5 : \E m \in 1 .. 5 : i < m /\ Scripts[i] = t /\ Scripts[m] = Scripts[j]
      BY <1>1, <1>2 DEF Before
    <2>2. i < j BY <2>1, TheScripts
    <2>3. i \in 1 .. j - 1 BY <2>2
    <2>4. ~Scheduled(t) BY <1>1, <2>1, <2>3
    <2> QED BY <1>2, <2>4 DEF Before, Asked
  <1> QED BY <1>1, <1>2, TheScripts

LEMMA QueueNext ==
    ASSUME NEW s \in ScriptSet \ {"export"}
    PROVE  /\ After(s) \in ScriptSet /\ Scheduled(After(s))
           /\ Scheduled(s) => Before(After(s)) = Before(s) \cup {s}
  <1>1. PICK n \in 1 .. 5 : Scripts[n] = s BY TheScripts
  <1>2. n # 5 /\ n \in 1 .. 4 /\ n + 1 \in 1 .. 5 BY <1>1, TheScripts
  <1>3. (CHOOSE i \in 1 .. Len(Scripts) : Scripts[i] = s) = n
    BY <1>1, TheScripts
  <1>4. After(s) = Queued(n + 1)
    <2> DEFINE c == CHOOSE i \in 1 .. Len(Scripts) : Scripts[i] = s
    <2>1. After(s) = Queued(1 + c) BY Zenon DEF After
    <2>2. 1 + c = n + 1
      <3>1. c = n BY <1>3
      <3> HIDE DEF c
      <3> QED BY <3>1
    <2> HIDE DEF c
    <2> QED BY <2>1, <2>2
  <1>5. PICK j \in n + 1 .. 5 : /\ Queued(n + 1) = Scripts[j] /\ Scheduled(Scripts[j])
                                /\ \A i \in n + 1 .. j - 1 : ~Scheduled(Scripts[i])
    BY <1>2, QueuedFirst
  <1>6. j \in 1 .. 5 /\ n < j BY <1>2
  <1>7. Scheduled(s) => s \in Asked BY DEF Asked
  <1>8. ASSUME NEW t \in Before(Scripts[j]) PROVE t \in Before(s) \cup {s}
    <2>1. PICK i \in 1 .. 5 : \E m \in 1 .. 5 : i < m /\ Scripts[i] = t /\ Scripts[m] = Scripts[j]
      BY <1>8 DEF Before
    <2>2. t \in Asked /\ Scheduled(t) BY <1>8 DEF Before, Asked
    <2>3. i < j BY <1>6, <2>1, TheScripts
    <2>4. i \notin n + 1 .. j - 1 BY <1>5, <2>1, <2>2
    <2>5. i < n \/ i = n BY <2>3, <2>4, <1>2
    <2>6. CASE i = n BY <1>1, <2>1, <2>6
    <2>7. CASE i < n BY <1>1, <2>1, <2>2, <2>7 DEF Before
    <2> QED BY <2>5, <2>6, <2>7
  <1>9. ASSUME Scheduled(s), NEW t \in Before(s) \cup {s} PROVE t \in Before(Scripts[j])
    <2>1. CASE t = s BY <1>1, <1>6, <1>7, <1>9, <2>1 DEF Before
    <2>2. CASE t \in Before(s)
      <3>1. PICK i \in 1 .. 5 : \E m \in 1 .. 5 : i < m /\ Scripts[i] = t /\ Scripts[m] = s
        BY <2>2 DEF Before
      <3>2. i < n BY <1>1, <3>1, TheScripts
      <3>3. i < j BY <1>6, <3>2
      <3>4. t \in Asked BY <2>2 DEF Before
      <3> QED BY <1>6, <3>1, <3>3, <3>4 DEF Before
    <2> QED BY <1>9, <2>1, <2>2
  <1> QED BY <1>4, <1>5, <1>6, <1>8, <1>9, TheScripts

LEMMA QueueEnd == Before("export") \cup {"export"} = Asked
  <1>1. "export" \in Asked BY DEF Asked, ScriptSet, Scheduled
  <1>2. Before("export") \subseteq Asked BY DEF Before
  <1>3. ASSUME NEW t \in Asked, t # "export" PROVE t \in Before("export")
    <2>1. PICK i \in 1 .. 5 : Scripts[i] = t BY <1>3, TheScripts DEF Asked
    <2>2. i < 5 BY <1>3, <2>1, TheScripts
    <2> QED BY <1>3, <2>1, <2>2, TheScripts DEF Before
  <1> QED BY <1>1, <1>2, <1>3

\* A script does not come before itself.
LEMMA BeforeFacts == \A s \in ScriptSet : s \notin Before(s)
  BY TheScripts DEF Before

-----------------------------------------------------------------------------
(* Every variable stays of its kind.                                       *)

LEMMA ShapeStart == Init => ShapeInv
  <1> SUFFICES ASSUME Init PROVE ShapeInv OBVIOUS
  <1>1. /\ main \in BOOLEAN /\ found \in [Versions -> Discoveries]
        /\ run = 1 /\ ver \in Versions /\ mishaps = 0 /\ pc = "generate"
        /\ st = [m \in Manifests |-> Unmanaged] /\ ghidra = "none"
        /\ out = NoOutcome /\ ctx = None /\ result = "none"
        /\ maps = [sym |-> None, globals |-> FALSE]
        /\ kit = [[f \in Files |-> Gone(f)] EXCEPT !["raw"] = ver]
        /\ term = [f \in Files |-> Gone(f)]
    BY DEF Init
  <1>2. found \in [Versions -> SUBSET Manifests] BY <1>1, InputsAssumption
  <1>3. run \in 1 .. MaxRuns /\ mishaps \in 0 .. MaxMishaps BY <1>1, Bounds
  <1>4. Shaped(term) BY <1>1, Nothing, TheFiles DEF Shaped
  <1>5. "raw" \in Files \ Tuples /\ ver \in Contents BY <1>1, TheFiles, Bounds
  <1>6. Shaped(kit)
    <2>1. kit = [term EXCEPT !["raw"] = ver] BY <1>1
    <2> QED BY <1>4, <1>5, <2>1, ShapedWith
  <1>7. st \in [Manifests -> States] BY <1>1, StateKinds
  <1>8. out \in [Manifests \cup {"raw", "functions"} -> Endings]
    BY <1>1 DEF NoOutcome, Endings
  <1>9. pc \in Steps BY <1>1 DEF Steps, Early
  <1> QED BY <1>1, <1>2, <1>3, <1>4, <1>6, <1>7, <1>8, <1>9 DEF ShapeInv

LEMMA ShapeStep == ShapeInv /\ [Next]_vars => ShapeInv'
  <1> SUFFICES ASSUME ShapeInv, [Next]_vars PROVE ShapeInv'
    OBVIOUS
  <1> USE DEF setup, disk, pass1, second
  <1>0. /\ main \in BOOLEAN /\ found \in [Versions -> SUBSET Manifests]
        /\ run \in 1 .. MaxRuns /\ ver \in Versions /\ mishaps \in 0 .. MaxMishaps
        /\ pc \in Steps /\ Shaped(kit) /\ Shaped(term)
        /\ st \in [Manifests -> States]
        /\ ghidra \in {"none", "analyzed", "failed", "opaque"}
        /\ out \in [Manifests \cup {"raw", "functions"} -> Endings]
        /\ ctx \in {None} \cup Contexts
        /\ maps \in [sym : {None} \cup Plans, globals : BOOLEAN]
        /\ result \in {"none", "ok", "failed", "dirty"}
    BY DEF ShapeInv
  <1>1. /\ MaxMishaps \in Nat /\ MaxRuns \in 1 .. 9
        /\ ver \in Contents /\ run \in Contents /\ Second(run) \in Contents
        /\ 0 \in Contents /\ -1 \in Contents
    BY <1>0, Bounds
  <1>2. mishaps < MaxMishaps => mishaps + 1 \in 0 .. MaxMishaps BY <1>0, <1>1
  <1>3. {"scatter", "exc", "pal", "msg", "raw", "functions", "map", "globals"}
          \subseteq Files \ Tuples /\ {"startup", "marker"} \subseteq Tuples
        /\ Tuples \subseteq Files
    BY DEF Files, Tuples, Manifests
  <1>4. Steps = Steps /\ {"generate", "ghidra", "context", "raw", "functions", "scatter",
          "exc", "pal", "msg", "discover", "snapshot", "maps", "bind", "begin",
          "validate", "accept", "refresh", "scrub", "finish", "done", "thumb",
          "symbols", "startup", "globals", "export"} \subseteq Steps
    BY DEF Steps, Early, Running, ScriptSet, Publishing
  <1>5. \A m \in Manifests : Found(m) \in States BY <1>0, FoundState
  <1>6. CASE Generate
    <2>1. Shaped(AfterGeneration(Manifests)) BY Generated
    <2>2. [m \in Manifests |-> Found(m)] \in [Manifests -> States] BY <1>5
    <2> QED BY <1>0, <1>4, <1>6, <2>1, <2>2 DEF Generate, ShapeInv
  <1>7. CASE GenerateFails
    <2>1. PICK i \in 1 .. 4 :
            LET before == AfterGeneration({Order[j] : j \in 1 .. i - 1})
            IN  kit' \in {before} \cup
                  (IF Order[i] = "scatter" THEN {[before EXCEPT !["scatter"] = 0]} ELSE {})
      BY <1>7 DEF GenerateFails
    <2> DEFINE ms == {Order[j] : j \in 1 .. i - 1}
    <2>2. ms \subseteq Manifests BY <2>1 DEF Order, Manifests
    <2>3. Shaped(AfterGeneration(ms)) BY <2>2, Generated
    <2>4. Shaped([AfterGeneration(ms) EXCEPT !["scatter"] = 0])
      BY <1>1, <1>3, <2>3, ShapedWith
    <2>5. Shaped(kit') BY <2>1, <2>3, <2>4
    <2> QED BY <1>0, <1>2, <1>4, <1>7, <2>5 DEF GenerateFails, ShapeInv
  <1>8. CASE Analyze
    <2>1. Shaped(Scrubbed) BY <1>0, ScrubbedShape
    <2>2. Shaped([Scrubbed EXCEPT !["startup"] = <<>>]) BY <1>3, <2>1, ShapedWith
    <2>3. ASSUME NEW startup \in {<<ver, Digest(st["scatter"]), Digest(st["exc"]), run>>,
                                  kit["startup"]},
                 kit' = [kit EXCEPT !["functions"] = run, !["startup"] = startup,
                                    !["marker"] = <<Digest(st["exc"]),
                                                    Digest(st["pal"]), <<>>, 0>>]
          PROVE  Shaped(kit')
      <3> DEFINE k1 == [kit EXCEPT !["functions"] = run]
                 k2 == [k1 EXCEPT !["startup"] = startup]
                 k3 == [k2 EXCEPT !["marker"] = <<Digest(st["exc"]),
                                                  Digest(st["pal"]), <<>>, 0>>]
      <3>1. Shaped(k1) BY <1>0, <1>1, <1>3, ShapedWith
      <3>2. startup \in {<<>>, <<-1>>} \/ Len(startup) = 4
        BY <1>0, <1>3, <2>3 DEF Shaped
      <3>3. Shaped(k2)
        <4> HIDE DEF k1
        <4> QED BY <1>3, <3>1, <3>2, ShapedWith
      <3>4. Shaped(k3)
        <4> HIDE DEF k2
        <4>1. Len(<<Digest(st["exc"]), Digest(st["pal"]), <<>>, 0>>) = 4 OBVIOUS
        <4> QED BY <1>3, <3>3, <4>1, ShapedWith
      <3>5. kit' = k3 BY <2>3
      <3> QED BY <3>4, <3>5
    <2>4. Shaped(kit') /\ ghidra' \in {"analyzed", "failed", "opaque"}
      BY <1>8, <2>1, <2>2, <2>3, Zenon DEF Analyze
    <2>5. /\ UNCHANGED <<main, found, run, ver, term, st, out, ctx, maps, result, mishaps>>
          /\ pc' = "raw"
      BY <1>8 DEF Analyze
    <2> QED BY <1>0, <1>4, <2>4, <2>5 DEF ShapeInv
  <1>9. CASE Marshal \/ MarshalFails
    <2>1. PICK f \in Publishing : \E o \in Endings \ {"pending"} : MarshalOf(f, o)
      BY <1>9, MarshalEffect
    <2>2. PICK o \in Endings \ {"pending"} : MarshalOf(f, o) BY <2>1
    <2>3. f \in Files \ Tuples /\ f \in Manifests \cup {"raw", "functions"}
      BY DEF Publishing, Files, Tuples, Manifests
    <2>4. /\ \A x \in Files \ {f} : kit'[x] = kit[x] /\ term'[x] = term[x]
          /\ kit'[f] \in {kit[f], 0} /\ term'[f] \in {term[f], 0, kit[f]}
          /\ DOMAIN kit' = DOMAIN kit /\ DOMAIN term' = DOMAIN term
      BY <2>2 DEF MarshalOf
    <2>5. kit[f] \in Contents /\ term[f] \in Contents BY <1>0, <2>3 DEF Shaped
    <2>6. Shaped(kit') BY <1>0, <1>1, <1>3, <2>3, <2>4, <2>5 DEF Shaped
    <2>7. Shaped(term') BY <1>0, <1>1, <1>3, <2>3, <2>4, <2>5 DEF Shaped
    <2>8. pc' \in Steps
      <3>1. pc' = AfterMarshal[f] BY <2>2 DEF MarshalOf
      <3> QED BY <1>4, <3>1 DEF AfterMarshal, Publishing
    <2>9. /\ UNCHANGED <<main, found, run, ver, st, ghidra, ctx, maps, result>>
          /\ mishaps' \in 0 .. MaxMishaps /\ out' = [out EXCEPT ![f] = o]
      BY <2>2 DEF MarshalOf
    <2>10. out' \in [Manifests \cup {"raw", "functions"} -> Endings]
      BY <1>0, <2>3, <2>9
    <2> QED BY <1>0, <2>6, <2>7, <2>8, <2>9, <2>10 DEF ShapeInv
  <1>10. CASE MakeContext
    <2>1. "scatter" \in Manifests /\ "exc" \in Manifests /\ "pal" \in Manifests
      BY DEF Manifests
    <2>2. term["raw"] \in Contents /\ term["scatter"] \in Contents
      BY <1>0, <1>3 DEF Shaped
    <2>3. /\ ScatterState \in States /\ Runtime("pal") \in States
          /\ st["exc"] \in States
      BY <1>0, <2>1, RuntimeState
    <2>4. \A s \in States : s \in {Absent, Unmanaged} \cup {Present(v) : v \in Contents}
      BY Bounds DEF States
    <2> DEFINE sc == IF IsPresent(ScatterState) THEN Present(term["scatter"])
                     ELSE ScatterState
    <2>5. sc \in {Absent, Unmanaged} \cup {Present(v) : v \in Contents}
      BY <2>2, <2>3, <2>4
    <2>6. [kind |-> "context", raw |-> term["raw"], scatter |-> sc, exc |-> st["exc"],
           pal |-> Runtime("pal"), startup |-> Unmanaged] \in Contexts
      <3> HIDE DEF sc
      <3> QED BY <2>2, <2>3, <2>5 DEF Contexts
    <2>7. ctx' \in {None} \cup Contexts BY <1>10, <2>6 DEF MakeContext
    <2>8. /\ UNCHANGED <<main, found, run, ver, kit, term, st, ghidra, out, maps,
                        result, mishaps>>
          /\ pc' = "discover"
      BY <1>10 DEF MakeContext
    <2> QED BY <1>0, <1>4, <2>7, <2>8 DEF ShapeInv
  <1>11. Published \in Quads /\ Shaped([term EXCEPT !["startup"] = Published])
    <2>1. CtxState("scatter") \in {Absent, Unmanaged} \cup {Present(v) : v \in Contents}
      BY <1>0 DEF CtxState, Contexts
    <2>2. Digest(CtxState("scatter")) \in Contents BY <1>1, <2>1, TheStates
    <2>3. CtxState("exc") \in States BY <1>0, StateKinds DEF CtxState, Contexts
    <2>4. Digest(CtxState("exc")) \in Contents BY <2>3, StateKinds
    <2>5. term["raw"] \in Contents /\ term["functions"] \in Contents
      BY <1>0, <1>3 DEF Shaped
    <2>6. Published \in Quads BY <2>2, <2>4, <2>5 DEF Published, Quads
    <2>7. Len(Published) = 4 BY DEF Published
    <2> QED BY <1>0, <1>3, <2>6, <2>7, ShapedWith
  <1>12. CASE DiscoverStartup
    <2>1. /\ \A x \in {Absent, Present(Published)} :
                ctx # None => [ctx EXCEPT !.startup = x] \in Contexts
      BY <1>0, <1>11 DEF Contexts
    <2>2. Shaped([term EXCEPT !["startup"] = <<>>]) BY <1>0, <1>3, ShapedWith
    <2>3. /\ term' \in {term, [term EXCEPT !["startup"] = <<>>],
                        [term EXCEPT !["startup"] = Published]}
          /\ ctx' \in {ctx, None, [ctx EXCEPT !.startup = Absent],
                       [ctx EXCEPT !.startup = Present(Published)]}
          /\ ctx = None => ctx' = None
      BY <1>12 DEF DiscoverStartup
    <2>4. Shaped(term') BY <1>0, <1>11, <2>2, <2>3
    <2>5. ctx' \in {None} \cup Contexts BY <1>0, <2>1, <2>3
    <2>6. /\ UNCHANGED <<main, found, run, ver, kit, st, ghidra, out, maps, result,
                        mishaps>>
          /\ pc' = "snapshot"
      BY <1>12 DEF DiscoverStartup
    <2> QED BY <1>0, <1>4, <2>4, <2>5, <2>6 DEF ShapeInv
  <1>13. CASE StartupFails
    <2>1. Shaped(term') BY <1>0, <1>11, <1>13 DEF StartupFails
    <2> QED BY <1>0, <1>2, <1>4, <1>13, <2>1 DEF StartupFails, ShapeInv
  <1>14. CASE BuildSnapshot \/ SnapshotFails
    <2>1. \A n \in FittingStages : Shaped(Staged(n))
      BY StagedShape DEF FittingStages
    <2>2. Shaped(kit') BY <1>0, <1>14, <2>1 DEF BuildSnapshot, SnapshotFails
    <2>3. /\ UNCHANGED <<main, found, run, ver, term, st, ghidra, out, ctx, maps, result>>
          /\ pc' = "maps" /\ mishaps' \in 0 .. MaxMishaps
      BY <1>0, <1>2, <1>14 DEF BuildSnapshot, SnapshotFails
    <2> QED BY <1>0, <1>4, <2>2, <2>3 DEF ShapeInv
  <1>15. CASE PlanMaps
    <2>1. term["raw"] \in Contents /\ term["functions"] \in Contents
      BY <1>0, <1>3 DEF Shaped
    <2>2. term["functions"] # 0 => SymbolPlan \in Plans
      BY <1>0, <2>1 DEF SymbolPlan, Plans
    <2>3. \/ UNCHANGED <<kit, term, maps>>
          \/ \E sym \in {None} \cup Plans, globals \in BOOLEAN :
               /\ maps' = [sym |-> sym, globals |-> globals]
               /\ kit' \in {kit, [kit EXCEPT !["map"] = run]}
               /\ term' \in {term, [term EXCEPT !["globals"] = run]}
      <3>1. CASE snap = None BY <1>15, <3>1 DEF PlanMaps
      <3>2. CASE snap # None BY <1>15, <2>2, <3>2 DEF PlanMaps
      <3> QED BY <3>1, <3>2
    <2>4. Shaped([kit EXCEPT !["map"] = run]) /\ Shaped([term EXCEPT !["globals"] = run])
      BY <1>0, <1>1, <1>3, ShapedWith
    <2>5. Shaped(kit') /\ Shaped(term') /\ maps' \in [sym : {None} \cup Plans, globals : BOOLEAN]
      BY <1>0, <2>3, <2>4
    <2>6. /\ UNCHANGED <<main, found, run, ver, st, ghidra, out, ctx, result, mishaps>>
          /\ pc' \in {"finish", "bind"}
      BY <1>15 DEF PlanMaps
    <2> QED BY <1>0, <1>4, <2>5, <2>6 DEF ShapeInv
  <1>16. CASE Bind
    <2>1. /\ maps' \in {[maps EXCEPT !.sym = maps.sym], [maps EXCEPT !.sym = None]}
          /\ pc' \in {"begin", "finish"}
          /\ UNCHANGED <<main, found, run, ver, kit, term, st, ghidra, out, ctx, result,
                        mishaps>>
      BY <1>16 DEF Bind
    <2>2. maps' \in [sym : {None} \cup Plans, globals : BOOLEAN] BY <1>0, <2>1
    <2> QED BY <1>0, <1>4, <2>1, <2>2 DEF ShapeInv
  <1>17. CASE Begin \/ BeginFails \/ Scrub \/ ScrubFails
    <2>1. kit' \in Remains \cup {Scrubbed}
      BY <1>17 DEF Begin, BeginFails, Scrub, ScrubFails
    <2>2. Shaped(kit') BY <1>0, <2>1, ScrubbedShape
    <2>3. /\ UNCHANGED <<main, found, run, ver, term, st, ghidra, out, ctx, maps>>
          /\ pc' \in {"validate", "finish"} /\ result' \in {result, "dirty", "failed"}
          /\ mishaps' \in 0 .. MaxMishaps
      BY <1>0, <1>2, <1>17 DEF Begin, BeginFails, Scrub, ScrubFails
    <2> QED BY <1>0, <1>4, <2>2, <2>3 DEF ShapeInv
  <1>18. Queued(1) \in Steps /\ \A s \in ScriptSet : After(s) \in Steps
    <2>1. \A s \in ScriptSet : s \in Steps BY DEF Steps, Running
    <2>2. \A s \in ScriptSet \ {"export"} : After(s) \in ScriptSet
      BY QueueNext
    <2>3. After("export") = "accept" BY DEF After
    <2> QED BY <1>4, <2>1, <2>2, <2>3, QueueStart
  <1>19. CASE Validate
    <2>1. pc' \in {"scrub", Queued(1)} BY <1>19 DEF Validate
    <2>2. pc' \in Steps BY <1>4, <1>18, <2>1
    <2> QED BY <1>0, <1>19, <2>2 DEF Validate, ShapeInv
  <1>20. ASSUME NEW s \in {"thumb", "symbols", "startup", "globals"}, Script(s)
         PROVE  ShapeInv'
    <2>1. pc' \in {"scrub", After(s)} /\ s \in ScriptSet
      BY <1>20 DEF Script, ScriptSet
    <2>2. pc' \in Steps BY <1>4, <1>18, <2>1
    <2> QED BY <1>0, <1>20, <2>2 DEF Script, ShapeInv
  <1>21. CASE RefuseStartup
    <2>1. pc' = After("startup") /\ "startup" \in ScriptSet
      BY <1>21 DEF RefuseStartup, ScriptSet
    <2>2. pc' \in Steps BY <1>18, <2>1
    <2> QED BY <1>0, <1>21, <2>2 DEF RefuseStartup, ShapeInv
  <1>22. CASE Export \/ ChildFails
    <2>1. Len(Marker) = 4 BY DEF Marker
    <2>2. Shaped([kit EXCEPT !["functions"] = Second(run)])
      BY <1>0, <1>1, <1>3, ShapedWith
    <2>3. Shaped([kit EXCEPT !["functions"] = Second(run), !["marker"] = Marker])
      <3> DEFINE k == [kit EXCEPT !["functions"] = Second(run)]
      <3>1. Shaped([k EXCEPT !["marker"] = Marker])
        <4>1. Shaped(k) BY <2>2
        <4> HIDE DEF k
        <4> QED BY <1>3, <2>1, <4>1, ShapedWith
      <3> QED BY <3>1
    <2>4. Shaped(kit') BY <1>0, <1>22, <2>2, <2>3 DEF Export, ChildFails
    <2>5. /\ UNCHANGED <<main, found, run, ver, term, st, ghidra, out, ctx, maps, result>>
          /\ pc' \in {"accept", "scrub"} /\ mishaps' \in 0 .. MaxMishaps
      BY <1>0, <1>2, <1>22 DEF Export, ChildFails
    <2> QED BY <1>0, <1>4, <2>4, <2>5 DEF ShapeInv
  <1>23. CASE Accept \/ AcceptFails
    <2>1. /\ UNCHANGED <<main, found, run, ver, kit, term, st, ghidra, out, ctx, maps>>
          /\ pc' \in {"refresh", "scrub"} /\ mishaps' \in 0 .. MaxMishaps
          /\ result' \in {result, "ok"}
      BY <1>0, <1>2, <1>23 DEF Accept, AcceptFails
    <2> QED BY <1>0, <1>4, <2>1 DEF ShapeInv
  <1>24. CASE Refresh
    <2>1. kit["functions"] \in Contents BY <1>0, <1>3 DEF Shaped
    <2>2. /\ Shaped([kit EXCEPT !["functions"] = 0])
          /\ Shaped([term EXCEPT !["functions"] = kit["functions"]])
      BY <1>0, <1>1, <1>3, <2>1, ShapedWith
    <2>3. Shaped(kit') /\ Shaped(term') BY <1>0, <1>24, <2>2 DEF Refresh
    <2> QED BY <1>0, <1>4, <1>24, <2>3 DEF Refresh, ShapeInv
  <1>25. CASE Finish
    <2>1. Shaped([f \in Files |-> Gone(f)]) BY Nothing, <1>3 DEF Shaped
    <2>2. Shaped([term EXCEPT !["raw"] = 0]) BY <1>0, <1>1, <1>3, ShapedWith
    <2>3. Shaped(kit') /\ Shaped(term') BY <1>0, <1>25, <2>1, <2>2 DEF Finish
    <2> QED BY <1>0, <1>4, <1>25, <2>3 DEF Finish, ShapeInv
  <1>26. ASSUME Forget
         PROVE  /\ st' \in [Manifests -> States]
                /\ ghidra' \in {"none", "analyzed", "failed", "opaque"}
                /\ out' \in [Manifests \cup {"raw", "functions"} -> Endings]
                /\ ctx' \in {None} \cup Contexts
                /\ maps' \in [sym : {None} \cup Plans, globals : BOOLEAN]
                /\ result' \in {"none", "ok", "failed", "dirty"}
    <2>1. st' \in [Manifests -> States] BY <1>26, StateKinds DEF Forget
    <2>2. out' \in [Manifests \cup {"raw", "functions"} -> Endings]
      BY <1>26 DEF Forget, NoOutcome, Endings
    <2> QED BY <1>26, <2>1, <2>2 DEF Forget
  <1>27. CASE StartRun
    <2>1. PICK v \in Versions : ver' = v /\ kit' = [kit EXCEPT !["raw"] = v]
      BY <1>27 DEF StartRun
    <2>2. v \in Contents BY Bounds
    <2>3. Shaped(kit') BY <1>0, <1>3, <2>1, <2>2, ShapedWith
    <2>4. run' \in 1 .. MaxRuns BY <1>0, <1>1, <1>27 DEF StartRun
    <2>5. Forget /\ UNCHANGED <<main, found, term, mishaps>> /\ pc' = "generate"
      BY <1>27 DEF StartRun
    <2> QED BY <1>0, <1>4, <1>26, <2>1, <2>3, <2>4, <2>5 DEF ShapeInv
  <1>28. CASE Crash
    <2>1. Forget /\ UNCHANGED <<main, found, run, ver, kit, term>> /\ pc' = "done"
          /\ mishaps' \in 0 .. MaxMishaps
      BY <1>2, <1>28 DEF Crash
    <2> QED BY <1>0, <1>4, <1>26, <2>1 DEF ShapeInv
  <1>29. CASE Alter
    <2>1. PICK f \in Files : \/ kit' = [kit EXCEPT ![f] = Altered(f)] /\ UNCHANGED term
                             \/ term' = [term EXCEPT ![f] = Altered(f)] /\ UNCHANGED kit
      BY <1>29 DEF Alter
    <2>2. /\ Shaped([kit EXCEPT ![f] = Altered(f)])
          /\ Shaped([term EXCEPT ![f] = Altered(f)])
      BY <1>0, <1>1, Nothing, ShapedWith
    <2>3. Shaped(kit') /\ Shaped(term') BY <1>0, <2>1, <2>2
    <2> QED BY <1>0, <1>2, <1>29, <2>3 DEF Alter, ShapeInv
  <1>30. CASE UNCHANGED vars BY <1>0, <1>30 DEF vars, ShapeInv
  <1> QED BY <1>6, <1>7, <1>8, <1>9, <1>10, <1>12, <1>13, <1>14, <1>15, <1>16, <1>17,
             <1>19, <1>20, <1>21, <1>22, <1>23, <1>24, <1>25, <1>27, <1>28, <1>29,
             <1>30, Zenon DEF Next

-----------------------------------------------------------------------------
(* What the steps leave alone.                                             *)

LEMMA FoundSame ==
    ASSUME UNCHANGED <<main, found, ver>>
    PROVE  /\ \A m : Found(m)' = Found(m)
           /\ BoundScatter(ver)' = BoundScatter(ver)
  BY DEF Found, Managed, BoundScatter

\* An alteration leaves what is gone, and nothing it leaves behind is a
\* content of a run.
LEMMA AlterEffect ==
    ASSUME ShapeInv, Alter
    PROVE  /\ \A f \in Files : /\ kit'[f] \in {kit[f], Altered(f)}
                               /\ kit[f] = Gone(f) => kit'[f] = kit[f]
                               /\ term'[f] \in {term[f], Altered(f)}
                               /\ term[f] = Gone(f) => term'[f] = term[f]
           /\ UNCHANGED <<setup, pass1, second, prog, pc>> /\ pc # "done"
  <1>1. DOMAIN kit = Files /\ DOMAIN term = Files BY DEF ShapeInv, Shaped
  <1>2. PICK f \in Files :
          \/ /\ kit[f] \notin {Gone(f), Altered(f)}
             /\ kit' = [kit EXCEPT ![f] = Altered(f)] /\ UNCHANGED term
          \/ /\ term[f] \notin {Gone(f), Altered(f)}
             /\ term' = [term EXCEPT ![f] = Altered(f)] /\ UNCHANGED kit
    BY DEF Alter
  <1>3. UNCHANGED <<setup, pass1, second, prog, pc>> /\ pc # "done" BY DEF Alter
  <1>4. CASE /\ kit[f] \notin {Gone(f), Altered(f)}
             /\ kit' = [kit EXCEPT ![f] = Altered(f)] /\ UNCHANGED term
    BY <1>1, <1>3, <1>4
  <1>5. CASE /\ term[f] \notin {Gone(f), Altered(f)}
             /\ term' = [term EXCEPT ![f] = Altered(f)] /\ UNCHANGED kit
    BY <1>1, <1>3, <1>5
  <1> QED BY <1>2, <1>4, <1>5

\* What generation found is kept to the end of the run.
LEMMA FoundStep == ShapeInv /\ FoundInv /\ [Next]_vars => FoundInv'
  <1> SUFFICES ASSUME ShapeInv, FoundInv, [Next]_vars PROVE FoundInv'
    OBVIOUS
  <1> USE DEF setup, disk, pass1, second
  <1> DEFINE Kept == pc \notin {"generate", "done"} /\ UNCHANGED <<main, found, ver, st>>
  <1>1. CASE Generate
    <2>1. UNCHANGED <<main, found, ver>> /\ st' = [m \in Manifests |-> Found(m)]
      BY <1>1 DEF Generate
    <2>2. \A m \in Manifests : st'[m] = Found(m)' BY <2>1, FoundSame
    <2> QED BY <2>2 DEF FoundInv
  <1>2. CASE Kept
    <2>1. \A m \in Manifests : st'[m] = Found(m)' BY <1>2, FoundSame DEF FoundInv
    <2> QED BY <2>1 DEF FoundInv
  <1>3. CASE pc' \in {"generate", "done"} BY <1>3 DEF FoundInv
  <1>4. CASE GenerateFails \/ Finish \/ StartRun \/ Crash
    BY <1>3, <1>4 DEF GenerateFails, Finish, StartRun, Crash
  <1>5. CASE Analyze \/ MakeContext \/ DiscoverStartup \/ StartupFails
    BY <1>2, <1>5 DEF Analyze, MakeContext, DiscoverStartup, StartupFails
  <1>6. CASE Marshal \/ MarshalFails
    <2>1. PICK f \in Publishing : \E o \in Endings \ {"pending"} : MarshalOf(f, o)
      BY <1>6, MarshalEffect
    <2> QED BY <1>2, <2>1 DEF MarshalOf, Publishing
  <1>7. CASE BuildSnapshot \/ SnapshotFails \/ PlanMaps \/ Bind \/ Begin \/ BeginFails
    BY <1>2, <1>7 DEF BuildSnapshot, SnapshotFails, PlanMaps, Bind, Begin, BeginFails
  <1>8. CASE Validate \/ RefuseStartup \/ Export \/ Accept \/ AcceptFails
    BY <1>2, <1>8 DEF Validate, RefuseStartup, Export, Accept, AcceptFails
  <1>9. CASE Scrub \/ ScrubFails \/ Refresh
    BY <1>2, <1>9 DEF Scrub, ScrubFails, Refresh
  <1>10. CASE ChildFails BY <1>2, <1>10, TheScripts DEF ChildFails, ScriptSet
  <1>11. ASSUME NEW s \in {"thumb", "symbols", "startup", "globals"}, Script(s)
         PROVE  FoundInv'
    BY <1>2, <1>11 DEF Script
  <1>12. CASE Alter
    <2>1. pc' = pc /\ UNCHANGED <<main, found, ver, st>> BY <1>12 DEF Alter
    <2> QED BY <1>2, <1>3, <2>1
  <1>13. CASE UNCHANGED vars
    <2>1. pc' = pc /\ UNCHANGED <<main, found, ver, st>> BY <1>13 DEF vars
    <2> QED BY <1>2, <1>3, <2>1
  <1> QED BY <1>1, <1>4, <1>5, <1>6, <1>7, <1>8, <1>9, <1>10, <1>11, <1>12, <1>13,
             Zenon DEF Next

\* What the driver moves out of the kit is this run's, altered or missing.
LEMMA KitStep ==
    ShapeInv /\ FoundInv /\ KitInv /\ OutInv /\ CtxInv /\ SnapInv /\ [Next]_vars => KitInv'
  <1> SUFFICES ASSUME ShapeInv, FoundInv, KitInv, OutInv, CtxInv, SnapInv, [Next]_vars
               PROVE  KitInv'
    OBVIOUS
  <1> USE DEF setup, disk, pass1, second
  <1>0. /\ DOMAIN kit = Files /\ DOMAIN term = Files /\ ver \in Versions
        /\ pc \in Steps
    BY DEF ShapeInv, Shaped
  <1>1. {"raw", "functions", "marker", "scatter", "map", "globals", "startup"} \subseteq Files
    BY DEF Files, Manifests
  <1>2. /\ pc # "done" => kit["raw"] \in {ver, -1, 0}
        /\ pc \in {"ghidra", "raw", "functions", "scatter"} /\ IsPresent(Found("scatter"))
             => kit["scatter"] \in {ver, -1, 0}
        /\ pc \in {"raw", "functions"} /\ ExportCurrent => kit["functions"] \in {run, -1}
        /\ pc \in {"accept", "refresh"} => kit["functions"] \in {Second(run), -1}
        /\ result = "failed" => kit["functions"] = 0 /\ kit["marker"] = <<>>
    BY DEF KitInv
  \* An attempt has no result before the last steps.
  <1>3. pc \notin {"refresh", "finish", "done"} => result = "none" BY DEF SnapInv
  <1>4. UNCHANGED <<main, found, ver>> => Found("scatter")' = Found("scatter")
    BY FoundSame
  <1>5. CASE Generate
    <2>1. /\ kit'["raw"] = kit["raw"]
          /\ IsPresent(Found("scatter")) => kit'["scatter"] = ver
      <3>1. kit' = AfterGeneration(Manifests) BY <1>5 DEF Generate
      <3>2. "raw" \in Files \ Manifests /\ "scatter" \in Manifests
        BY DEF Files, Manifests
      <3> QED BY <3>1, <3>2, Generated
    <2>2. pc = "generate" /\ pc' = "ghidra" /\ UNCHANGED <<main, found, ver, result>>
      BY <1>5 DEF Generate
    <2> QED BY <1>2, <1>3, <1>4, <2>1, <2>2 DEF KitInv
  <1>6. CASE GenerateFails
    <2>1. pc = "generate" /\ pc' = "done" /\ result' = result BY <1>6 DEF GenerateFails
    <2> QED BY <1>3, <2>1 DEF KitInv
  <1>7. CASE Analyze
    <2>1. /\ pc = "ghidra" /\ pc' = "raw" /\ UNCHANGED <<main, found, run, ver, result>>
      BY <1>7 DEF Analyze
    <2>2. \/ /\ ghidra' = "analyzed"
             /\ \E x, y : kit' = [kit EXCEPT !["functions"] = run, !["startup"] = x,
                                             !["marker"] = y]
          \/ ghidra' # "analyzed" /\ kit' \in {Scrubbed, [Scrubbed EXCEPT !["startup"] = <<>>]}
      BY <1>7 DEF Analyze
    <2>3. /\ kit'["raw"] = kit["raw"] /\ kit'["scatter"] = kit["scatter"]
          /\ ghidra' = "analyzed" => kit'["functions"] = run
      BY <1>0, <1>1, <2>2 DEF Scrubbed
    <2> QED BY <1>2, <1>3, <1>4, <2>1, <2>3 DEF KitInv, ExportCurrent
  <1>8. CASE Marshal \/ MarshalFails
    <2>1. PICK f \in Publishing : \E o \in Endings \ {"pending"} : MarshalOf(f, o)
      BY <1>8, MarshalEffect
    <2>2. /\ \A x \in Files \ {f} : kit'[x] = kit[x]
          /\ kit'[f] \in {kit[f], 0} /\ f \in Files
          /\ pc = f /\ pc' = AfterMarshal[f]
          /\ UNCHANGED <<main, found, run, ver, result, ghidra>>
      BY <2>1 DEF MarshalOf, Publishing, Files, Manifests
    <2>3. /\ pc' \in {"functions", "scatter", "exc", "pal", "msg", "context"}
          /\ f # "functions" => kit'["functions"] = kit["functions"]
          /\ f # "scatter" => kit'["scatter"] = kit["scatter"]
          /\ kit'["raw"] \in {kit["raw"], 0}
          /\ pc' = "functions" => f = "raw"
          /\ pc' = "scatter" => f = "functions"
      BY <1>1, <2>2 DEF AfterMarshal, Publishing
    <2>4. result' = "none" BY <1>3, <2>2 DEF Publishing
    <2>5. pc # "done" BY <2>2 DEF Publishing
    <2> QED BY <1>2, <1>4, <2>2, <2>3, <2>4, <2>5 DEF KitInv, ExportCurrent
  <1>9. CASE BuildSnapshot \/ SnapshotFails
    <2>1. /\ pc = "snapshot" /\ pc' = "maps" /\ UNCHANGED <<main, found, run, ver, result>>
          /\ \/ kit' = kit
             \/ ctx # None /\ \E n \in 0 .. Len(Stages) : kit' = Staged(n)
      BY <1>9 DEF BuildSnapshot, SnapshotFails, FittingStages
    <2>2. ctx # None => term["raw"] \in {ver, -1} BY <2>1 DEF CtxInv, OutInv
    <2>3. \A n \in 0 .. Len(Stages) : Staged(n)["raw"] \in {kit["raw"], term["raw"], 0}
      <3>1. Gone("raw") = 0 BY DEF Gone, Tuples
      <3> QED BY <1>1, <3>1, StagedShape
    <2>4. kit'["raw"] \in {ver, -1, 0} BY <1>2, <2>1, <2>2, <2>3
    <2> QED BY <1>3, <2>1, <2>4 DEF KitInv
  <1>10. CASE PlanMaps
    <2>1. /\ pc = "maps" /\ pc' \in {"bind", "finish"}
          /\ UNCHANGED <<main, found, run, ver, result>>
          /\ kit' \in {kit, [kit EXCEPT !["map"] = run]}
      BY <1>10 DEF PlanMaps
    <2>2. kit'["raw"] = kit["raw"] BY <1>0, <1>1, <2>1
    <2> QED BY <1>2, <1>3, <2>1, <2>2 DEF KitInv
  <1>11. CASE Begin \/ BeginFails \/ Scrub \/ ScrubFails
    <2>1. /\ pc \in {"begin", "scrub"} /\ pc' \in {"validate", "finish"}
          /\ UNCHANGED <<main, found, run, ver>>
          /\ \/ kit' = Scrubbed
             \/ kit' \in Remains /\ result' = "dirty"
          /\ result' \in {result, "dirty", "failed"}
      BY <1>11 DEF Begin, BeginFails, Scrub, ScrubFails
    <2>2. /\ kit'["raw"] = kit["raw"]
          /\ kit' = Scrubbed => kit'["functions"] = 0 /\ kit'["marker"] = <<>>
      BY <2>1, <1>1, ScrubbedShape DEF ShapeInv
    <2>3. result' = "failed" => kit' = Scrubbed BY <1>3, <2>1
    <2> QED BY <1>2, <1>3, <2>1, <2>2, <2>3 DEF KitInv
  <1>12. CASE Export \/ ChildFails
    <2>1. /\ pc \in ScriptSet /\ pc' \in {"accept", "scrub"}
          /\ UNCHANGED <<main, found, run, ver, result>>
          /\ \/ kit' = kit
             \/ kit' = [kit EXCEPT !["functions"] = Second(run)]
             \/ kit' = [kit EXCEPT !["functions"] = Second(run), !["marker"] = Marker]
          /\ pc' = "accept" =>
               kit' = [kit EXCEPT !["functions"] = Second(run), !["marker"] = Marker]
      BY <1>12, TheScripts DEF Export, ChildFails, ScriptSet
    <2>2. /\ kit'["raw"] = kit["raw"]
          /\ pc' = "accept" => kit'["functions"] = Second(run)
      BY <1>0, <1>1, <2>1
    <2>3. result' = "none" /\ pc # "done" BY <1>3, <2>1 DEF ScriptSet
    <2> QED BY <1>2, <2>1, <2>2, <2>3 DEF KitInv
  <1>13. CASE Refresh
    <2>1. /\ pc = "refresh" /\ pc' = "finish" /\ UNCHANGED <<run, ver, result>>
          /\ kit' \in {kit, [kit EXCEPT !["functions"] = 0]}
      BY <1>13 DEF Refresh
    <2>2. kit'["raw"] = kit["raw"] BY <1>0, <1>1, <2>1
    <2>3. result = "ok" BY <2>1 DEF SnapInv
    <2> QED BY <1>2, <2>1, <2>2, <2>3 DEF KitInv
  <1>14. CASE Finish
    <2>1. /\ pc' = "done" /\ result' = result
          /\ kit' = kit \/ (kit'["functions"] = 0 /\ kit'["marker"] = <<>>)
      BY <1>1, <1>14 DEF Finish, Gone, Tuples
    <2> QED BY <1>2, <2>1 DEF KitInv
  <1>15. CASE StartRun
    <2>1. PICK v \in Versions : ver' = v /\ kit' = [kit EXCEPT !["raw"] = v]
      BY <1>15 DEF StartRun
    <2>2. kit'["raw"] = ver' BY <1>0, <1>1, <2>1
    <2>3. pc' = "generate" /\ result' = "none" BY <1>15 DEF StartRun, Forget
    <2> QED BY <2>2, <2>3 DEF KitInv
  <1>16. CASE Crash
    BY <1>16 DEF Crash, Forget, KitInv
  <1>17. CASE Alter
    <2>1. /\ \A f \in Files : /\ kit'[f] \in {kit[f], Altered(f)}
                              /\ kit[f] = Gone(f) => kit'[f] = kit[f]
          /\ UNCHANGED <<main, found, run, ver, result, ghidra, pc>>
      BY <1>17, AlterEffect
    <2>2. /\ Altered("raw") = -1 /\ Altered("scatter") = -1 /\ Altered("functions") = -1
          /\ Gone("functions") = 0 /\ Gone("marker") = <<>>
      BY DEF Altered, Gone, Tuples
    <2>3. /\ kit'["raw"] \in {kit["raw"], -1} /\ kit'["scatter"] \in {kit["scatter"], -1}
          /\ kit'["functions"] \in {kit["functions"], -1}
          /\ kit["functions"] = 0 => kit'["functions"] = 0
          /\ kit["marker"] = <<>> => kit'["marker"] = <<>>
      BY <1>1, <2>1, <2>2
    <2> QED BY <1>2, <1>4, <2>1, <2>3 DEF KitInv, ExportCurrent
  \* The other steps leave the kit as it is.
  <1>18. ASSUME /\ UNCHANGED <<run, ver, kit>> /\ pc # "done"
                /\ pc' \notin {"ghidra", "raw", "functions", "scatter"}
                /\ pc' \in {"accept", "refresh"} => pc \in {"accept", "refresh"}
                /\ result' # "failed"
         PROVE  KitInv'
    BY <1>2, <1>18 DEF KitInv
  <1>19. CASE MakeContext \/ DiscoverStartup \/ StartupFails
    BY <1>3, <1>18, <1>19 DEF MakeContext, DiscoverStartup, StartupFails
  <1>20. CASE Bind BY <1>3, <1>18, <1>20 DEF Bind
  <1>21. \A s \in ScriptSet : s \notin {"accept", "refresh", "ghidra", "raw", "functions",
                                        "scatter", "done", "finish"}
    BY DEF ScriptSet
  <1>22. CASE Validate
    BY <1>3, <1>18, <1>21, <1>22, QueueStart DEF Validate
  <1>23. ASSUME NEW s \in {"thumb", "symbols", "startup", "globals"},
                Script(s) \/ (RefuseStartup /\ s = "startup")
         PROVE  KitInv'
    <2>1. /\ UNCHANGED <<run, ver, kit, result>> /\ pc = s
          /\ pc' \in {"scrub", After(s)}
      BY <1>23 DEF Script, RefuseStartup
    <2>2. s \in ScriptSet \ {"export"} BY DEF ScriptSet
    <2>3. After(s) \in ScriptSet BY <2>2, QueueNext
    <2> QED BY <1>3, <1>18, <1>21, <2>1, <2>2, <2>3
  <1>24. CASE Accept \/ AcceptFails
    BY <1>3, <1>18, <1>24 DEF Accept, AcceptFails
  <1>25. CASE UNCHANGED vars
    <2>1. UNCHANGED <<main, found, run, ver, kit, ghidra, result, pc>>
      BY <1>25 DEF vars
    <2> QED BY <1>2, <1>4, <2>1 DEF KitInv, ExportCurrent
  <1> QED BY <1>5, <1>6, <1>7, <1>8, <1>9, <1>10, <1>11, <1>12, <1>13, <1>14, <1>15,
             <1>16, <1>17, <1>19, <1>20, <1>22, <1>23, <1>24, <1>25, Zenon DEF Next

-----------------------------------------------------------------------------
(* The publication.                                                        *)

\* A manifest that is published was read against the raw image and, where it
\* binds one, the scatter map that lie in the image's directory.
LEMMA PublishedFits ==
    ASSUME ShapeInv, FoundInv, NEW m \in {"exc", "pal", "msg"}, MarshalOf(m, "current")
    PROVE  /\ term'[m] = ver /\ term["raw"] = ver
           /\ BoundScatter(ver) # 0 => term["scatter"] = ver
  <1>1. /\ term'[m] = kit[m] /\ IsPresent(Runtime(m)) /\ FitsTerminal(m, ScatterOf(m))
        /\ pc = m
    BY DEF MarshalOf
  <1>2. m \in Manifests /\ ver \in Versions BY DEF Manifests, ShapeInv
  <1>3. st[m] = Found(m) /\ Runtime(m) = st[m]
    BY <1>1, <1>2, RuntimeState DEF FoundInv
  <1>4. Found(m) = Present(ver) BY <1>1, <1>2, <1>3, FoundState
  <1>5. kit[m] = ver BY <1>1, <1>3, <1>4, TheStates DEF FitsTerminal
  <1> DEFINE sc == IF IsPresent(ScatterOf(m)) THEN term["scatter"] ELSE 0
  <1>6. Fits(ver, term["raw"], sc) BY <1>1, <1>5 DEF FitsTerminal
  <1>7. term["raw"] = ver /\ sc = BoundScatter(ver) /\ (sc # 0 => sc = term["raw"])
    BY <1>6 DEF Fits, ScatterFits
  <1>8. sc # 0 => sc = term["scatter"] OBVIOUS
  <1> QED BY <1>1, <1>5, <1>7, <1>8

\* The same of the steps that are not the publication of a file: the outcomes
\* stay, and so do the files they speak of.
LEMMA OutKept ==
    ASSUME OutInv, ManifestsBindTerminalFiles, pc # "done", UNCHANGED <<main, found, run, ver, out>>,
           \A f \in {"raw", "scatter", "exc", "pal", "msg"} :
              /\ term'[f] \in {term[f], -1}
              /\ term[f] = 0 => term'[f] = 0,
           pc' \in Early => term'["functions"] \in {term["functions"], -1} /\ pc \in Early,
           \/ pc' \notin {"generate", "ghidra"} \cup Publishing
           \/ pc' \in {"ghidra", "raw"} /\ pc \in {"generate", "ghidra"}
           \/ pc' = pc
    PROVE  OutInv' /\ ManifestsBindTerminalFiles'
  <1>1. ToCome' = {} \/ ToCome' = ToCome
    BY DEF ToCome, Publishing
  <1>2. /\ \A f \in ToCome : out[f] = "pending"
        /\ out["raw"] = "current" => term["raw"] \in {ver, -1}
        /\ out["scatter"] = "current" => term["scatter"] \in {ver, -1}
        /\ pc \in Early /\ out["functions"] = "current" => term["functions"] \in {run, -1}
        /\ \A m \in {"scatter", "exc", "pal"} : out[m] = "absent" => term[m] = 0
    BY DEF OutInv
  <1>3. \A f \in ToCome' : out'[f] = "pending" BY <1>1, <1>2
  <1>4. OutInv' BY <1>2, <1>3 DEF OutInv
  <1>5. BoundScatter(ver)' = BoundScatter(ver) BY FoundSame
  <1>6. ManifestsBindTerminalFiles' BY <1>5 DEF ManifestsBindTerminalFiles
  <1> QED BY <1>4, <1>6

LEMMA OutStep ==
    /\ ShapeInv /\ FoundInv /\ KitInv /\ OutInv /\ CtxInv
    /\ ManifestsBindTerminalFiles /\ [Next]_vars
    => OutInv' /\ ManifestsBindTerminalFiles'
  <1> SUFFICES ASSUME ShapeInv, FoundInv, KitInv, OutInv, CtxInv,
                      ManifestsBindTerminalFiles, [Next]_vars
               PROVE  OutInv' /\ ManifestsBindTerminalFiles'
    OBVIOUS
  <1> USE DEF setup, disk, pass1, second
  <1>0. /\ DOMAIN kit = Files /\ DOMAIN term = Files /\ ver \in Versions
        /\ pc \in Steps /\ out \in [Manifests \cup {"raw", "functions"} -> Endings]
    BY DEF ShapeInv, Shaped
  <1>1. {"raw", "functions", "marker", "scatter", "exc", "pal", "msg", "map", "globals",
         "startup"} \subseteq Files
    BY DEF Files, Manifests
  <1>2. CASE pc' = "done" BY <1>2 DEF OutInv, ManifestsBindTerminalFiles
  <1>3. CASE GenerateFails \/ Finish \/ Crash
    BY <1>2, <1>3 DEF GenerateFails, Finish, Crash
  <1>4. CASE StartRun
    <2>1. out' = NoOutcome /\ pc' = "generate" BY <1>4 DEF StartRun, Forget
    <2>2. \A f \in Manifests \cup {"raw", "functions"} : out'[f] = "pending"
      BY <2>1 DEF NoOutcome
    <2>3. ToCome' = Manifests \cup {"raw", "functions"} BY <2>1 DEF ToCome
    <2>4. "raw" \in ToCome' /\ {"scatter", "exc", "pal", "msg", "functions"} \subseteq ToCome'
      BY <2>3 DEF Manifests
    <2> QED BY <2>2, <2>3, <2>4 DEF OutInv, ManifestsBindTerminalFiles
  <1>5. CASE Marshal \/ MarshalFails
    <2>1. PICK f \in Publishing : \E o \in Endings \ {"pending"} : MarshalOf(f, o)
      BY <1>5, MarshalEffect
    <2>2. PICK o \in Endings \ {"pending"} : MarshalOf(f, o) BY <2>1
    <2>3. /\ pc = f /\ pc' = AfterMarshal[f] /\ out' = [out EXCEPT ![f] = o]
          /\ \A x \in Files \ {f} : term'[x] = term[x]
          /\ o = "current" => term'[f] = kit[f]
          /\ o = "absent" => term'[f] = 0
          /\ UNCHANGED <<main, found, run, ver>>
      BY <2>2 DEF MarshalOf
    <2>4. f \in Manifests \cup {"raw", "functions"} BY DEF Publishing, Manifests
    <2>5. out'[f] = o /\ \A x \in (Manifests \cup {"raw", "functions"}) \ {f} : out'[x] = out[x]
      BY <1>0, <2>3, <2>4
    <2>6. ToCome' = ToCome \ {f} /\ f \in ToCome
      BY <2>3 DEF ToCome, Publishing, AfterMarshal, Manifests
    <2>7. \A x \in ToCome : out[x] = "pending" /\ x \in Manifests \cup {"raw", "functions"}
      <3>1. pc # "done" BY <2>3 DEF Publishing
      <3> QED BY <3>1 DEF OutInv, ToCome, Manifests
    <2>8. \A x \in ToCome' : out'[x] = "pending" BY <2>5, <2>6, <2>7
    <2>9. /\ pc # "done" /\ pc \in Early /\ pc' # "done"
          /\ {"raw", "scatter", "exc", "pal", "functions", "msg"}
                \subseteq Manifests \cup {"raw", "functions"}
      BY <2>3 DEF Early, Publishing, AfterMarshal, Manifests
    <2>10. out'["raw"] = "current" => term'["raw"] \in {ver, -1}
      <3>1. CASE f # "raw" BY <1>1, <2>3, <2>5, <2>9, <3>1 DEF OutInv
      <3>2. CASE f = "raw" /\ o = "current"
        <4>1. term'["raw"] = kit["raw"] /\ kit["raw"] # 0
          BY <2>2, <3>2 DEF MarshalOf
        <4> QED BY <2>9, <4>1 DEF KitInv
      <3> QED BY <2>5, <3>1, <3>2
    <2>11. out'["scatter"] = "current" => term'["scatter"] \in {ver, -1}
      <3>1. CASE f # "scatter" BY <1>1, <2>3, <2>5, <2>9, <3>1 DEF OutInv
      <3>2. CASE f = "scatter" /\ o = "current"
        <4>1. term'["scatter"] = kit["scatter"] /\ kit["scatter"] # 0
              /\ IsPresent(ScatterState)
          BY <2>2, <3>2 DEF MarshalOf
        <4>2. "scatter" \in Manifests BY DEF Manifests
        <4>3. IsPresent(st["scatter"])
          BY <4>1, <4>2, RuntimeState DEF ScatterState
        <4>4. IsPresent(Found("scatter"))
          BY <2>3, <3>2, <4>2, <4>3 DEF FoundInv
        <4> QED BY <2>3, <3>2, <4>1, <4>4 DEF KitInv
      <3> QED BY <2>5, <3>1, <3>2
    <2>12. out'["functions"] = "current" => term'["functions"] \in {run, -1}
      <3>1. CASE f # "functions" BY <1>1, <2>3, <2>5, <2>9, <3>1 DEF OutInv
      <3>2. CASE f = "functions" /\ o = "current"
        <4>1. term'["functions"] = kit["functions"] /\ ExportCurrent
          BY <2>2, <3>2 DEF MarshalOf
        <4> QED BY <2>3, <3>2, <4>1 DEF KitInv
      <3> QED BY <2>5, <3>1, <3>2
    <2>13. \A m \in {"scatter", "exc", "pal"} : out'[m] = "absent" => term'[m] = 0
      <3> SUFFICES ASSUME NEW m \in {"scatter", "exc", "pal"}, out'[m] = "absent"
                   PROVE  term'[m] = 0
        OBVIOUS
      <3>1. m \in Files /\ m \in Manifests BY DEF Files, Manifests
      <3>2. CASE f # m BY <2>3, <2>5, <2>9, <3>1, <3>2 DEF OutInv
      <3>3. CASE f = m BY <2>3, <2>5, <3>3
      <3> QED BY <3>2, <3>3
    <2>14. OutInv' BY <2>3, <2>8, <2>10, <2>11, <2>12, <2>13 DEF OutInv
    <2>15. BoundScatter(ver)' = BoundScatter(ver) BY <2>3, FoundSame
    <2>16. ASSUME NEW m \in {"exc", "pal", "msg"}, out'[m] = "current"
           PROVE  /\ {term'[m], term'["raw"]} \subseteq {ver, -1}
                  /\ BoundScatter(ver) # 0 => term'["scatter"] \in {ver, -1}
      <3>1. m \in Files /\ m \in Manifests BY DEF Files, Manifests
      <3>2. CASE f = m
        <4>1. o = "current" BY <2>5, <2>16, <3>2
        <4>2. /\ term'[m] = ver /\ term["raw"] = ver
              /\ BoundScatter(ver) # 0 => term["scatter"] = ver
          BY <2>2, <3>2, <4>1, PublishedFits
        <4>3. term'["raw"] = term["raw"] /\ term'["scatter"] = term["scatter"]
          BY <1>1, <2>3, <3>2
        <4> QED BY <4>2, <4>3
      <3>3. CASE f # m
        <4>1. out[m] = "current" BY <2>5, <2>16, <3>1, <3>3
        <4>2. m \notin ToCome BY <2>7, <4>1
        <4>3. f \in {"exc", "pal", "msg"}
          BY <2>3, <4>2 DEF ToCome, Publishing, Manifests
        <4>4. /\ {term[m], term["raw"]} \subseteq {ver, -1}
              /\ BoundScatter(ver) # 0 => term["scatter"] \in {ver, -1}
          BY <2>9, <4>1 DEF ManifestsBindTerminalFiles
        <4>5. /\ term'["raw"] = term["raw"] /\ term'["scatter"] = term["scatter"]
              /\ term'[m] = term[m]
          BY <1>1, <2>3, <3>1, <3>3, <4>3
        <4> QED BY <4>4, <4>5
      <3> QED BY <3>2, <3>3
    <2>17. ManifestsBindTerminalFiles'
      BY <2>3, <2>15, <2>16 DEF ManifestsBindTerminalFiles
    <2> QED BY <2>14, <2>17
  <1>6. CASE Generate \/ Analyze
    <2>1. /\ pc \in {"generate", "ghidra"} /\ pc' \in {"ghidra", "raw"}
          /\ UNCHANGED <<main, found, run, ver, out, term>>
      BY <1>6 DEF Generate, Analyze
    <2>2. pc \in Early /\ pc # "done" BY <2>1 DEF Early
    <2> QED BY <2>1, <2>2, OutKept
  <1>7. CASE DiscoverStartup \/ StartupFails
    <2>1. /\ pc = "discover" /\ pc' = "snapshot"
          /\ UNCHANGED <<main, found, run, ver, out>>
          /\ \/ term' = term
             \/ \E x : term' = [term EXCEPT !["startup"] = x]
      BY <1>7 DEF DiscoverStartup, StartupFails
    <2>2. \A f \in {"raw", "scatter", "exc", "pal", "msg"} : term'[f] = term[f]
      BY <1>0, <1>1, <2>1
    <2> QED BY <2>1, <2>2, OutKept DEF Early, Publishing
  <1>8. CASE PlanMaps
    <2>1. /\ pc = "maps" /\ pc' \in {"bind", "finish"}
          /\ UNCHANGED <<main, found, run, ver, out>>
          /\ term' \in {term, [term EXCEPT !["globals"] = run]}
      BY <1>8 DEF PlanMaps
    <2>2. \A f \in {"raw", "scatter", "exc", "pal", "msg"} : term'[f] = term[f]
      BY <1>0, <1>1, <2>1
    <2> QED BY <2>1, <2>2, OutKept DEF Early, Publishing
  <1>9. CASE Refresh
    <2>1. /\ pc = "refresh" /\ pc' = "finish"
          /\ UNCHANGED <<main, found, run, ver, out>>
          /\ term' \in {term, [term EXCEPT !["functions"] = kit["functions"]]}
      BY <1>9 DEF Refresh
    <2>2. \A f \in {"raw", "scatter", "exc", "pal", "msg"} : term'[f] = term[f]
      BY <1>0, <1>1, <2>1
    <2> QED BY <2>1, <2>2, OutKept DEF Early, Publishing
  \* The other steps leave the image's directory as it is.
  <1>10. ASSUME /\ UNCHANGED <<main, found, run, ver, out, term>> /\ pc # "done"
                /\ pc' \notin Early
         PROVE  OutInv' /\ ManifestsBindTerminalFiles'
    BY <1>10, OutKept DEF Early
  <1>11. CASE MakeContext \/ BuildSnapshot \/ SnapshotFails \/ Bind \/ Begin \/ BeginFails
    BY <1>10, <1>11
       DEF MakeContext, BuildSnapshot, SnapshotFails, Bind, Begin, BeginFails,
           Early, Publishing
  <1>12. CASE Export \/ Accept \/ AcceptFails \/ Scrub \/ ScrubFails
    BY <1>10, <1>12 DEF Export, Accept, AcceptFails, Scrub, ScrubFails, Early, Publishing
  <1>13. CASE ChildFails
    BY <1>10, <1>13, TheScripts DEF ChildFails, Early, Publishing, ScriptSet
  <1>14. \A s \in ScriptSet : s \notin Early /\ s # "done" BY DEF ScriptSet, Early, Publishing
  <1>15. CASE Validate
    <2>1. /\ UNCHANGED <<main, found, run, ver, out, term>> /\ pc = "validate"
          /\ pc' \in {Queued(1), "scrub"}
      BY <1>15 DEF Validate
    <2> QED BY <1>10, <1>14, <2>1, QueueStart DEF Early, Publishing
  <1>16. ASSUME NEW s \in {"thumb", "symbols", "startup", "globals"},
                Script(s) \/ (RefuseStartup /\ s = "startup")
         PROVE  OutInv' /\ ManifestsBindTerminalFiles'
    <2>1. /\ UNCHANGED <<main, found, run, ver, out, term>> /\ pc = s
          /\ pc' \in {"scrub", After(s)}
      BY <1>16 DEF Script, RefuseStartup
    <2>2. s \in ScriptSet \ {"export"} BY DEF ScriptSet
    <2>3. After(s) \in ScriptSet BY <2>2, QueueNext
    <2> QED BY <1>10, <1>14, <2>1, <2>2, <2>3 DEF Early, Publishing
  <1>17. CASE Alter
    <2>1. /\ \A f \in Files : /\ term'[f] \in {term[f], Altered(f)}
                              /\ term[f] = Gone(f) => term'[f] = term[f]
          /\ UNCHANGED <<main, found, run, ver, out, pc>> /\ pc # "done"
      BY <1>17, AlterEffect
    <2>2. \A f \in {"raw", "scatter", "exc", "pal", "msg", "functions"} :
            Altered(f) = -1 /\ Gone(f) = 0
      BY DEF Altered, Gone, Tuples
    <2> QED BY <1>1, <2>1, <2>2, OutKept
  <1>18. CASE UNCHANGED vars
    <2>1. UNCHANGED <<main, found, run, ver, out, pc, term>> BY <1>18 DEF vars
    <2> QED BY <1>2, <2>1, OutKept
  <1> QED BY <1>3, <1>4, <1>5, <1>6, <1>7, <1>8, <1>9, <1>11, <1>12, <1>13, <1>15,
             <1>16, <1>17, <1>18, Zenon DEF Next

-----------------------------------------------------------------------------
(* The context and the snapshot.                                           *)

\* What the three manifests of a context are, seen from one of them.
Speaks(c, m) ==
    CASE Found(m) = Absent -> c[m] = Absent /\ term[m] = 0
      [] IsPresent(Found(m)) -> c[m] = Found(m) /\ term[m] \in {ver, -1}
      [] OTHER -> c[m] = Unmanaged

\* A new context is made of outcomes that agree with what generation found.
LEMMA ContextMade ==
    ASSUME ShapeInv, FoundInv, OutInv, ManifestsBindTerminalFiles, MakeContext, ctx' # None
    PROVE  /\ \A m \in {"scatter", "exc", "pal"} : Speaks(ctx', m)
           /\ ctx'.raw = term["raw"] /\ out["raw"] = "current"
           /\ (\E m \in {"scatter", "exc", "pal"} : IsPresent(ctx'[m])) => ctx'.raw = ver
           /\ ~IsPresent(ctx'.startup)
           /\ term["functions"] \in {run, -1}
  <1>1. /\ Ready /\ Authentic /\ pc = "context"
        /\ ctx' = [kind    |-> "context",
                   raw     |-> term["raw"],
                   scatter |-> IF IsPresent(ScatterState)
                               THEN Present(term["scatter"]) ELSE ScatterState,
                   exc     |-> st["exc"], pal |-> Runtime("pal"),
                   startup |-> Unmanaged]
    BY DEF MakeContext
  <1>2. ghidra = "analyzed" /\ out["raw"] = "current" /\ out["functions"] = "current"
    BY <1>1 DEF Ready, ExportCurrent
  <1>3. \A m \in Manifests : Runtime(m) = st[m] /\ st[m] = Found(m) /\ Found(m) \in States
    BY <1>1, <1>2, FoundState DEF FoundInv, Runtime, ShapeInv
  <1>4. {"scatter", "exc", "pal"} \subseteq Manifests BY DEF Manifests
  <1>5. ScatterState = Found("scatter") BY <1>3, <1>4 DEF ScatterState
  <1>6. /\ Matches(out["scatter"], Found("scatter"))
        /\ Matches(out["exc"], Found("exc")) /\ Matches(out["pal"], Found("pal"))
    BY <1>1, <1>3, <1>4, <1>5 DEF Ready
  <1>7. ver \in Versions /\ ver > 0 BY Bounds DEF ShapeInv
  <1>8. \A m \in Manifests :
          /\ Found(m) = Absent \/ Found(m) = Unmanaged \/ Found(m) = Present(ver)
          /\ IsPresent(Found(m)) <=> Found(m) = Present(ver)
    BY <1>3, <1>7, FoundState, StateKinds, TheStates
  <1>9. \A o, v : Matches(o, Present(v)) => o = "current" BY DEF Matches, Present
  <1>10. \A o : Matches(o, Absent) => o = "absent" BY DEF Matches, Absent
  <1>11. pc # "done" /\ pc \in Early BY <1>1 DEF Early
  <1>12. /\ out["scatter"] = "current" => term["scatter"] \in {ver, -1}
         /\ term["raw"] \in {ver, -1} /\ term["functions"] \in {run, -1}
         /\ \A m \in {"scatter", "exc", "pal"} : out[m] = "absent" => term[m] = 0
    BY <1>2, <1>11 DEF OutInv
  <1>13. \A m \in {"exc", "pal"} : out[m] = "current" => term[m] \in {ver, -1}
    BY <1>11 DEF ManifestsBindTerminalFiles
  <1>14. IsPresent(Found("scatter")) => term["scatter"] = ver /\ term["raw"] = ver
    <2> SUFFICES ASSUME IsPresent(Found("scatter"))
                 PROVE  term["scatter"] = ver /\ term["raw"] = ver
      OBVIOUS
    <2>1. out["scatter"] = "current" BY <1>4, <1>6, <1>8, <1>9
    <2>2. term["scatter"] # 0 /\ ScatterFits(term["scatter"], term["raw"])
      BY <1>1, <1>5 DEF Authentic
    <2> QED BY <1>12, <2>1, <2>2 DEF ScatterFits
  <1>15. \A m \in {"exc", "pal"} : IsPresent(Found(m)) => term["raw"] = ver
    <2> SUFFICES ASSUME NEW m \in {"exc", "pal"}, IsPresent(Found(m))
                 PROVE  term["raw"] = ver
      OBVIOUS
    <2> DEFINE sc == IF IsPresent(ScatterState) THEN term["scatter"] ELSE 0
    <2>1. Binds(term["raw"], sc, Found(m)) BY <1>1, <1>3, <1>4 DEF Authentic
    <2>2. Found(m)[2] = ver BY <1>4, <1>8, TheStates
    <2>3. Fits(ver, term["raw"], sc) BY <2>1, <2>2 DEF Binds
    <2> QED BY <2>3 DEF Fits
  <1>16. Speaks(ctx', "scatter")
    <2>1. ctx'["scatter"] = IF IsPresent(Found("scatter")) THEN Present(term["scatter"])
                            ELSE Found("scatter")
      BY <1>1, <1>5
    <2>2. CASE Found("scatter") = Present(ver)
      <3>1. IsPresent(Found("scatter")) /\ Found("scatter") # Absent
        BY <2>2, TheStates
      <3> QED BY <1>14, <2>1, <2>2, <3>1 DEF Speaks
    <2>3. CASE Found("scatter") = Absent
      BY <1>6, <1>10, <1>12, <2>1, <2>3, TheStates DEF Speaks
    <2>4. CASE Found("scatter") = Unmanaged
      BY <2>1, <2>4, TheStates DEF Speaks
    <2> QED BY <1>4, <1>8, <2>2, <2>3, <2>4
  <1>17. ASSUME NEW m \in {"exc", "pal"} PROVE Speaks(ctx', m)
    <2>1. ctx'[m] = Found(m) BY <1>1, <1>3, <1>4
    <2>2. Matches(out[m], Found(m)) BY <1>6
    <2>3. CASE Found(m) = Present(ver)
      <3>1. IsPresent(Found(m)) /\ Found(m) # Absent BY <2>3, TheStates
      <3>2. out[m] = "current" BY <1>9, <2>2, <2>3
      <3> QED BY <1>13, <2>1, <3>1, <3>2 DEF Speaks
    <2>4. CASE Found(m) = Absent
      BY <1>10, <1>12, <2>1, <2>2, <2>4, TheStates DEF Speaks
    <2>5. CASE Found(m) = Unmanaged BY <2>1, <2>5, TheStates DEF Speaks
    <2> QED BY <1>4, <1>8, <2>3, <2>4, <2>5
  <1>18. \A m \in {"scatter", "exc", "pal"} : IsPresent(ctx'[m]) => IsPresent(Found(m))
    BY <1>16, <1>17, TheStates DEF Speaks
  <1>19. ctx'.raw = term["raw"] /\ ctx'.startup = Unmanaged BY <1>1
  <1> QED BY <1>2, <1>12, <1>14, <1>15, <1>16, <1>17, <1>18, <1>19, TheStates

\* A step that adds nothing to the context and leaves what it speaks of.
LEMMA ContextKept ==
    ASSUME ContextIsThisRuns, ctx # None, UNCHANGED <<main, found, run, ver, ctx>>,
           \A f \in {"scatter", "exc", "pal"} :
              /\ term'[f] \in {term[f], -1}
              /\ term[f] = 0 => term'[f] = 0,
           term'["functions"] \in {term["functions"], Second(run), -1}
    PROVE  ContextIsThisRuns'
  <1>1. \A m : Found(m)' = Found(m) BY FoundSame
  <1>2. \A m \in {"scatter", "exc", "pal"} : Speaks(ctx, m)
    BY DEF ContextIsThisRuns, Speaks
  <1>3. \A m \in {"scatter", "exc", "pal"} : Speaks(ctx, m)' BY <1>1, <1>2 DEF Speaks
  <1>4. Second(run)' = Second(run) BY DEF Second
  <1> QED BY <1>3, <1>4 DEF ContextIsThisRuns, Speaks

LEMMA CtxStep ==
    /\ ShapeInv /\ FoundInv /\ KitInv /\ OutInv /\ CtxInv /\ SnapInv
    /\ ManifestsBindTerminalFiles /\ ContextIsThisRuns /\ [Next]_vars
    => CtxInv' /\ ContextIsThisRuns'
  <1> SUFFICES ASSUME ShapeInv, FoundInv, KitInv, OutInv, CtxInv, SnapInv,
                      ManifestsBindTerminalFiles, ContextIsThisRuns, [Next]_vars
               PROVE  CtxInv' /\ ContextIsThisRuns'
    OBVIOUS
  <1> USE DEF setup, disk, pass1, second
  <1>0. DOMAIN term = Files /\ pc \in Steps /\ ver \in Versions
    BY DEF ShapeInv, Shaped
  <1>1. {"raw", "functions", "scatter", "exc", "pal", "globals", "startup"} \subseteq Files
    BY DEF Files, Manifests
  <1>2. CASE ctx' = None BY <1>2 DEF CtxInv, ContextIsThisRuns
  <1>3. \A s \in ScriptSet : s \notin Early /\ s # "done" BY DEF ScriptSet, Early, Publishing
  \* A step that leaves the context alone, or keeps to what it speaks of.
  <1>4. ASSUME ctx # None, UNCHANGED <<main, found, run, ver, ctx, out>>,
               pc' \in Early => pc \in Early, pc' # "done" => pc # "done",
               result' # "ok" => result # "ok" /\ term'["functions"] \in {term["functions"], -1},
               \A f \in {"scatter", "exc", "pal"} :
                 /\ term'[f] \in {term[f], -1}
                 /\ term[f] = 0 => term'[f] = 0,
               term'["functions"] \in {term["functions"], Second(run), -1}
        PROVE  CtxInv' /\ ContextIsThisRuns'
    <2>1. ContextIsThisRuns' BY <1>4, ContextKept
    <2>2. CtxInv' BY <1>4 DEF CtxInv
    <2> QED BY <2>1, <2>2
  <1>5. CASE StartRun \/ Crash BY <1>2, <1>5 DEF StartRun, Crash, Forget
  <1>6. CASE pc \in Early /\ ctx' = ctx BY <1>2, <1>6 DEF CtxInv
  <1>7. CASE Marshal \/ MarshalFails
    <2>1. PICK f \in Publishing : \E o \in Endings \ {"pending"} : MarshalOf(f, o)
      BY <1>7, MarshalEffect
    <2> QED BY <1>6, <2>1 DEF MarshalOf, Early
  <1>8. CASE Generate \/ GenerateFails \/ Analyze
    BY <1>6, <1>8 DEF Generate, GenerateFails, Analyze, Early
  <1>9. CASE MakeContext
    <2> SUFFICES ASSUME ctx' # None PROVE CtxInv' /\ ContextIsThisRuns'
      BY <1>2
    <2>1. /\ \A m \in {"scatter", "exc", "pal"} : Speaks(ctx', m)
          /\ ctx'.raw = term["raw"] /\ out["raw"] = "current"
          /\ (\E m \in {"scatter", "exc", "pal"} : IsPresent(ctx'[m])) => ctx'.raw = ver
          /\ ~IsPresent(ctx'.startup)
          /\ term["functions"] \in {run, -1}
      BY <1>9, ContextMade
    <2>2. /\ pc = "context" /\ pc' = "discover"
          /\ UNCHANGED <<main, found, run, ver, term, out>>
      BY <1>9 DEF MakeContext
    <2>3. \A m : Found(m)' = Found(m) BY <2>2, FoundSame
    <2>4. ctx'.raw \in {ver, -1} BY <2>1, <2>2 DEF OutInv
    <2>5. ContextIsThisRuns' BY <2>1, <2>2, <2>3, <2>4 DEF ContextIsThisRuns, Speaks
    <2>6. CtxInv' BY <2>1, <2>2 DEF CtxInv, Early, Publishing
    <2> QED BY <2>5, <2>6
  <1>10. CASE DiscoverStartup
    <2> SUFFICES ASSUME ctx' # None PROVE CtxInv' /\ ContextIsThisRuns'
      BY <1>2
    <2>1. /\ pc = "discover" /\ pc' = "snapshot"
          /\ UNCHANGED <<main, found, run, ver, out, result>>
          /\ term' = term \/ \E x : term' = [term EXCEPT !["startup"] = x]
          /\ ctx # None
          /\ \/ ctx' = ctx
             \/ ctx' = [ctx EXCEPT !.startup = Absent]
             \/ ctx' = [ctx EXCEPT !.startup = Present(Published)] /\ term["raw"] = ctx.raw
      BY <1>10 DEF DiscoverStartup
    <2>2. \A f \in {"raw", "scatter", "exc", "pal", "functions"} : term'[f] = term[f]
      BY <1>0, <1>1, <2>1
    <2>3. ctx \in Contexts BY <2>1 DEF ShapeInv
    <2>4. \A f \in {"raw", "scatter", "exc", "pal"} : ctx'[f] = ctx[f]
      BY <2>1, <2>3 DEF Contexts
    <2>5. \A m : Found(m)' = Found(m) BY <2>1, FoundSame
    <2>6. \A m \in {"scatter", "exc", "pal"} : Speaks(ctx, m)
      BY <2>1 DEF ContextIsThisRuns, Speaks
    <2>7. \A m \in {"scatter", "exc", "pal"} : Speaks(ctx, m)'
      BY <2>2, <2>4, <2>5, <2>6, <2>1 DEF Speaks
    <2>8. IsPresent(ctx'.startup) =>
            StartupFits(ctx'.startup[2], ctx'.raw, Digest(ctx'.scatter), Digest(ctx'.exc))
      <3>1. CASE ctx' = ctx BY <2>1, <3>1 DEF ContextIsThisRuns
      <3>2. CASE ctx' = [ctx EXCEPT !.startup = Absent]
        <4>1. ctx'.startup = Absent BY <2>3, <3>2 DEF Contexts
        <4> QED BY <4>1, TheStates
      <3>3. CASE ctx' = [ctx EXCEPT !.startup = Present(Published)] /\ term["raw"] = ctx.raw
        <4>1. ctx'.startup = Present(Published) BY <2>3, <3>3 DEF Contexts
        <4>2. Published = <<ctx.raw, Digest(ctx.scatter), Digest(ctx.exc), term["functions"]>>
          BY <2>1, <3>3 DEF Published, CtxState
        <4>3. StartupFits(Published, ctx.raw, Digest(ctx.scatter), Digest(ctx.exc))
          BY <4>2 DEF StartupFits
        <4> QED BY <2>4, <4>1, <4>3, TheStates
      <3> QED BY <2>1, <3>1, <3>2, <3>3
    <2>9. ctx'.raw \in {ver} \cup (IF \E m \in {"scatter", "exc", "pal"} :
                                        IsPresent(ctx'[m]) THEN {} ELSE {-1})
      BY <2>1, <2>4 DEF ContextIsThisRuns
    <2>10. term'["functions"] \in {run, Second(run), -1} BY <2>1, <2>2 DEF ContextIsThisRuns
    <2>11. Second(run)' = Second(run) BY <2>1 DEF Second
    <2>12. ContextIsThisRuns'
      BY <2>1, <2>7, <2>8, <2>9, <2>10, <2>11 DEF ContextIsThisRuns, Speaks
    <2>13. CtxInv' BY <2>1, <2>2 DEF CtxInv, Early, Publishing
    <2> QED BY <2>12, <2>13
  <1>11. CASE StartupFails
    <2>1. /\ pc = "discover" /\ pc' = "snapshot"
          /\ UNCHANGED <<main, found, run, ver, out, result, ctx>>
          /\ term' = term \/ term' = [term EXCEPT !["startup"] = Published]
      BY <1>11 DEF StartupFails
    <2>2. \A f \in {"scatter", "exc", "pal", "functions"} : term'[f] = term[f]
      BY <1>0, <1>1, <2>1
    <2> QED BY <1>2, <1>4, <2>1, <2>2 DEF Early, Publishing
  <1>12. CASE PlanMaps
    <2>1. /\ pc = "maps" /\ pc' \in {"bind", "finish"}
          /\ UNCHANGED <<main, found, run, ver, out, result, ctx>>
          /\ term' \in {term, [term EXCEPT !["globals"] = run]}
      BY <1>12 DEF PlanMaps
    <2>2. \A f \in {"scatter", "exc", "pal", "functions"} : term'[f] = term[f]
      BY <1>0, <1>1, <2>1
    <2> QED BY <1>2, <1>4, <2>1, <2>2 DEF Early, Publishing
  <1>13. CASE Refresh
    <2>1. /\ pc = "refresh" /\ pc' = "finish"
          /\ UNCHANGED <<main, found, run, ver, out, result, ctx>>
          /\ term' \in {term, [term EXCEPT !["functions"] = kit["functions"]]}
      BY <1>13 DEF Refresh
    <2>2. \A f \in {"scatter", "exc", "pal"} : term'[f] = term[f]
      BY <1>0, <1>1, <2>1
    <2>3. term'["functions"] \in {term["functions"], Second(run), -1}
      BY <1>0, <1>1, <2>1 DEF KitInv
    <2>4. result = "ok" BY <2>1 DEF SnapInv
    <2> QED BY <1>2, <1>4, <2>1, <2>2, <2>3, <2>4 DEF Early, Publishing
  <1>14. CASE Finish
    <2>1. /\ pc = "finish" /\ pc' = "done"
          /\ UNCHANGED <<main, found, run, ver, out, result, ctx>>
          /\ term' \in {term, [term EXCEPT !["raw"] = 0]}
      BY <1>14 DEF Finish
    <2>2. \A f \in {"scatter", "exc", "pal", "functions"} : term'[f] = term[f]
      BY <1>0, <1>1, <2>1
    <2> QED BY <1>2, <1>4, <2>1, <2>2 DEF Early, Publishing
  <1>15. CASE Alter
    <2>1. /\ \A f \in Files : /\ term'[f] \in {term[f], Altered(f)}
                              /\ term[f] = Gone(f) => term'[f] = term[f]
          /\ UNCHANGED <<main, found, run, ver, out, pc, ctx, result>> /\ pc # "done"
      BY <1>15, AlterEffect
    <2>2. \A f \in {"scatter", "exc", "pal", "functions"} :
            Altered(f) = -1 /\ Gone(f) = 0
      BY DEF Altered, Gone, Tuples
    <2> QED BY <1>1, <1>2, <1>4, <2>1, <2>2
  \* The other steps leave the image's directory as it is.
  <1>16. ASSUME /\ UNCHANGED <<main, found, run, ver, out, term, ctx>>
                /\ pc # "done" /\ result = "none" /\ pc' \notin Early
         PROVE  CtxInv' /\ ContextIsThisRuns'
    BY <1>2, <1>4, <1>16
  <1>17. pc \notin {"refresh", "finish", "done"} => result = "none" BY DEF SnapInv
  <1>18. CASE BuildSnapshot \/ SnapshotFails \/ Bind \/ Begin \/ BeginFails
    BY <1>16, <1>17, <1>18
       DEF BuildSnapshot, SnapshotFails, Bind, Begin, BeginFails, Early, Publishing
  <1>19. CASE Export \/ Accept \/ AcceptFails \/ Scrub \/ ScrubFails
    BY <1>16, <1>17, <1>19
       DEF Export, Accept, AcceptFails, Scrub, ScrubFails, Early, Publishing
  <1>20. CASE ChildFails
    BY <1>16, <1>17, <1>20, TheScripts DEF ChildFails, Early, Publishing, ScriptSet
  <1>21. CASE Validate
    <2>1. /\ UNCHANGED <<main, found, run, ver, out, term, ctx>> /\ pc = "validate"
          /\ pc' \in {Queued(1), "scrub"}
      BY <1>21 DEF Validate
    <2> QED BY <1>3, <1>16, <1>17, <2>1, QueueStart DEF Early, Publishing
  <1>22. ASSUME NEW s \in {"thumb", "symbols", "startup", "globals"},
                Script(s) \/ (RefuseStartup /\ s = "startup")
         PROVE  CtxInv' /\ ContextIsThisRuns'
    <2>1. /\ UNCHANGED <<main, found, run, ver, out, term, ctx>> /\ pc = s
          /\ pc' \in {"scrub", After(s)}
      BY <1>22 DEF Script, RefuseStartup
    <2>2. s \in ScriptSet \ {"export"} BY DEF ScriptSet
    <2>3. After(s) \in ScriptSet BY <2>2, QueueNext
    <2>4. pc \notin {"refresh", "finish", "done"} BY <2>1
    <2> QED BY <1>3, <1>16, <1>17, <2>1, <2>3, <2>4 DEF Early, Publishing
  <1>23. CASE UNCHANGED vars
    <2>1. UNCHANGED <<main, found, run, ver, out, pc, term, ctx, result>> BY <1>23 DEF vars
    <2> QED BY <1>2, <1>4, <2>1
  <1> QED BY <1>5, <1>7, <1>8, <1>9, <1>10, <1>11, <1>12, <1>13, <1>14, <1>15,
             <1>18, <1>19, <1>20, <1>21, <1>22, <1>23, Zenon DEF Next

\* The snapshot is the context, and an attempt has one.
LEMMA SnapStep == ShapeInv /\ CtxInv /\ SnapInv /\ [Next]_vars => SnapInv'
  <1> SUFFICES ASSUME ShapeInv, CtxInv, SnapInv, [Next]_vars PROVE SnapInv'
    OBVIOUS
  <1> USE DEF setup, disk, pass1, second
  <1>0. /\ snap # None => snap = ctx
        /\ pc \in Early \cup {"discover", "snapshot"} => snap = None
        /\ pc \in Running \/ result # "none" => snap # None
        /\ pc \notin {"refresh", "finish", "done"} => result = "none"
        /\ pc = "refresh" => result = "ok"
        /\ maps.sym # None => maps.sym.map = run
    BY DEF SnapInv
  \* The steps before the snapshot.
  <1>1. ASSUME /\ pc \in Early \cup {"discover", "snapshot"}
               /\ UNCHANGED <<run, snap, maps, result>>
               /\ pc' \in Early \cup {"discover", "snapshot", "maps", "done"}
        PROVE  SnapInv'
    <2>1. snap' = None /\ pc \notin {"refresh", "finish", "done"} /\ result' = "none"
      BY <1>0, <1>1 DEF Early, Publishing
    <2>2. pc' \notin Running /\ pc' # "refresh"
      BY <1>1 DEF Early, Publishing, Running, ScriptSet
    <2> QED BY <1>0, <1>1, <2>1, <2>2 DEF SnapInv
  \* The steps that have one.
  <1>2. ASSUME /\ pc \in Running \/ snap # None \/ pc' \in {"finish", "done"}
               /\ UNCHANGED <<run, ctx, snap>>
               /\ pc' \notin Early \cup {"discover", "snapshot"}
               /\ result' # "none" => snap # None
               /\ pc' \notin {"refresh", "finish", "done"} => result' = "none"
               /\ pc' = "refresh" => result' = "ok"
               /\ maps'.sym # None => maps'.sym.map = run
        PROVE  SnapInv'
    <2>1. pc' \in Running => snap # None
      <3>1. "finish" \notin Running /\ "done" \notin Running BY DEF Running, ScriptSet
      <3> QED BY <1>0, <1>2, <3>1
    <2> QED BY <1>0, <1>2, <2>1 DEF SnapInv
  <1>3. CASE Generate \/ GenerateFails \/ Analyze
    BY <1>1, <1>3 DEF Generate, GenerateFails, Analyze, Early, Publishing
  <1>4. CASE Marshal \/ MarshalFails
    <2>1. PICK f \in Publishing : \E o \in Endings \ {"pending"} : MarshalOf(f, o)
      BY <1>4, MarshalEffect
    <2>2. pc \in Early /\ pc' \in Early /\ UNCHANGED <<run, snap, maps, result>>
      BY <2>1 DEF MarshalOf, Early, Publishing, AfterMarshal
    <2> QED BY <1>1, <2>2
  <1>5. CASE MakeContext \/ DiscoverStartup \/ StartupFails \/ SnapshotFails
    BY <1>1, <1>5 DEF MakeContext, DiscoverStartup, StartupFails, SnapshotFails, Early
  <1>6. CASE BuildSnapshot
    <2>1. pc = "snapshot" /\ pc' = "maps" /\ UNCHANGED <<run, ctx, maps, result, term>>
      BY <1>6 DEF BuildSnapshot
    <2>2. snap' = snap \/ snap' = None
          \/ (ctx # None /\ term["raw"] = ctx.raw /\ snap' = [ctx EXCEPT !.raw = term["raw"]])
      BY <1>6 DEF BuildSnapshot, SameRuntime
    <2>3. ctx # None => ctx \in Contexts BY DEF ShapeInv
    <2>4. ctx # None => ctx = [ctx EXCEPT !.raw = ctx.raw] BY <2>3 DEF Contexts
    <2>5. snap' \in {None, ctx} BY <1>0, <2>1, <2>2, <2>4
    <2>6. result' = "none" /\ pc' \notin Running
      BY <1>0, <2>1 DEF Running, ScriptSet
    <2> QED BY <1>0, <2>1, <2>5, <2>6 DEF SnapInv, Early, Publishing
  <1>7. CASE PlanMaps
    <2>1. pc = "maps" /\ UNCHANGED <<run, ctx, snap, result>> BY <1>7 DEF PlanMaps
    <2>2. maps'.sym # None => maps'.sym.map = run
      <3>1. \/ maps' = maps
            \/ \E sym \in {None, SymbolPlan}, globals \in BOOLEAN :
                 maps' = [sym |-> sym, globals |-> globals]
        BY <1>7 DEF PlanMaps
      <3>2. SymbolPlan.map = run BY DEF SymbolPlan
      <3> QED BY <1>0, <3>1, <3>2
    <2>3. (snap = None /\ pc' = "finish") \/ (snap # None /\ pc' = "bind")
      BY <1>7 DEF PlanMaps
    <2> QED BY <1>0, <1>2, <2>1, <2>2, <2>3 DEF Early, Publishing
  <1>8. CASE Bind
    <2>1. /\ pc = "bind" /\ UNCHANGED <<run, ctx, snap, result>>
          /\ maps' \in {[maps EXCEPT !.sym = maps.sym], [maps EXCEPT !.sym = None]}
          /\ pc' \in {"begin", "finish"}
      BY <1>8 DEF Bind
    <2>2. maps'.sym # None => maps'.sym.map = run
      <3>1. maps \in [sym : {None} \cup Plans, globals : BOOLEAN] BY DEF ShapeInv
      <3>2. maps'.sym \in {maps.sym, None} BY <2>1, <3>1
      <3> QED BY <1>0, <3>2
    <2> QED BY <1>0, <1>2, <2>1, <2>2 DEF Early, Publishing, Running
  <1>9. CASE Begin \/ BeginFails \/ Scrub \/ ScrubFails
    <2>1. /\ pc \in {"begin", "scrub"} /\ pc' \in {"validate", "finish"}
          /\ UNCHANGED <<run, ctx, snap, maps>>
          /\ pc' = "validate" => result' = result
      BY <1>9 DEF Begin, BeginFails, Scrub, ScrubFails
    <2>2. pc \in Running BY <2>1 DEF Running
    <2> QED BY <1>0, <1>2, <2>1, <2>2 DEF Early, Publishing
  <1>10. \A s \in ScriptSet : /\ s \notin Early \cup {"discover", "snapshot"}
                              /\ s \notin {"refresh", "finish", "done"}
                              /\ s \in Running
    BY DEF ScriptSet, Early, Publishing, Running
  <1>11. CASE Validate
    <2>1. /\ UNCHANGED <<run, ctx, snap, maps, result>> /\ pc = "validate"
          /\ pc' \in {Queued(1), "scrub"}
      BY <1>11 DEF Validate
    <2>2. pc \in Running BY <2>1 DEF Running
    <2>3. pc' \notin Early \cup {"discover", "snapshot"} /\ pc' \notin {"refresh", "finish", "done"}
      BY <1>10, <2>1, QueueStart DEF Early, Publishing
    <2> QED BY <1>0, <1>2, <2>1, <2>2, <2>3
  <1>12. ASSUME NEW s \in {"thumb", "symbols", "startup", "globals"},
                Script(s) \/ (RefuseStartup /\ s = "startup")
         PROVE  SnapInv'
    <2>1. /\ UNCHANGED <<run, ctx, snap, maps, result>> /\ pc = s
          /\ pc' \in {"scrub", After(s)}
      BY <1>12 DEF Script, RefuseStartup
    <2>2. s \in ScriptSet \ {"export"} BY DEF ScriptSet
    <2>3. After(s) \in ScriptSet BY <2>2, QueueNext
    <2>4. pc' \notin Early \cup {"discover", "snapshot"} /\ pc' \notin {"refresh", "finish", "done"}
      BY <1>10, <2>1, <2>3 DEF Early, Publishing
    <2>5. pc \in Running /\ pc \notin {"refresh", "finish", "done"} BY <1>10, <2>1, <2>2
    <2> QED BY <1>0, <1>2, <2>1, <2>4, <2>5
  <1>13. CASE Export \/ ChildFails
    <2>1. /\ UNCHANGED <<run, ctx, snap, maps, result>> /\ pc \in ScriptSet
          /\ pc' \in {"accept", "scrub"}
      BY <1>13, TheScripts DEF Export, ChildFails, ScriptSet
    <2>2. pc \in Running /\ pc \notin {"refresh", "finish", "done"} BY <1>10, <2>1
    <2> QED BY <1>0, <1>2, <2>1, <2>2 DEF Early, Publishing
  <1>14. CASE Accept \/ AcceptFails
    <2>1. /\ UNCHANGED <<run, ctx, snap, maps>> /\ pc = "accept"
          /\ \/ result' = "ok" /\ pc' = "refresh"
             \/ result' = result /\ pc' = "scrub"
      BY <1>14 DEF Accept, AcceptFails
    <2>2. pc \in Running BY <2>1 DEF Running
    <2> QED BY <1>0, <1>2, <2>1, <2>2 DEF Early, Publishing
  <1>15. CASE Refresh \/ Finish
    <2>1. /\ UNCHANGED <<run, ctx, snap, maps, result>> /\ pc' \in {"finish", "done"}
      BY <1>15 DEF Refresh, Finish
    <2> QED BY <1>0, <1>2, <2>1 DEF Early, Publishing
  <1>16. CASE StartRun \/ Crash
    <2>1. /\ snap' = None /\ result' = "none" /\ maps'.sym = None
          /\ pc' \in {"generate", "done"}
      BY <1>16 DEF StartRun, Crash, Forget
    <2> QED BY <2>1 DEF SnapInv, Running, ScriptSet
  <1>17. CASE Alter \/ UNCHANGED vars
    <2>1. UNCHANGED <<run, ctx, snap, maps, result, pc>> BY <1>17 DEF Alter, vars
    <2> QED BY <1>0, <2>1 DEF SnapInv
  <1> QED BY <1>3, <1>4, <1>5, <1>6, <1>7, <1>8, <1>9, <1>11, <1>12, <1>13, <1>14,
             <1>15, <1>16, <1>17, Zenon DEF Next

-----------------------------------------------------------------------------
(* The scripts.                                                            *)

\* What a script reads and what it is promised hang on the snapshot and the
\* maps alone, the global maps apart.
LEMMA SameKnown ==
    ASSUME UNCHANGED <<snap, maps>>
    PROVE  /\ Asked' = Asked
           /\ \A s : /\ Scheduled(s)' = Scheduled(s) /\ Before(s)' = Before(s)
                     /\ Reads(s)' = Reads(s)
           /\ \A f : f # "globals" => Expected(f)' = Expected(f)
  <1>1. \A s : Scheduled(s)' = Scheduled(s) BY DEF Scheduled
  <1>2. Asked' = Asked BY <1>1 DEF Asked
  <1>3. \A s : Before(s)' = Before(s) BY <1>2 DEF Before
  <1>4. \A m : HasLeaf(m)' = HasLeaf(m) /\ Identity(m)' = Identity(m)
    BY DEF HasLeaf, Identity
  <1>5. \A m : Under(m)' = Under(m) BY <1>4 DEF Under
  <1>6. \A s : Reads(s)' = Reads(s) BY <1>5 DEF Reads
  <1>7. \A f : f # "globals" => Expected(f)' = Expected(f) BY <1>4 DEF Expected
  <1> QED BY <1>1, <1>2, <1>3, <1>6, <1>7

\* A script reads files; a refusal is not one.
LEMMA ReadsFiles ==
    \A s \in ScriptSet : /\ "refused" \notin Reads(s)
                         /\ s = "startup" => "functions" \in Reads(s)
  BY DEF Reads, Under, ScriptSet

\* One more script has been run.
LEMMA AppliedWith ==
    ASSUME NEW s, NEW what, Applied(s, what)
    PROVE  /\ DOMAIN applied' = DOMAIN applied \cup {s}
           /\ applied'[s] = what
           /\ \A x \in DOMAIN applied \ {s} : applied'[x] = applied[x]
  BY DEF Applied

LEMMA AppliedStep == ShapeInv /\ SnapInv /\ AppliedInv /\ [Next]_vars => AppliedInv'
  <1> SUFFICES ASSUME ShapeInv, SnapInv, AppliedInv, [Next]_vars PROVE AppliedInv'
    OBVIOUS
  <1> USE DEF setup, disk, pass1, second
  <1> DEFINE Before2 == Early \cup {"discover", "snapshot", "maps", "bind", "begin", "validate"}
  <1>0. /\ "startup" \in DOMAIN prog
        /\ pc \in Before2 \/ snap = None => applied = NoScript /\ prog.startup = <<>>
        /\ pc \in ScriptSet => Scheduled(pc) /\ DOMAIN applied = Before(pc)
        /\ pc \in {"accept", "refresh"} \/ result = "ok" => DOMAIN applied = Asked
        /\ applied = NoScript \/ DOMAIN applied \subseteq Asked
        /\ \A s \in DOMAIN applied :
             \/ s = "startup" /\ applied[s] = Refused /\ prog.startup = <<>>
             \/ ReadsWell(s)
        /\ "startup" \notin DOMAIN applied => prog.startup = <<>>
        /\ "export" \in DOMAIN applied /\ "startup" \in DOMAIN applied =>
             applied["startup"] # Refused
    BY DEF AppliedInv
  <1>1. DOMAIN NoScript = {} BY DEF NoScript
  <1>2. pc \notin {"refresh", "finish", "done"} => result = "none" BY DEF SnapInv
  \* No script has been run.
  <1>3. ASSUME /\ applied' = NoScript /\ "startup" \in DOMAIN prog' /\ prog'.startup = <<>>
               /\ pc' \notin ScriptSet \cup {"accept", "refresh"} /\ result' # "ok"
        PROVE  AppliedInv'
    BY <1>1, <1>3 DEF AppliedInv
  <1>4. ASSUME /\ pc \in Before2 /\ UNCHANGED <<applied, prog, result>>
               /\ pc' \in Before2 \cup {"finish", "done", "scrub"}
        PROVE  AppliedInv'
    <2>1. pc \notin {"refresh", "finish", "done"} BY <1>4 DEF Early, Publishing
    <2>2. pc' \notin ScriptSet \cup {"accept", "refresh"}
      BY <1>4 DEF Early, Publishing, ScriptSet
    <2>3. result' # "ok" BY <1>2, <1>4, <2>1
    <2>4. applied' = NoScript /\ "startup" \in DOMAIN prog' /\ prog'.startup = <<>>
      BY <1>0, <1>4
    <2> QED BY <1>3, <2>2, <2>3, <2>4
  \* The scripts have run, or none of them will.
  <1>5. ASSUME /\ UNCHANGED <<snap, maps, applied, prog>>
               /\ pc' \in Before2 => pc \in Before2
               /\ pc' \in ScriptSet => pc' = pc
               /\ pc' \in {"accept", "refresh"} \/ result' = "ok" =>
                    pc \in {"accept", "refresh"} \/ result = "ok"
        PROVE  AppliedInv'
    <2>1. /\ Asked' = Asked
          /\ \A s : /\ Scheduled(s)' = Scheduled(s) /\ Before(s)' = Before(s)
                    /\ Reads(s)' = Reads(s)
          /\ \A f : f # "globals" => Expected(f)' = Expected(f)
      BY <1>5, SameKnown
    <2>2. \A s : ReadsWell(s) => ReadsWell(s)' BY <1>5, <2>1 DEF ReadsWell
    <2>3. pc' \in ScriptSet => Scheduled(pc)' /\ DOMAIN applied' = Before(pc)'
      <3> SUFFICES ASSUME pc' \in ScriptSet
                   PROVE  Scheduled(pc)' /\ DOMAIN applied' = Before(pc)'
        OBVIOUS
      <3>1. pc' = pc /\ Scheduled(pc) /\ DOMAIN applied = Before(pc) BY <1>0, <1>5
      <3>2. Scheduled(pc)' = Scheduled(pc) /\ Before(pc)' = Before(pc)
        BY <1>5, <2>1, <3>1 DEF Scheduled, Before
      <3> QED BY <1>5, <3>1, <3>2
    <2>4. pc' \in Before2 \/ snap' = None => applied' = NoScript /\ prog'.startup = <<>>
      BY <1>0, <1>5
    <2>5. pc' \in {"accept", "refresh"} \/ result' = "ok" => DOMAIN applied' = Asked'
      BY <1>0, <1>5, <2>1
    <2>6. \A s \in DOMAIN applied' :
             \/ s = "startup" /\ applied'[s] = Refused /\ prog'.startup = <<>>
             \/ ReadsWell(s)'
      BY <1>0, <1>5, <2>2
    <2>7. applied' = NoScript \/ DOMAIN applied' \subseteq Asked' BY <1>0, <1>5, <2>1
    <2>8. /\ "startup" \in DOMAIN prog'
          /\ "startup" \notin DOMAIN applied' => prog'.startup = <<>>
          /\ "export" \in DOMAIN applied' /\ "startup" \in DOMAIN applied' =>
               applied'["startup"] # Refused
      BY <1>0, <1>5
    <2> QED BY <2>3, <2>4, <2>5, <2>6, <2>7, <2>8 DEF AppliedInv
  <1>6. CASE Generate \/ GenerateFails \/ MakeContext \/ DiscoverStartup \/ StartupFails
    BY <1>4, <1>6
       DEF Generate, GenerateFails, MakeContext, DiscoverStartup, StartupFails,
           Early, Publishing
  <1>7. CASE Analyze
    <2>1. /\ pc = "ghidra" /\ pc' = "raw" /\ UNCHANGED <<applied, result>>
          /\ prog' = prog \/ prog' = [raw |-> kit["raw"], startup |-> <<>>]
      BY <1>7 DEF Analyze
    <2>2. pc \in Before2 /\ pc' \in Before2 BY <2>1 DEF Early, Publishing
    <2>3. "startup" \in DOMAIN prog' /\ prog'.startup = <<>> BY <1>0, <2>1, <2>2
    <2>4. applied' = NoScript /\ result' = "none" BY <1>0, <1>2, <2>1, <2>2
    <2> QED BY <1>3, <2>1, <2>3, <2>4 DEF ScriptSet
  <1>8. CASE Marshal \/ MarshalFails
    <2>1. PICK f \in Publishing : \E o \in Endings \ {"pending"} : MarshalOf(f, o)
      BY <1>8, MarshalEffect
    <2>2. pc \in Early /\ pc' \in Early /\ UNCHANGED <<applied, prog, result>>
      BY <2>1 DEF MarshalOf, Early, Publishing, AfterMarshal
    <2> QED BY <1>4, <2>2
  <1>9. CASE BuildSnapshot \/ SnapshotFails \/ PlanMaps \/ Bind \/ Begin
    BY <1>4, <1>9 DEF BuildSnapshot, SnapshotFails, PlanMaps, Bind, Begin
  <1>10. CASE BeginFails
    <2>1. pc = "begin" /\ pc' = "finish" /\ result' = "dirty" /\ UNCHANGED <<applied, prog>>
      BY <1>10 DEF BeginFails
    <2> QED BY <1>0, <1>3, <2>1 DEF ScriptSet
  <1>11. CASE Validate
    <2>1. /\ UNCHANGED <<snap, maps, applied, prog, result>> /\ pc = "validate"
          /\ pc' = Queued(1) \/ pc' = "scrub"
      BY <1>11 DEF Validate
    <2>2. CASE pc' = "scrub" BY <1>4, <2>1, <2>2
    <2>3. CASE pc' = Queued(1)
      <3>1. Queued(1) \in ScriptSet /\ Scheduled(Queued(1)) /\ Before(Queued(1)) = {}
        BY QueueStart
      <3> DEFINE q == Queued(1)
      <3>2. q \in ScriptSet /\ Scheduled(q) /\ Before(q) = {} /\ pc' = q BY <2>3, <3>1
      <3> HIDE DEF q
      <3>3. Scheduled(pc)' /\ Before(pc)' = {}
        BY <2>1, <3>2 DEF Scheduled, Before, Asked
      <3>4. pc' \notin Before2 /\ pc' \notin {"accept", "refresh"}
        BY <3>2 DEF ScriptSet, Early, Publishing
      <3>5. snap' = snap /\ result' = "none" /\ applied' = NoScript /\ prog'.startup = <<>>
            /\ "startup" \in DOMAIN prog'
        BY <1>0, <1>2, <2>1
      <3> QED BY <1>1, <3>3, <3>4, <3>5 DEF AppliedInv
    <2> QED BY <2>1, <2>2, <2>3
  \* A script has read what it was promised, or has refused.
  <1>12. ASSUME NEW s \in ScriptSet, NEW what, Applied(s, what), pc = s,
                UNCHANGED <<snap, maps, result>>,
                "startup" \in DOMAIN prog',
                pc' = IF s = "export" THEN "accept" ELSE After(s),
                \/ s = "startup" /\ what = Refused /\ prog' = prog
                \/ /\ DOMAIN what = Reads(s)
                   /\ \A f \in Reads(s) \ {"globals"} : what[f] = Expected(f)
                   /\ s # "startup" => prog' = prog,
                s = "export" /\ "startup" \in DOMAIN applied => applied["startup"] # Refused
         PROVE  AppliedInv'
    <2>1. /\ DOMAIN applied' = DOMAIN applied \cup {s}
          /\ applied'[s] = what
          /\ \A x \in DOMAIN applied \ {s} : applied'[x] = applied[x]
      BY <1>12, AppliedWith
    <2>2. Scheduled(s) /\ DOMAIN applied = Before(s) /\ s \notin DOMAIN applied
      BY <1>0, <1>12, BeforeFacts
    <2>3. /\ Asked' = Asked
          /\ \A x : /\ Scheduled(x)' = Scheduled(x) /\ Before(x)' = Before(x)
                    /\ Reads(x)' = Reads(x)
          /\ \A f : f # "globals" => Expected(f)' = Expected(f)
      BY <1>12, SameKnown
    <2>4. s \in Asked /\ Before(s) \subseteq Asked BY <2>2 DEF Asked, Before
    <2>5. DOMAIN applied' \subseteq Asked' BY <2>1, <2>2, <2>3, <2>4
    <2>6. pc' \in ScriptSet => Scheduled(pc)' /\ DOMAIN applied' = Before(pc)'
      <3> SUFFICES ASSUME pc' \in ScriptSet
                   PROVE  Scheduled(pc)' /\ DOMAIN applied' = Before(pc)'
        OBVIOUS
      <3>1. s # "export" /\ pc' = After(s) BY <1>12 DEF ScriptSet
      <3> DEFINE q == After(s)
      <3>2. q \in ScriptSet /\ Scheduled(q) /\ Before(q) = Before(s) \cup {s} /\ pc' = q
        BY <2>2, <3>1, QueueNext
      <3> HIDE DEF q
      <3>3. Scheduled(pc)' /\ Before(pc)' = Before(q)
        BY <1>12, <3>2 DEF Scheduled, Before, Asked
      <3> QED BY <2>1, <2>2, <3>2, <3>3
    <2>7. pc' \in {"accept", "refresh"} => DOMAIN applied' = Asked'
      <3>1. s # "export" => After(s) \in ScriptSet BY QueueNext
      <3>2. pc' \in {"accept", "refresh"} => s = "export" BY <1>12, <3>1 DEF ScriptSet
      <3> QED BY <2>1, <2>2, <2>3, <3>2, QueueEnd
    <2>8. result' # "ok"
      BY <1>2, <1>12 DEF ScriptSet
    <2>9. pc' \notin Before2 /\ snap' # None
      <3>1. s # "export" => After(s) \in ScriptSet BY QueueNext
      <3>2. pc \in Running BY <1>12 DEF Running
      <3> QED BY <1>12, <3>1, <3>2 DEF ScriptSet, Early, Publishing, SnapInv
    <2>10. ASSUME NEW x \in DOMAIN applied'
           PROVE  \/ x = "startup" /\ applied'[x] = Refused /\ prog'.startup = <<>>
                  \/ ReadsWell(x)'
      <3>1. CASE x = s
        <4>1. CASE s = "startup" /\ what = Refused /\ prog' = prog
          <5>1. prog.startup = <<>> BY <1>0, <2>2, <4>1
          <5> QED BY <2>1, <3>1, <4>1, <5>1
        <4>2. CASE /\ DOMAIN what = Reads(s)
                   /\ \A f \in Reads(s) \ {"globals"} : what[f] = Expected(f)
          BY <2>1, <2>3, <3>1, <4>2 DEF ReadsWell
        <4> QED BY <1>12, <4>1, <4>2
      <3>2. CASE x # s
        <4>1. x \in DOMAIN applied /\ applied'[x] = applied[x] BY <2>1, <2>10, <3>2
        <4>2. CASE x = "startup" /\ applied[x] = Refused /\ prog.startup = <<>>
          <5>1. prog' = prog BY <1>12, <3>2, <4>2
          <5> QED BY <4>1, <4>2, <5>1
        <4>3. CASE ReadsWell(x) BY <2>3, <4>1, <4>3 DEF ReadsWell
        <4> QED BY <1>0, <4>1, <4>2, <4>3
      <3> QED BY <3>1, <3>2
    <2>11. "startup" \notin DOMAIN applied' => prog'.startup = <<>>
      BY <1>0, <1>12, <2>1
    <2>12. "export" \in DOMAIN applied' /\ "startup" \in DOMAIN applied' =>
             applied'["startup"] # Refused
      <3> SUFFICES ASSUME "export" \in DOMAIN applied', "startup" \in DOMAIN applied'
                   PROVE  applied'["startup"] # Refused
        OBVIOUS
      <3>1. CASE s = "export" BY <1>12, <2>1, <3>1
      <3>2. CASE s # "export"
        <4>1. "export" \in Before(s) BY <2>1, <2>2, <3>2
        <4> QED BY <4>1, TheScripts DEF Before
      <3> QED BY <3>1, <3>2
    <2> QED BY <1>12, <2>5, <2>6, <2>7, <2>8, <2>9, <2>10, <2>11, <2>12 DEF AppliedInv
  <1>13. \A s \in ScriptSet : s \notin Before2 /\ s \notin {"accept", "refresh"}
    BY DEF ScriptSet, Early, Publishing
  <1>14. ASSUME NEW s \in {"thumb", "symbols", "startup", "globals"}, Script(s)
         PROVE  AppliedInv'
    <2>1. pc = s /\ s \in ScriptSet /\ s # "export" /\ UNCHANGED <<snap, maps, result>>
      BY <1>14 DEF Script, ScriptSet
    <2>2. CASE Opens(s)
      <3>1. /\ Applied(s, Given(s)) /\ pc' = After(s)
            /\ prog' = IF s = "startup" THEN [prog EXCEPT !.startup = kit["startup"]] ELSE prog
        BY <1>14, <2>2 DEF Script
      <3>2. /\ DOMAIN Given(s) = Reads(s)
            /\ \A f \in Reads(s) \ {"globals"} : Given(s)[f] = Expected(f)
        BY <2>2 DEF Given, Opens
      <3>3. "startup" \in DOMAIN prog' /\ (s # "startup" => prog' = prog) BY <1>0, <3>1
      <3> QED BY <1>12, <2>1, <3>1, <3>2, <3>3
    <2>3. CASE ~Opens(s)
      <3>1. UNCHANGED <<prog, applied>> /\ pc' = "scrub" BY <1>14, <2>3 DEF Script
      <3>2. pc \notin {"refresh", "finish", "done"} BY <2>1 DEF ScriptSet
      <3>3. result' # "ok" BY <1>2, <2>1, <3>2
      <3> QED BY <1>5, <1>13, <2>1, <3>1, <3>3 DEF ScriptSet, Early, Publishing
    <2> QED BY <2>2, <2>3
  <1>15. CASE RefuseStartup
    <2>1. /\ pc = "startup" /\ "startup" \in ScriptSet /\ UNCHANGED <<snap, maps, result, prog>>
          /\ Applied("startup", Refused) /\ pc' = After("startup")
      BY <1>15 DEF RefuseStartup, ScriptSet
    <2> QED BY <1>0, <1>12, <2>1
  <1>16. CASE Export
    <2>1. /\ pc = "export" /\ "export" \in ScriptSet /\ UNCHANGED <<snap, maps, result, prog>>
      BY <1>16 DEF Export, ScriptSet
    <2>2. CASE Opens("export") /\ prog.startup = Identity("startup")
      <3>1. Applied("export", Given("export")) /\ pc' = "accept"
        BY <1>16, <2>2 DEF Export
      <3>2. /\ DOMAIN Given("export") = Reads("export")
            /\ \A f \in Reads("export") \ {"globals"} : Given("export")[f] = Expected(f)
        BY <2>2 DEF Given, Opens
      <3>3. ASSUME "startup" \in DOMAIN applied PROVE applied["startup"] # Refused
        <4> SUFFICES ASSUME applied["startup"] = Refused PROVE FALSE
          OBVIOUS
        <4>1. prog.startup = <<>>
          <5>1. DOMAIN Refused = {"refused"} BY DEF Refused
          <5>2. "refused" \notin Reads("startup") BY ReadsFiles DEF ScriptSet
          <5>3. ~ReadsWell("startup") BY <5>1, <5>2 DEF ReadsWell
          <5> QED BY <1>0, <3>3, <5>3
        <4>2. "startup" \in Asked BY <1>0, <2>1, <3>3 DEF Before
        <4>3. IsPresent(snap.startup) BY <4>2 DEF Asked, Scheduled
        <4>4. snap \in Contexts
          <5>1. pc \in Running BY <2>1 DEF Running
          <5> QED BY <5>1 DEF SnapInv, ShapeInv
        <4>5. PICK q \in Quads : snap.startup = Present(q)
          BY <4>3, <4>4, TheStates DEF Contexts
        <4>6. prog.startup = q BY <2>2, <4>5, TheStates DEF Identity
        <4>7. PICK a \in Contents, b \in Contents, c \in Contents, d \in Contents :
                q = <<a, b, c, d>>
          BY DEF Quads
        <4>8. Len(q) = 4 BY <4>7
        <4>9. q = <<>> BY <4>1, <4>6
        <4> QED BY <4>8, <4>9
      <3> QED BY <1>0, <1>12, <2>1, <3>1, <3>2, <3>3
    <2>3. CASE ~(Opens("export") /\ prog.startup = Identity("startup"))
      <3>1. UNCHANGED applied /\ pc' = "scrub" BY <1>16, <2>3 DEF Export
      <3>2. result' # "ok" BY <1>2, <2>1
      <3> QED BY <1>5, <1>13, <2>1, <3>1, <3>2 DEF ScriptSet, Early, Publishing
    <2> QED BY <2>2, <2>3
  <1>17. CASE ChildFails
    <2>1. /\ pc \in ScriptSet /\ pc' = "scrub" /\ UNCHANGED <<snap, maps, applied, prog, result>>
      BY <1>17, TheScripts DEF ChildFails, ScriptSet
    <2>2. result' # "ok" BY <1>2, <2>1 DEF ScriptSet
    <2> QED BY <1>5, <2>1, <2>2 DEF ScriptSet, Early, Publishing
  <1>18. CASE Accept \/ AcceptFails
    BY <1>2, <1>5, <1>18 DEF Accept, AcceptFails, ScriptSet, Early, Publishing
  <1>19. CASE Scrub \/ ScrubFails
    BY <1>5, <1>19 DEF Scrub, ScrubFails, ScriptSet, Early, Publishing
  <1>20. CASE Refresh \/ Finish
    BY <1>5, <1>20 DEF Refresh, Finish, ScriptSet, Early, Publishing
  <1>21. CASE StartRun \/ Crash
    <2>1. Forget /\ pc' \in {"generate", "done"} BY <1>21 DEF StartRun, Crash
    <2> QED BY <1>3, <2>1 DEF Forget, ScriptSet
  <1>22. CASE Alter \/ UNCHANGED vars
    <2>1. UNCHANGED <<snap, maps, applied, prog, pc, result>> BY <1>22 DEF Alter, vars
    <2> QED BY <1>5, <2>1
  <1> QED BY <1>6, <1>7, <1>8, <1>9, <1>10, <1>11, <1>14, <1>15, <1>16, <1>17, <1>18,
             <1>19, <1>20, <1>21, <1>22, Zenon DEF Next

-----------------------------------------------------------------------------
(* The theorems.                                                           *)

LEMMA Start == Init => IInv
  <1> SUFFICES ASSUME Init PROVE IInv OBVIOUS
  <1>1. ShapeInv BY ShapeStart
  <1>2. /\ pc = "generate" /\ ctx = None /\ snap = None /\ result = "none"
        /\ applied = NoScript /\ prog = [raw |-> 0, startup |-> <<>>]
        /\ maps.sym = None /\ out = NoOutcome
        /\ kit = [[f \in Files |-> Gone(f)] EXCEPT !["raw"] = ver]
    BY DEF Init
  <1>3. \A f \in Manifests \cup {"raw", "functions"} : out[f] = "pending"
    BY <1>2 DEF NoOutcome
  <1>4. {"raw", "scatter", "exc", "pal", "msg", "functions"} \subseteq
           Manifests \cup {"raw", "functions"}
    BY DEF Manifests
  <1>5. kit["raw"] = ver
    <2>1. "raw" \in Files BY TheFiles
    <2> QED BY <1>2, <2>1
  <1>6. FoundInv BY <1>2 DEF FoundInv
  <1>7. KitInv BY <1>2, <1>5 DEF KitInv
  <1>8. OutInv BY <1>2, <1>3, <1>4 DEF OutInv, ToCome
  <1>9. CtxInv /\ ContextIsThisRuns BY <1>2 DEF CtxInv, ContextIsThisRuns
  <1>10. SnapInv BY <1>2 DEF SnapInv, Running, ScriptSet
  <1>11. DOMAIN NoScript = {} BY DEF NoScript
  <1>12. AppliedInv BY <1>2, <1>11 DEF AppliedInv, ScriptSet
  <1>13. ManifestsBindTerminalFiles BY <1>3, <1>4 DEF ManifestsBindTerminalFiles
  <1> QED BY <1>1, <1>6, <1>7, <1>8, <1>9, <1>10, <1>12, <1>13 DEF IInv

\* The inductive invariant holds of every reachable state.
THEOREM Invariance == Spec => []IInv
  <1>1. IInv /\ [Next]_vars => IInv'
    BY ShapeStep, FoundStep, KitStep, OutStep, CtxStep, SnapStep, AppliedStep DEF IInv
  <1> QED BY <1>1, Start, PTL DEF Spec

\* However the earlier runs ended and whatever was altered since: a context
\* speaks of the manifests that this run generated, of their absence in the
\* image's directory, and of one raw image.
THEOREM ContextSpeaksOfThisRun == Spec => []ContextIsThisRuns
  <1>1. IInv => ContextIsThisRuns BY DEF IInv
  <1> QED BY <1>1, Invariance, PTL

\* A manifest that is reported as published lies over the raw image and the
\* scatter map that it was derived from.
THEOREM PublishedManifestsBind == Spec => []ManifestsBindTerminalFiles
  <1>1. IInv => ManifestsBindTerminalFiles BY DEF IInv
  <1> QED BY <1>1, Invariance, PTL

\* What the scripts of an accepted second pass read is what the context
\* bound, and two of them that read the same file read the same bytes.
THEOREM AppliedWhatWasBound == Spec => []AppliedIsBound
  <1>1. IInv => AppliedIsBound
    <2> SUFFICES ASSUME IInv, result = "ok" PROVE AppliedIsBound
      BY DEF AppliedIsBound
    <2>1. ShapeInv /\ SnapInv /\ AppliedInv /\ ContextIsThisRuns BY DEF IInv
    <2>2. DOMAIN applied = Asked BY <2>1 DEF AppliedInv
    <2>3. snap = ctx /\ ctx # None BY <2>1 DEF SnapInv
    <2>4. Asked = {Scripts[i] : i \in {j \in 1 .. Len(Scripts) : Scheduled(Scripts[j])}}
      <3>1. ASSUME NEW s \in Asked
            PROVE  s \in {Scripts[i] : i \in {j \in 1 .. Len(Scripts) : Scheduled(Scripts[j])}}
        <4>1. PICK i \in 1 .. 5 : Scripts[i] = s BY TheScripts DEF Asked
        <4>2. Scheduled(Scripts[i]) BY <4>1 DEF Asked
        <4> QED BY <4>1, <4>2, TheScripts
      <3>2. ASSUME NEW i \in 1 .. Len(Scripts), Scheduled(Scripts[i])
            PROVE  Scripts[i] \in Asked
        BY <3>2, TheScripts DEF Asked
      <3> QED BY <3>1, <3>2
    <2>5. "export" \in Asked BY DEF Asked, ScriptSet, Scheduled
    <2>6. \A s \in Asked : ReadsWell(s)
      BY <2>1, <2>2, <2>5 DEF AppliedInv
    <2>7. \A m \in {"scatter", "exc", "pal"} : IsPresent(ctx[m]) => Digest(ctx[m]) = ver
      <3> SUFFICES ASSUME NEW m \in {"scatter", "exc", "pal"}, IsPresent(ctx[m])
                   PROVE  Digest(ctx[m]) = ver
        OBVIOUS
      <3>1. IsPresent(Found(m)) /\ ctx[m] = Found(m)
        BY <2>1, <2>3, TheStates DEF ContextIsThisRuns
      <3>2. Found(m) = Present(ver) BY <2>1, <3>1, FoundState DEF ShapeInv
      <3> QED BY <3>1, <3>2, TheStates
    <2>8. ASSUME NEW s \in Asked, s # "globals", NEW f \in Reads(s)
          PROVE  /\ f \in {"scatter", "exc", "pal"} => IsPresent(ctx[f])
                 /\ f = "startup" => IsPresent(ctx.startup)
                 /\ f = "map" => maps.sym # None
                 /\ f # "globals"
      <3>1. \A m \in {"exc", "pal", "startup"} : \A g \in Under(m) :
              /\ IsPresent(ctx[m])
              /\ g = m \/ g = "raw" \/ (g = "scatter" /\ IsPresent(ctx["scatter"]))
        BY <2>3 DEF Under, HasLeaf
      <3>2. \/ f \in {"map", "functions"} /\ (f = "map" => maps.sym # None)
            \/ \E m \in {"exc", "pal", "startup"} : f \in Under(m)
        BY <2>8 DEF Reads, Asked, ScriptSet, Scheduled
      <3>3. CASE f \in {"map", "functions"} /\ (f = "map" => maps.sym # None)
        BY <3>3
      <3>4. ASSUME NEW m \in {"exc", "pal", "startup"}, f \in Under(m)
            PROVE  /\ f \in {"scatter", "exc", "pal"} => IsPresent(ctx[f])
                   /\ f = "startup" => IsPresent(ctx.startup)
                   /\ f = "map" => maps.sym # None
                   /\ f # "globals"
        BY <3>1, <3>4
      <3> QED BY <3>2, <3>3, <3>4
    <2>9. ASSUME NEW s \in DOMAIN applied \ {"globals"}, NEW f \in DOMAIN applied[s]
          PROVE  CASE f \in {"scatter", "exc", "pal"} -> applied[s][f] = ver
                   [] f = "raw" -> applied[s][f] = ctx.raw
                   [] f = "startup" -> applied[s][f] = ctx.startup[2]
                   [] f = "map" -> applied[s][f] = run
                   [] OTHER -> \A t \in {x \in DOMAIN applied : f \in DOMAIN applied[x]} :
                                   applied[s][f] = applied[t][f]
      <3>1. s \in Asked /\ s # "globals" /\ f \in Reads(s)
        BY <2>2, <2>6, <2>9 DEF ReadsWell
      <3>2. /\ f \in {"scatter", "exc", "pal"} => IsPresent(ctx[f])
            /\ f = "startup" => IsPresent(ctx.startup)
            /\ f = "map" => maps.sym # None
            /\ f # "globals"
        BY <2>8, <3>1
      <3>3. applied[s][f] = Expected(f) BY <2>6, <3>1, <3>2 DEF ReadsWell
      <3>4. CASE f \in {"scatter", "exc", "pal"}
        <4>1. Expected(f) = Digest(ctx[f]) BY <2>3, <3>4 DEF Expected, Identity
        <4> QED BY <2>7, <3>2, <3>3, <3>4, <4>1
      <3>5. CASE f = "raw"
        <4>1. Expected(f) = ctx.raw BY <2>3, <3>5 DEF Expected, Identity
        <4> QED BY <3>3, <3>5, <4>1
      <3>6. CASE f = "startup"
        <4>1. Expected(f) = ctx.startup[2]
          BY <2>3, <3>2, <3>6 DEF Expected, Identity, TupleDigest
        <4> QED BY <3>3, <3>6, <4>1
      <3>7. CASE f = "map"
        <4>1. Expected(f) = run BY <2>1, <3>2, <3>7 DEF Expected, SnapInv
        <4> QED BY <3>3, <3>7, <4>1
      <3>8. CASE f \notin {"scatter", "exc", "pal", "raw", "startup", "map"}
        <4>1. \A t \in DOMAIN applied : f \in DOMAIN applied[t] => applied[t][f] = Expected(f)
          BY <2>2, <2>6, <3>2 DEF ReadsWell
        <4> QED BY <3>3, <3>8, <4>1
      <3> QED BY <3>4, <3>5, <3>6, <3>7, <3>8
    <2> QED BY <2>2, <2>4, <2>9 DEF AppliedIsBound
  <1> QED BY <1>1, Invariance, PTL

\* A second pass that failed left no export in the kit and the first pass's
\* inventory in the image's directory; one that succeeded refused nothing.
THEOREM SecondPassAllOrNothing == Spec => []SecondPassOK
  <1>1. IInv => TypeOK
    <2> SUFFICES ASSUME IInv PROVE TypeOK OBVIOUS
    <2>1. ShapeInv /\ AppliedInv BY DEF IInv
    <2>2. ASSUME NEW d, Shaped(d) PROVE DiskOK(d)
      BY <2>2 DEF Shaped, DiskOK, Disks
    <2>3. DOMAIN applied \subseteq {Scripts[i] : i \in 1 .. Len(Scripts)}
      <3>1. DOMAIN NoScript = {} BY DEF NoScript
      <3>2. DOMAIN applied \subseteq ScriptSet BY <2>1, <3>1 DEF AppliedInv, Asked
      <3> QED BY <3>2, TheScripts
    <2>4. maps.sym # None => /\ maps.sym.map \in 1 .. MaxRuns
                             /\ maps.sym.functions \in Contents \ {0}
      BY <2>1 DEF ShapeInv, Plans
    <2>5. \A m \in Manifests : st[m] \in StatesOf(m)
      BY <2>1 DEF ShapeInv, States, StatesOf
    <2>6. DOMAIN out = DOMAIN NoOutcome BY <2>1 DEF ShapeInv, NoOutcome
    <2> QED BY <2>1, <2>2, <2>3, <2>4, <2>5, <2>6 DEF TypeOK, ShapeInv
  <1>2. IInv => SecondPassIsAllOrNothing
    <2> SUFFICES ASSUME IInv PROVE SecondPassIsAllOrNothing OBVIOUS
    <2>1. KitInv /\ CtxInv /\ SnapInv /\ AppliedInv BY DEF IInv
    <2>2. ASSUME result = "failed"
          PROVE  /\ kit["functions"] = 0 /\ kit["marker"] = <<>>
                 /\ term["functions"] \in {run, -1}
      <3>1. ctx # None BY <2>1, <2>2 DEF SnapInv
      <3> QED BY <2>1, <2>2, <3>1 DEF KitInv, CtxInv
    <2>3. ASSUME result = "ok", NEW s \in DOMAIN applied PROVE applied[s] # Refused
      <3>1. DOMAIN applied = Asked BY <2>1, <2>3 DEF AppliedInv
      <3>2. "export" \in Asked /\ s \in ScriptSet
        BY <2>3, <3>1 DEF Asked, ScriptSet, Scheduled
      <3>3. CASE s = "startup" BY <2>1, <2>3, <3>1, <3>2, <3>3 DEF AppliedInv
      <3>4. CASE s # "startup"
        <4>1. ReadsWell(s) BY <2>1, <2>3, <3>4 DEF AppliedInv
        <4>2. DOMAIN Refused = {"refused"} BY DEF Refused
        <4>3. "refused" \notin DOMAIN applied[s]
          BY <3>2, <4>1, ReadsFiles DEF ReadsWell
        <4> QED BY <4>2, <4>3
      <3> QED BY <3>3, <3>4
    <2> QED BY <2>2, <2>3 DEF SecondPassIsAllOrNothing
  <1>3. IInv => SecondPassOK BY <1>1, <1>2 DEF SecondPassOK
  <1> QED BY <1>3, Invariance, PTL
=============================================================================
