------------------------------ MODULE SymbolPass ------------------------------
(***************************************************************************)
(* The function names of one image in the second pass: the symbol map that *)
(* src/symbolicate.rs plans from the evidence and the names of pass 1, the *)
(* Ghidra scripts that apply it to the saved project, and the refresh that *)
(* takes the export over.                                                  *)
(*                                                                         *)
(* Two sides decide who may be renamed. The planner authorizes from the    *)
(* retained records; the scripts check every decision again against the    *)
(* program and its ownership registries, and any disagreement fails the    *)
(* whole image. Ghidra changes names of its own accord: a thunk without a  *)
(* name of its own shows its target's. And the project may be saved after  *)
(* some of the scripts: the same map has to apply to what they left.       *)
(*                                                                         *)
(* A name is a pair <<stem, entry>>, entry 0 when the name does not embed  *)
(* one. A digest of a name is the name. Bodies do not drift and no tool    *)
(* edits the project between runs, so the checks of bodies, labels and     *)
(* comments always pass and are left out. The driver imports the image     *)
(* again before it plans, so a map never has a predecessor; a second run   *)
(* of the same map over the saved project is what the scripts and the      *)
(* refresh are written to accept.                                          *)
(*                                                                         *)
(* Exception roots and tasks are applied before the analysis, so the only  *)
(* primary that a task can find and preserve is an exception role's, and   *)
(* the entry counts as that role's. A task name shared by several tasks is *)
(* proposed by none of them, and is what the entry has: the same decision  *)
(* as a proposal of it. ApplyStartupMetadata names nothing: it runs after  *)
(* ApplySymbols and registers the names that it finds.                     *)
(***************************************************************************)
EXTENDS Integers, Sequences, FiniteSets

CONSTANTS
    Known,          \* entries of the functions that pass 1 exported
    Fresh,          \* entries only the Thumb producers found
    Inventories,    \* pass-1 inventories: Known -> [src, stem, role, thunk]
    Proofs,         \* naming evidence: Known \cup Fresh -> Evidence
    MaxRuns         \* bound: runs of the scripts over one saved project

ASSUME PassAssumption ==
    /\ Known \subseteq Nat \ {0} /\ Fresh \subseteq Nat \ {0}
    /\ IsFiniteSet(Known) /\ IsFiniteSet(Fresh)
    /\ Known \cap Fresh = {} /\ MaxRuns \in Nat

VARIABLES
    inv,            \* the functions of pass 1
    evid,           \* what symbolicate found out about each entry
    blocked,        \* named entries of Fresh that another function's code overlaps
    map,            \* the symbol map
    prog,           \* the program the scripts work on
    saved,          \* the program in the project
    start,          \* the program when the current script began
    pc,             \* the script that runs
    queue,          \* the renames it has still to apply
    summary,        \* ApplyThumbNames' counts
    tree,           \* functions of the published functions.json
    refresh,        \* how the last refresh ended
    runs

vars == <<inv, evid, blocked, map, prog, saved, start, pc, queue, summary, tree,
          refresh, runs>>

Entries == Known \cup Fresh
Roles   == {"none", "exc_owned", "exc_kept", "pal_owned"}

\* What says an entry's name, strongest first; the role of an exception or a
\* task stands between ss and startup. Only tokens can propose two names for
\* one function, so of the guesses it matters how many there are.
IsEvidence(v) ==
    /\ DOMAIN v = {"func", "reg", "ss", "startup", "guesses"}
    /\ v.guesses \in Nat
ASSUME EvidenceAssumption ==
    \A v \in Proofs : \A e \in Entries : IsEvidence(v[e])

\* Thunk targets are numbered below their thunks. The scripts of pass 1 name
\* what a role owns, with the source of their own analysis.
ASSUME InventoryAssumption == \A i \in Inventories : \A e \in Known :
    /\ i[e].src \in {"default", "analysis", "imported"}
    /\ i[e].role \in Roles
    /\ i[e].role \in {"exc_owned", "pal_owned"} => i[e].src = "analysis"
    /\ i[e].thunk \in Known \cup {0} /\ i[e].thunk < e

(***************************************************************************)
(* Names                                                                   *)
(***************************************************************************)
Default(e) == <<"FUN", e>>

\* Where the way from e along the links `next` ends; a link leads down.
EndOf(next, e) ==
    LET end[n \in 0 .. e] ==
            IF n \in DOMAIN next /\ next[n] \in 1 .. (n - 1) THEN end[next[n]]
            ELSE n
    IN  end[e]

\* A function without a name of its own shows its thunk target's.
Unnamed(fn) == [f \in DOMAIN fn |-> IF fn[f].src = "default" THEN fn[f].thunk ELSE 0]
Shown(fn, e) ==
    LET f == EndOf(Unnamed(fn), e)
    IN  IF fn[f].src = "default" THEN Default(f) ELSE fn[f].name

Primary(fn, e) == <<Shown(fn, e), fn[e].src>>

\* The function table of pass 1, with the names the roles gave.
Pass1 == [e \in Known |->
    [name  |-> IF inv[e].role \in {"exc_owned", "pal_owned"} THEN <<"role", e>>
               ELSE IF inv[e].src = "default" THEN Default(e)
               ELSE <<inv[e].stem, 0>>,
     src   |-> inv[e].src,
     thunk |-> inv[e].thunk]]
Original(e) == Primary(Pass1, e)

\* is_real_name
RealName(name) == name[1] \notin {"FUN", "guess"}

RoleOwns(e) == e \in Known /\ inv[e].role \in {"exc_owned", "pal_owned"}

\* Or startup metadata ask for the name that it has.
OwnsName(e) ==
    \/ RoleOwns(e)
    \/ evid[e].startup # "none" /\ Original(e)[1] = <<evid[e].startup, 0>>

\* registration_for_record: not for a primary that is a name already,
\* unless a role owns it. The other ranks ask nothing of the primary.
Registered(e) ==
    /\ evid[e].reg # "none"
    /\ e \in Known => OwnsName(e) \/ ~RealName(Original(e)[1])

\* The name that the firmware gives: __func__, a registration, ss.
Found(e) ==
    IF evid[e].func # "none" THEN evid[e].func
    ELSE IF Registered(e) THEN evid[e].reg
    ELSE evid[e].ss

\* The source that a name of each tier gets in Ghidra.
None == <<"none", 0>>
Recovered == "user_defined"
Provisional == "analysis"

HasRole(e) == e \in Known /\ inv[e].role # "none"

\* Mutant: a token guess is found before what startup metadata ask for.
MutCandidate(e) ==
    IF Found(e) # "none" THEN [name |-> <<Found(e), 0>>, source |-> Recovered]
    ELSE IF RoleOwns(e) THEN [name |-> <<"role", e>>, source |-> Recovered]
    ELSE IF HasRole(e) THEN [name |-> None, source |-> Provisional]
    ELSE IF evid[e].guesses = 1
    THEN [name |-> <<"guess", e>>, source |-> Provisional]
    ELSE IF evid[e].startup # "none"
    THEN [name |-> <<evid[e].startup, 0>>, source |-> Recovered]
    ELSE [name |-> None, source |-> Provisional]

\* decide: the strongest rank wins. A role that proposes nothing still
\* blocks what is weaker, and two names at one rank name nothing.
Candidate(e) ==
    IF Found(e) # "none" THEN [name |-> <<Found(e), 0>>, source |-> Recovered]
    ELSE IF RoleOwns(e) THEN [name |-> <<"role", e>>, source |-> Recovered]
    ELSE IF HasRole(e) THEN [name |-> None, source |-> Provisional]
    ELSE IF evid[e].startup # "none"
    THEN [name |-> <<evid[e].startup, 0>>, source |-> Recovered]
    ELSE IF evid[e].guesses = 1
    THEN [name |-> <<"guess", e>>, source |-> Provisional]
    ELSE [name |-> None, source |-> Provisional]

\* finalize_names
NameOf(e) ==
    LET c == Candidate(e)
    IN  IF /\ c.name # None /\ c.source = Recovered
           /\ \E d \in Entries \ {e} : Candidate(d).name = c.name
        THEN [c EXCEPT !.name = <<c.name[1], e>>] ELSE c

(***************************************************************************)
(* The symbol map                                                          *)
(***************************************************************************)
Exception(e) == inv[e].role \in {"exc_owned", "exc_kept"}
Differs(e) == NameOf(e).name \notin {None, Original(e)[1]}

\* stronger_exception_authority: ss outranks an exception role as a name,
\* but is no authority to take the primary from it.
Authority(e) == evid[e].func # "none" \/ Registered(e)

ExceptionTransition(e) ==
    /\ inv[e].role = "exc_owned" /\ Authority(e)
    /\ NameOf(e).source = Recovered /\ Differs(e)
PalTransition(e) ==
    inv[e].role = "pal_owned" /\ NameOf(e).source = Recovered /\ Differs(e)

\* rename_authorized
Authorized(e) ==
    \/ ExceptionTransition(e)
    \/ PalTransition(e)
    \/ ~Exception(e) /\ inv[e].src \in {"default", "analysis"}

Renamed == {e \in Known : Differs(e) /\ Authorized(e)}

\* Mutant: only the direct target is looked at.
MutMirrorOf(e) == IF inv[e].thunk \in Renamed THEN inv[e].thunk ELSE 0

\* The nearest renamed target up the thunk chain, 0 when there is none.
MirrorOf(e) ==
    LET kept == [k \in Known |-> IF k \in Renamed THEN 0 ELSE inv[k].thunk]
        f    == EndOf(kept, inv[e].thunk)
    IN  IF f \in Renamed THEN f ELSE 0

Request(e) == <<NameOf(e).name, NameOf(e).source>>
Transition(e) == ExceptionTransition(e) \/ PalTransition(e)

Planned(e) ==
    IF e \in Renamed
    THEN [action |-> "rename", final |-> Request(e), transition |-> Transition(e)]
    ELSE IF ~Exception(e) /\ MirrorOf(e) # 0
    THEN [action |-> "mirror", transition |-> FALSE,
          final  |-> <<NameOf(MirrorOf(e)).name, inv[e].src>>]
    ELSE [action |-> "preserve", transition |-> FALSE, final |-> Original(e)]

\* write_pass2_symbol_map. A creation whose name another function has, or
\* will have, is left out.
SymbolMap ==
    LET decisions == [e \in Known |-> Planned(e)]
        created ==
            {e \in Fresh :
                /\ NameOf(e).name # None
                /\ \A k \in Known : decisions[k].final[1] # NameOf(e).name
                /\ \A f \in Fresh \ {e} : NameOf(f).name # NameOf(e).name}
    IN  [decisions |-> decisions,
         requests  |-> [e \in created |-> Request(e)]]

Decision(e) == map.decisions[e]
Creations   == DOMAIN map.requests
NoMap == [decisions |-> <<>>, requests |-> <<>>]

(***************************************************************************)
(* The program                                                             *)
(***************************************************************************)
\* The registries bind the primary of every role entry.
Imported == [fn |-> Pass1, owned |-> {}, prop |-> "none",
             reg |-> [e \in {k \in Known : inv[k].role # "none"} |->
                         [disp |-> inv[e].role, primary |-> Original(e)]]]

\* ApplyExceptionRoots' and ApplyPalTasks' terminal state: every row binds
\* the current primary of its function (validateApplied,
\* validateAppliedIdentity).
RegistriesHold(p) ==
    \A e \in DOMAIN p.reg : p.reg[e].primary = Primary(p.fn, e)

Transitioned(p) ==
    {e \in DOMAIN p.reg : inv[e].role = "exc_owned" /\ p.reg[e].disp = "pass2_owned"}
Transitions ==
    {e \in Known : Decision(e).transition /\ inv[e].role = "exc_owned"}

\* validateOwnedThumbCreation and its callers: an owned creation still has
\* the primary that was requested; the primary without ownership is foreign.
OwnershipHolds(p) ==
    \A e \in Creations \cup p.owned :
        IF e \in p.owned
        THEN /\ e \in Creations /\ e \in DOMAIN p.fn
             /\ Primary(p.fn, e) = map.requests[e]
        ELSE e \in DOMAIN p.fn => Primary(p.fn, e) # map.requests[e]

\* Pass2MapState.validate(BEFORE_MUTATION)
ValidBefore(p) ==
    /\ RegistriesHold(p) /\ OwnershipHolds(p)
    /\ IF p.prop = "map" THEN Transitioned(p) = Transitions
       ELSE Transitioned(p) = {}

\* Pass2MapState.validate(AFTER_MUTATION), and TERMINAL without the property
ValidAfter(p) ==
    RegistriesHold(p) /\ OwnershipHolds(p) /\ Transitioned(p) = Transitions

\* verifyAndAuthorize
Applied(p, e) == Primary(p.fn, e) = Decision(e).final
Disposition(p, e) == IF e \in DOMAIN p.reg THEN p.reg[e].disp ELSE "none"
Accepts(p, e) ==
    \/ /\ Applied(p, e)
       /\ Decision(e).transition => Disposition(p, e) = "pass2_owned"
    \/ /\ ~Applied(p, e) /\ Primary(p.fn, e) = Original(e)
       /\ Decision(e).action = "rename" =>
            CASE Disposition(p, e) \in {"exc_owned", "pal_owned"} ->
                   Decision(e).transition
              [] Disposition(p, e) = "none"      ->
                   p.fn[e].src \in {"default", "analysis"}
              [] OTHER -> FALSE

\* applyAll's check of every decision
Verified(p, e) ==
    /\ p.fn[e].src = Decision(e).final[2]
    /\ \/ Shown(p.fn, e) = Decision(e).final[1]
       \/ Decision(e).action = "mirror" /\ Shown(p.fn, e) = Original(e)[1]

(***************************************************************************)
(* The scripts                                                             *)
(***************************************************************************)
\* Functions that are no thunks are renamed before the thunks.
Before(d, e) ==
    \/ inv[d].thunk = 0 /\ inv[e].thunk # 0
    \/ (inv[d].thunk = 0 <=> inv[e].thunk = 0) /\ d < e

NoSummary == [created |-> 0, reapplied |-> 0, skipped |-> 0]

Init ==
    /\ inv \in Inventories /\ evid \in Proofs
    /\ blocked \in SUBSET {e \in Fresh : NameOf(e).name # None}
    /\ map = NoMap /\ prog = Imported /\ saved = Imported /\ start = Imported
    /\ pc = "plan" /\ queue = {} /\ summary = NoSummary
    /\ tree = Imported.fn /\ refresh = "none" /\ runs = 0

\* prepare_pass2_symbol_map
PlanMap ==
    /\ pc = "plan" /\ map' = SymbolMap /\ pc' = "idle"
    /\ UNCHANGED <<inv, evid, blocked, prog, saved, start, queue, summary,
                   tree, refresh, runs>>

\* The headless process opens the project.
Launch ==
    /\ pc = "idle" /\ runs < MaxRuns
    /\ runs' = runs + 1 /\ prog' = saved /\ start' = saved
    /\ pc' = "thumb" /\ summary' = NoSummary
    /\ UNCHANGED <<inv, evid, blocked, map, saved, queue, tree, refresh>>

NamesInProgram == {Shown(prog.fn, f) : f \in DOMAIN prog.fn}

\* ApplyThumbNames: classify every creation, then create the planned ones.
Reapplied == {e \in Creations : e \in prog.owned}
Skipped ==
    {e \in Creations \ Reapplied :
        \/ e \in DOMAIN prog.fn \cup blocked
        \/ map.requests[e][1] \in NamesInProgram}
ToCreate == Creations \ (Reapplied \cup Skipped)
Created(e) == [name |-> map.requests[e][1], src |-> map.requests[e][2], thunk |-> 0]

ApplyThumbNames ==
    /\ pc = "thumb" /\ ValidBefore(prog)
    /\ prog' = [prog EXCEPT
                  !.fn = [f \in DOMAIN prog.fn \cup ToCreate |->
                            IF f \in ToCreate THEN Created(f) ELSE prog.fn[f]],
                  !.owned = @ \cup ToCreate]
    /\ summary' = [created   |-> Cardinality(ToCreate),
                   reapplied |-> Cardinality(Reapplied),
                   skipped   |-> Cardinality(Skipped)]
    /\ ValidBefore(prog')
    /\ pc' = "symbols" /\ start' = prog'
    /\ UNCHANGED <<inv, evid, blocked, map, saved, queue, tree, refresh, runs>>

\* ApplySymbols authorizes every decision before it applies the first.
AuthorizeSymbols ==
    /\ pc = "symbols"
    /\ ValidBefore(prog) /\ \A e \in Known : Accepts(prog, e)
    /\ queue' = {e \in Known : /\ Decision(e).action = "rename"
                               /\ Shown(prog.fn, e) # Decision(e).final[1]}
    /\ pc' = "renames"
    /\ UNCHANGED <<inv, evid, blocked, map, prog, saved, start, summary, tree,
                   refresh, runs>>

\* applyOne
RenameOne ==
    /\ pc = "renames"
    /\ \E e \in queue :
         /\ \A d \in queue \ {e} : Before(e, d)
         /\ LET d == Decision(e)
            IN  prog' = [prog EXCEPT
                    !.fn[e].name = d.final[1], !.fn[e].src = d.final[2],
                    !.reg = IF d.transition
                            THEN [@ EXCEPT ![e] = [disp    |-> "pass2_owned",
                                                   primary |-> d.final]]
                            ELSE @]
         /\ queue' = queue \ {e}
    /\ UNCHANGED <<inv, evid, blocked, map, saved, start, pc, summary, tree,
                   refresh, runs>>

\* applyAll's postflight; the property is set last.
FinishSymbols ==
    /\ pc = "renames" /\ queue = {}
    /\ ValidAfter(prog) /\ \A e \in Known : Verified(prog, e)
    /\ prog' = [prog EXCEPT !.prop = "map"]
    /\ pc' = "export" /\ start' = prog'
    /\ UNCHANGED <<inv, evid, blocked, map, saved, queue, summary, tree, refresh,
                   runs>>

\* ExportDecomp validates the terminal state and writes functions.json.
Export ==
    /\ pc = "export" /\ prog.prop = "map" /\ ValidAfter(prog)
    /\ DOMAIN prog.fn \subseteq Known \cup Creations
    /\ pc' = "exported"
    /\ UNCHANGED <<inv, evid, blocked, map, prog, saved, start, queue, summary,
                   tree, refresh, runs>>

\* Ghidra saves the project after the scripts and exits.
Save ==
    /\ pc = "exported" /\ saved' = prog /\ pc' = "refresh"
    /\ UNCHANGED <<inv, evid, blocked, map, prog, start, queue, summary, tree,
                   refresh, runs>>

Refused ==
    \/ pc = "thumb" /\ ~ValidBefore(prog)
    \/ pc = "symbols" /\ ~(ValidBefore(prog) /\ \A e \in Known : Accepts(prog, e))
    \/ /\ pc = "renames" /\ queue = {}
       /\ ~(ValidAfter(prog) /\ \A e \in Known : Verified(prog, e))
    \/ pc = "export" /\ ~(prog.prop = "map" /\ ValidAfter(prog))

\* Mutant: a failed ApplySymbols leaves what it renamed.
MutScriptFailsDirty ==
    /\ pc \in {"thumb", "symbols", "renames", "export"}
    /\ saved' \in {saved, prog}
    /\ pc' = "idle" /\ queue' = {}
    /\ UNCHANGED <<inv, evid, blocked, map, prog, start, summary, tree,
                   refresh, runs>>

\* Mutant: the undo puts back the names of pass 1.
MutScriptFailsPass1 ==
    /\ pc \in {"thumb", "symbols", "renames", "export"}
    /\ prog' = Imported /\ saved' \in {saved, Imported}
    /\ pc' = "idle" /\ queue' = {}
    /\ UNCHANGED <<inv, evid, blocked, map, start, summary, tree, refresh,
                   runs>>

\* A check refuses, a budget runs out or a call into Ghidra fails: the
\* script undoes what it did. What earlier scripts did stays in the program,
\* and the project may be saved with it.
ScriptFails ==
    /\ pc \in {"thumb", "symbols", "renames", "export"}
    /\ prog' = start /\ saved' \in {saved, start}
    /\ pc' = "idle" /\ queue' = {}
    /\ UNCHANGED <<inv, evid, blocked, map, start, summary, tree, refresh, runs>>

\* The driver, the watch or the machine stops the process, or the driver
\* stops after it.
Killed ==
    /\ pc \notin {"plan", "idle"} /\ pc' = "idle" /\ queue' = {}
    /\ UNCHANGED <<inv, evid, blocked, map, prog, saved, start, summary, tree,
                   refresh, runs>>

(***************************************************************************)
(* The refresh                                                             *)
(***************************************************************************)
Exact(fns) ==
    Cardinality({e \in Creations : e \in DOMAIN fns /\ Primary(fns, e) = map.requests[e]})
Size(fns) == Cardinality(DOMAIN fns)

\* validate_image_terminal_inventory without a current inventory to match
FitsAlone(fns, created, reapplied) ==
    /\ Exact(fns) = created + reapplied
    /\ Size(fns) = Cardinality(Known) + created + reapplied

\* ... and with one: every function of it is there, and the functions
\* created are requests.
FitsAfter(fns, before, created, reapplied) ==
    /\ Exact(fns) = created + reapplied
    /\ Size(fns) = Cardinality(Known) + created + reapplied
    /\ DOMAIN before \subseteq DOMAIN fns
    /\ Cardinality(DOMAIN fns \ DOMAIN before) = created
    /\ \A e \in DOMAIN fns \ DOMAIN before :
          e \in Creations /\ Primary(fns, e) = map.requests[e]

\* Mutant: reapplied creations count as pass 1's (no unpublished_replay_view).
MutAccepted ==
    IF FitsAlone(tree, 0, 0)
    THEN FitsAfter(prog.fn, tree, summary.created, summary.reapplied)
    ELSE /\ FitsAlone(tree, summary.reapplied, 0)
         /\ FitsAfter(prog.fn, tree, summary.created, summary.reapplied)

\* refresh_decompiled_with: the tree is pass 1's, or the one that an earlier
\* run of this map left.
Accepted ==
    IF FitsAlone(tree, 0, 0)
    THEN FitsAfter(prog.fn, tree, summary.created + summary.reapplied, 0)
    ELSE /\ FitsAlone(tree, summary.reapplied, 0)
         /\ FitsAfter(prog.fn, tree, summary.created, summary.reapplied)

Refresh ==
    /\ pc = "refresh"
    /\ refresh' = IF Accepted THEN "ok" ELSE "rejected"
    /\ tree' = IF Accepted THEN prog.fn ELSE tree
    /\ pc' = "idle"
    /\ UNCHANGED <<inv, evid, blocked, map, prog, saved, start, queue, summary,
                   runs>>

Stop == pc = "idle" /\ runs = MaxRuns /\ UNCHANGED vars

Next ==
    \/ PlanMap \/ Launch \/ ApplyThumbNames \/ AuthorizeSymbols \/ RenameOne
    \/ FinishSymbols \/ Export \/ Save \/ Refresh
    \/ ScriptFails \/ Killed \/ Stop

Spec == Init /\ [][Next]_vars
(***************************************************************************)
(* Properties                                                              *)
(***************************************************************************)
IsFunction(f) == f.name[2] \in Nat /\ f.src \in {"default", "analysis", "imported",
                                               "user_defined"}
IsProgram(p) ==
    /\ Known \subseteq DOMAIN p.fn /\ DOMAIN p.fn \subseteq Entries
    /\ \A e \in DOMAIN p.fn : IsFunction(p.fn[e])
    /\ p.owned \subseteq Fresh /\ p.prop \in {"none", "map"}
    /\ DOMAIN p.reg \subseteq Known

\* The type invariant; the queue holds renames of functions that pass 1 knew.
TypeOK ==
    /\ \A p \in {prog, saved, start} : IsProgram(p)
    /\ pc \in {"plan", "idle", "thumb", "symbols", "renames", "export",
               "exported", "refresh"}
    /\ queue # {} => pc = "renames"
    /\ queue \subseteq Known /\ \A e \in queue : Decision(e).action = "rename"
    /\ refresh \in {"none", "ok", "rejected"} /\ runs \in 0 .. MaxRuns

\* A saved project has all of the map's names or none: with SymbolPass2 set,
\* every decision holds, thunks included, the registries agree, and no
\* created function shares its name; without it, every pass-1 function still
\* has its pass-1 name, whatever script failed and whenever the project was
\* saved.
SavedIsAllOrNothing ==
    IF saved.prop = "map"
    THEN /\ \A e \in Known : Verified(saved, e)
         /\ ValidAfter(saved)
         /\ \A e \in saved.owned : \A f \in DOMAIN saved.fn \ {e} :
               Shown(saved.fn, f) # Shown(saved.fn, e)
    ELSE \A e \in Known : saved.fn[e] = Pass1[e] /\ RegistriesHold(saved)

\* The saved program is one of the two, and every variable is of its type.
ProgramOK == TypeOK /\ SavedIsAllOrNothing

\* No step, however the map came about, takes a name from someone who was
\* promised it. A name that the firmware or an earlier tool gave stays, and
\* so does what a preserved role entry showed in the export. A task's name
\* yields to a function's own name, a registration or ss, an exception
\* role's to the first two only, though ss outranks both as evidence. Where
\* a name changed, nothing that claims the entry gave way to a weaker claim.
NamesKeepTheirRank ==
    \A e \in {k \in Known : prog.fn[k] # Pass1[k]} :
        LET v     == evid[e]
            Is(S) == prog.fn[e].name[1] \in S \ {"none"}
        IN  /\ inv[e].src # "imported" /\ inv[e].role # "exc_kept"
            /\ v.func # "none" => Is({v.func})
            /\ inv[e].role = "exc_owned" => Is({v.func, v.reg})
            /\ v.ss # "none" \/ inv[e].role = "pal_owned" =>
                  Is({v.func, v.reg, v.ss})
            /\ v.startup # "none" => Is({v.func, v.reg, v.ss, v.startup})
            /\ prog.fn[e].src = Provisional =>
                  v.func = "none" /\ v.ss = "none" /\ v.startup = "none"

\* A later run of the map changes no name that an earlier one saved: it
\* finds its own names and leaves them, and adds at most functions.
ReplayKeepsNames ==
    [][saved.prop = "map" =>
          /\ saved'.prop = "map"
          /\ \A e \in DOMAIN saved.fn : saved'.fn[e] = saved.fn[e]]_vars

\* What the scripts export, the refresh takes over exactly if the tree has
\* none of the functions created before this run or all of them: after a
\* first run, after runs whose project was saved but never published, and
\* after one that was published. The third case exists: a later run finds a
\* name free that a rename gave up, creates one more function, and is saved
\* but not published; from then on no export of this map is taken over.
ExportIsPublishable ==
    pc = "exported" =>
        (Accepted <=> DOMAIN tree \in {Known, DOMAIN saved.fn})

\* Every map that the planner writes is one that the scripts apply: each
\* decision that it authorizes passes the checks of the scripts, over the
\* imported project and over one that an earlier run saved.
EveryMapApplies == ~Refused

\* The one exception: an entry that an exception role shares or preserves
\* gets no mirror decision, though Ghidra shows its renamed target's name.
SharedThunk(e) ==
    inv[e].role = "exc_kept" /\ inv[e].src = "default" /\ MirrorOf(e) # 0
MapsApplyBarSharedThunks == Refused => \E e \in Known : SharedThunk(e)
===============================================================================
