------------------------- MODULE RefreshTransaction -------------------------
(***************************************************************************)
(* The second pass's publication of one image: refresh_decompiled_with of  *)
(* src/decompose.rs. The export trio replaces the trio that pass 1 (or an  *)
(* earlier second pass) published under images/<label>/decompiled, one     *)
(* rename at a time, behind a backup directory; a failed rename or a       *)
(* refused final validation rolls both sets back.                          *)
(*                                                                         *)
(* Any file operation may fail, any validation may fail to read its input, *)
(* and the program may die between two steps. A later call starts from     *)
(* whatever lies in the two trees, with a producer report of its own.      *)
(*                                                                         *)
(* What matters of functions.json is which functions it lists: those of    *)
(* pass 1 (base: all of them, unchanged) and the ones ApplyThumbNames      *)
(* created and owns in the saved Ghidra project.                           *)
(***************************************************************************)
EXTENDS Integers, FiniteSets

CONSTANTS
    Candidates,     \* creations that the symbol map requests
    MaxCalls        \* bound: exports of the second pass

ASSUME RefreshAssumption == IsFiniteSet(Candidates) /\ MaxCalls \in Nat

VARIABLES
    \* --- on disk ---
    dest, destDir,      \* images/<label>/decompiled: file -> who wrote it
    export, exportDir,  \* ghidra/export/<label>
    extra,              \* the export directory holds a file of another name
    backup, backupDir,  \* images/<label>/.decompiled.refresh-backup
    owned,              \* creations that the saved project records as its own
    \* --- the call in progress ---
    calls, pc, k,
    raw,                \* ImageResult: creations counted in the producer report
    summary,            \* ApplyThumbNames' summary, or NoSummary
    view, retained,     \* what the validations compare with
    undo,               \* how many installed and backed-up files to put back
    rollbackFailed,
    result,
    \* --- observation ---
    before,             \* the destination when the call began
    committed           \* the trio that was last validated in place

disk == <<dest, destDir, export, exportDir, extra, backup, backupDir>>
call == <<calls, raw, summary>>
vars == <<dest, destDir, export, exportDir, extra, backup, backupDir, owned,
          calls, pc, k, raw, summary, view, retained, undo, rollbackFailed,
          result, before, committed>>

OWNED == <<"decompiled.c", "disasm.lst", "functions.json">>
Files == {OWNED[i] : i \in 1..3}

\* A file's content: the export that wrote it and what it lists.
Contents == [id : 0..MaxCalls, created : SUBSET Candidates, base : BOOLEAN]
Absent   == [id |-> -1, created |-> {}, base |-> FALSE]
Pass1    == [id |-> 0, created |-> {}, base |-> TRUE]
Nothing  == [f \in Files |-> Absent]
All(x)   == [f \in Files |-> x]

NoSummary == [some |-> FALSE, created |-> 0, reapplied |-> 0]
Counted(c, r) == [some |-> TRUE, created |-> c, reapplied |-> r]

Init ==
    /\ \/ dest = All(Pass1) /\ destDir = TRUE
       \/ dest = Nothing /\ destDir = FALSE
    /\ committed = dest
    /\ export = Nothing /\ exportDir = FALSE /\ extra = FALSE
    /\ backup = Nothing /\ backupDir = FALSE
    /\ owned = {}
    /\ calls = 0 /\ pc = "idle" /\ k = 1 /\ raw = 0
    /\ summary = NoSummary /\ view = NoSummary /\ retained = Absent
    /\ undo = [installed |-> 0, backedUp |-> 0]
    /\ rollbackFailed = FALSE /\ result = "none" /\ before = dest

-----------------------------------------------------------------------------
(* The views of a summary that the validations take.                       *)

WithCounts(s, c, r) == IF s.some THEN Counted(c, r) ELSE s

\* Nothing was created yet: the trio is pass 1's.
Pass1Baseline(s) == WithCounts(s, 0, 0)
\* The creations of an earlier application are published already.
RetainedBaseline(s) == WithCounts(s, s.reapplied, 0)
\* They are in the project, and this export is the first to publish them.
UnpublishedReplay(s) == WithCounts(s, s.created + s.reapplied, 0)
\* This export was published by the rename just made.
CommittedView(s) == WithCounts(s, 0, s.created + s.reapplied)

\* Mutant: the retained records are not compared.
MutKeepsRetained(x, v, old) == TRUE

\* Nothing that was there is lost or changed, and exactly v.created are new.
KeepsRetained(x, v, old) ==
    /\ x.base = old.base
    /\ old.created \subseteq x.created
    /\ Cardinality(x.created \ old.created) = v.created

\* validate_image_terminal_inventory: does functions.json list what the
\* producer report and the summary say, on top of the retained inventory?
Valid(x, v, old) ==
    /\ x # Absent
    /\ raw + v.created + v.reapplied = Cardinality(x.created)
    /\ v.some => v.created + v.reapplied = Cardinality(x.created)
    /\ old # Absent => KeepsRetained(x, v, old)

Json(d) == d["functions.json"]

-----------------------------------------------------------------------------
(* Between calls: a second pass exports and reports what it created.       *)

\* run_two_pass: the previous trio in the export directory is scrubbed, the
\* scripts create and own functions in the saved project, and ExportDecomp
\* writes the trio. A killed JVM may have left a temporary file behind. Of a
\* trio handed over, this call takes nothing for granted: any file of it may
\* be gone. The producer report is the last call's, or a new run's.
Export ==
    /\ pc = "idle" /\ calls < MaxCalls
    /\ calls' = calls + 1
    /\ \E new \in SUBSET (Candidates \ owned), base \in BOOLEAN, named \in BOOLEAN :
        LET made == IF named THEN new ELSE {}
            x == [id |-> calls + 1, created |-> owned \cup made, base |-> base]
        IN  /\ owned' = owned \cup made
            /\ summary' = IF named
                          THEN Counted(Cardinality(made), Cardinality(owned))
                          ELSE NoSummary
            /\ \/ exportDir' = FALSE /\ export' = Nothing /\ extra' = FALSE
               \/ /\ exportDir' = TRUE
                  /\ \/ export' = All(x)
                     \/ \E f \in Files : export' = [All(x) EXCEPT ![f] = Absent]
                  /\ extra' \in {extra, TRUE}
    /\ raw' \in {raw, 0}
    /\ pc' = "check" /\ result' = "none" /\ before' = dest
    /\ UNCHANGED <<dest, destDir, backup, backupDir, k, view, retained, undo,
                   rollbackFailed, committed>>

\* The call returns to refresh_decompiled_and_update.
Finish(r) == result' = r /\ pc' = "return"

\* Mutant: only the inventory is looked for.
MutExactTrio == exportDir /\ Json(export) # Absent

ExactTrio == exportDir /\ ~extra /\ \A f \in Files : export[f] # Absent

\* The export set must be exactly the trio, all regular files.
CheckExport ==
    /\ pc = "check"
    /\ IF ExactTrio
       THEN \/ /\ pc' = IF destDir THEN "baseline" ELSE "staged"
               /\ view' = summary /\ retained' = Absent
               /\ UNCHANGED result
            \/ Finish("err") /\ UNCHANGED <<view, retained>>     \* read_dir
       ELSE Finish("err") /\ UNCHANGED <<view, retained>>
    /\ UNCHANGED <<disk, owned, call, k, undo, rollbackFailed, before, committed>>

\* What is in place: pass 1's trio, or else a fully published replay of what
\* the project owns. Reading the files may fail either time.
Baseline ==
    /\ pc = "baseline"
    /\ \/ /\ Valid(Json(dest), Pass1Baseline(summary), Absent)
          /\ view' = UnpublishedReplay(summary)
          /\ retained' = Json(dest) /\ pc' = "staged"
          /\ UNCHANGED result
       \/ /\ RetainedBaseline(summary) # Pass1Baseline(summary)
          /\ Valid(Json(dest), RetainedBaseline(summary), Absent)
          /\ view' = summary
          /\ retained' = Json(dest) /\ pc' = "staged"
          /\ UNCHANGED result
       \/ Finish("err") /\ UNCHANGED <<view, retained>>
    /\ UNCHANGED <<disk, owned, call, k, undo, rollbackFailed, before, committed>>

\* The export is validated before the destination is touched.
Staged ==
    /\ pc = "staged"
    /\ \/ /\ Valid(Json(export), view, retained)
          /\ pc' = IF destDir THEN "backupDir" ELSE "place"
          /\ retained' = IF destDir THEN retained ELSE Json(export)
          /\ UNCHANGED result
       \/ Finish("err") /\ UNCHANGED retained
    /\ UNCHANGED <<disk, owned, call, k, view, undo, rollbackFailed, before,
                   committed>>

-----------------------------------------------------------------------------
(* First placement: the whole export directory is renamed.                 *)

Place ==
    /\ pc = "place"
    /\ \/ /\ dest' = export /\ destDir' = TRUE
          /\ export' = Nothing /\ exportDir' = FALSE
          /\ pc' = "placed" /\ UNCHANGED result
       \/ Finish("err") /\ UNCHANGED <<dest, destDir, export, exportDir>>
    /\ UNCHANGED <<extra, backup, backupDir, owned, call, k, view, retained,
                   undo, rollbackFailed, before, committed>>

ValidatePlaced ==
    /\ pc = "placed"
    /\ \/ /\ Valid(Json(dest), CommittedView(summary), retained)
          /\ committed' = dest /\ Finish("ok")
       \/ pc' = "unplace" /\ UNCHANGED <<committed, result>>
    /\ UNCHANGED <<disk, owned, call, k, view, retained, undo, rollbackFailed,
                   before>>

Unplace ==
    /\ pc = "unplace"
    /\ Finish("err")
    /\ \/ /\ export' = dest /\ exportDir' = TRUE
          /\ dest' = Nothing /\ destDir' = FALSE
          /\ UNCHANGED rollbackFailed
       \/ rollbackFailed' = TRUE /\ UNCHANGED <<dest, destDir, export, exportDir>>
    /\ UNCHANGED <<extra, backup, backupDir, owned, call, k, view, retained,
                   undo, before, committed>>

-----------------------------------------------------------------------------
(* Replacement: old trio to the backup, new trio into place.               *)

\* Mutant: a directory that is there already will do.
MutFreeForBackup == TRUE

FreeForBackup == ~backupDir

CreateBackup ==
    /\ pc = "backupDir"
    /\ \/ /\ FreeForBackup
          /\ backupDir' = TRUE
          /\ pc' = "backUp" /\ k' = 1 /\ UNCHANGED result
       \/ Finish("err") /\ UNCHANGED <<backupDir, k>>
    /\ UNCHANGED <<dest, destDir, export, exportDir, extra, backup, owned, call,
                   view, retained, undo, rollbackFailed, before, committed>>

\* A failed rename: what was installed and backed up goes back.
Rollback(installed, backedUp) ==
    /\ undo' = [installed |-> installed, backedUp |-> backedUp]
    /\ pc' = "rollback"

BackUp ==
    /\ pc = "backUp"
    /\ LET f == OWNED[k] IN
       \/ /\ dest[f] # Absent
          /\ backup' = [backup EXCEPT ![f] = dest[f]]
          /\ dest' = [dest EXCEPT ![f] = Absent]
          /\ IF k = 3 THEN pc' = "install" /\ k' = 1
                      ELSE pc' = pc /\ k' = k + 1
          /\ UNCHANGED undo
       \/ Rollback(0, k - 1) /\ UNCHANGED <<dest, backup, k>>
    /\ UNCHANGED <<destDir, export, exportDir, extra, backupDir, owned, call,
                   view, retained, rollbackFailed, result, before, committed>>

Install ==
    /\ pc = "install"
    /\ LET f == OWNED[k] IN
       \/ /\ export[f] # Absent
          /\ dest' = [dest EXCEPT ![f] = export[f]]
          /\ export' = [export EXCEPT ![f] = Absent]
          /\ IF k = 3 THEN pc' = "validate" /\ k' = 1
                      ELSE pc' = pc /\ k' = k + 1
          /\ UNCHANGED undo
       \/ Rollback(k - 1, 3) /\ UNCHANGED <<dest, export, k>>
    /\ UNCHANGED <<destDir, exportDir, extra, backup, backupDir, owned, call,
                   view, retained, rollbackFailed, result, before, committed>>

\* The commit point.
Validate ==
    /\ pc = "validate"
    /\ \/ /\ Valid(Json(dest), view, retained)
          /\ committed' = dest
          /\ pc' = "clean" /\ k' = 1 /\ UNCHANGED undo
       \/ Rollback(3, 3) /\ UNCHANGED <<committed, k>>
    /\ UNCHANGED <<disk, owned, call, view, retained, rollbackFailed, result,
                   before>>

\* After the commit a failing removal is only logged.
Clean ==
    /\ pc = "clean"
    /\ backup' \in {backup, [backup EXCEPT ![OWNED[k]] = Absent]}
    /\ IF k = 3 THEN pc' = "cleanDirs" /\ k' = 1
                ELSE pc' = pc /\ k' = k + 1
    /\ UNCHANGED <<dest, destDir, export, exportDir, extra, backupDir, owned,
                   call, view, retained, undo, rollbackFailed, result, before,
                   committed>>

Empty(d) == d = Nothing

\* remove_dir fails on a directory that is not empty.
CleanDirs ==
    /\ pc = "cleanDirs"
    /\ backupDir' \in {backupDir, ~Empty(backup)}
    /\ exportDir' \in {exportDir, ~Empty(export) \/ extra}
    /\ Finish("ok")
    /\ UNCHANGED <<dest, destDir, export, extra, backup, owned, call, k, view,
                   retained, undo, rollbackFailed, before, committed>>

-----------------------------------------------------------------------------
(* rollback_refresh: every undo is tried, whatever the others came to.     *)

\* Mutant: the old files go back before the new ones are out of the way.
MutNextUndo == CASE undo.backedUp > 0 -> "backedUp"
                 [] undo.backedUp = 0 /\ undo.installed > 0 -> "installed"
                 [] OTHER -> "directory"

NextUndo == CASE undo.installed > 0 -> "installed"
              [] undo.installed = 0 /\ undo.backedUp > 0 -> "backedUp"
              [] OTHER -> "directory"

UndoInstall ==
    /\ pc = "rollback" /\ NextUndo = "installed"
    /\ LET f == OWNED[undo.installed] IN
       \/ /\ dest[f] # Absent
          /\ export' = [export EXCEPT ![f] = dest[f]]
          /\ dest' = [dest EXCEPT ![f] = Absent]
          /\ UNCHANGED rollbackFailed
       \/ rollbackFailed' = TRUE /\ UNCHANGED <<dest, export>>
    /\ undo' = [undo EXCEPT !.installed = @ - 1]
    /\ UNCHANGED <<destDir, exportDir, extra, backup, backupDir, owned, call,
                   pc, k, view, retained, result, before, committed>>

\* The rename replaces a new file that could not be moved out of the way.
UndoBackup ==
    /\ pc = "rollback" /\ NextUndo = "backedUp"
    /\ LET f == OWNED[undo.backedUp] IN
       \/ /\ backup[f] # Absent
          /\ dest' = [dest EXCEPT ![f] = backup[f]]
          /\ backup' = [backup EXCEPT ![f] = Absent]
          /\ UNCHANGED rollbackFailed
       \/ rollbackFailed' = TRUE /\ UNCHANGED <<dest, backup>>
    /\ undo' = [undo EXCEPT !.backedUp = @ - 1]
    /\ UNCHANGED <<destDir, export, exportDir, extra, backupDir, owned, call,
                   pc, k, view, retained, result, before, committed>>

\* Mutant: the backup directory is removed with whatever is in it.
MutRemoveBackup == backupDir' = FALSE /\ backup' = Nothing /\ UNCHANGED rollbackFailed

RemoveBackup ==
    /\ UNCHANGED backup
    /\ \/ Empty(backup) /\ backupDir' = FALSE /\ UNCHANGED rollbackFailed
       \/ rollbackFailed' = TRUE /\ UNCHANGED backupDir

UndoDirectory ==
    /\ pc = "rollback" /\ NextUndo = "directory"
    /\ RemoveBackup
    /\ Finish("err")
    /\ UNCHANGED <<dest, destDir, export, exportDir, extra, owned, call, k, view,
                   retained, undo, before, committed>>

-----------------------------------------------------------------------------

\* What a call leaves of its own state.
Forget ==
    /\ pc' = "idle" /\ k' = 1 /\ rollbackFailed' = FALSE
    /\ summary' = NoSummary /\ view' = NoSummary /\ retained' = Absent
    /\ undo' = [installed |-> 0, backedUp |-> 0]

\* Mutant: the counters are set whatever the refresh came to.
MutUpdate == raw' = Cardinality(Json(export).created \cup Json(dest).created)

\* refresh_decompiled_and_update: the report counts what was published.
Update == raw' = IF result = "ok" THEN Cardinality(Json(dest).created) ELSE raw

Return ==
    /\ pc = "return"
    /\ Update
    /\ Forget
    /\ UNCHANGED <<disk, owned, calls, result, before, committed>>

\* The program dies; a new run has a pass-1 report.
Crash ==
    /\ pc # "idle"
    /\ Forget /\ raw' = 0 /\ result' = "none"
    /\ UNCHANGED <<disk, owned, calls, before, committed>>

Refresh == \/ CheckExport \/ Baseline \/ Staged
           \/ Place \/ ValidatePlaced \/ Unplace
           \/ CreateBackup \/ BackUp \/ Install \/ Validate \/ Clean \/ CleanDirs
           \/ UndoInstall \/ UndoBackup \/ UndoDirectory \/ Return

Next == Export \/ Refresh \/ Crash

Spec == Init /\ [][Next]_vars

-----------------------------------------------------------------------------
(* Properties.                                                             *)

Summaries == [some : BOOLEAN, created : 0..Cardinality(Candidates),
              reapplied : 0..Cardinality(Candidates)]
Trios == [Files -> Contents \cup {Absent}]

\* Every variable has its type; the renames and the undo counters stay within
\* the three owned files.
TypeOK ==
    /\ dest \in Trios /\ export \in Trios /\ backup \in Trios
    /\ before \in Trios /\ committed \in Trios
    /\ destDir \in BOOLEAN /\ exportDir \in BOOLEAN /\ backupDir \in BOOLEAN
    /\ extra \in BOOLEAN /\ rollbackFailed \in BOOLEAN
    /\ owned \subseteq Candidates
    /\ calls \in 0..MaxCalls /\ k \in 1..3
    /\ pc \in {"idle", "check", "baseline", "staged", "place", "placed",
               "unplace", "backupDir", "backUp", "install", "validate", "clean",
               "cleanDirs", "rollback", "return"}
    /\ raw \in 0..Cardinality(Candidates)
    /\ summary \in Summaries /\ view \in Summaries
    /\ retained \in Contents \cup {Absent}
    /\ undo \in [installed : 0..3, backedUp : 0..3]
    /\ result \in {"none", "ok", "err"}

\* Of the trio that was last validated in place, every file still exists,
\* where it was or in the backup: whatever fails, and wherever the program
\* dies, nothing validated is lost (refresh_decompiled_with, rollback_refresh).
Recoverable ==
    committed # Nothing =>
        \A f \in Files : committed[f] \in {dest[f], backup[f]}

\* A destination that is not one whole export never looks like a finished
\* one: the backup directory, on which every later refresh is
\* refused, is there and not empty (the stale-backup check of CreateBackup).
MixedIsMarked ==
    (destDir /\ (\E f, g \in Files : dest[f] # dest[g] \/ dest[f] = Absent)) =>
        backupDir /\ ~Empty(backup)

\* An error that reports no rollback failure leaves the destination, file by
\* file, as the call found it (rollback_refresh's reverse order).
ErrorRestores ==
    (pc = "return" /\ result = "err" /\ ~rollbackFailed) =>
        dest = before

\* Success publishes one whole export, this call's (three renames and the
\* final validation), and the report's counter is that of the file in place.
SuccessIsWhole ==
    result = "ok" =>
        /\ pc \in {"return", "idle"} => dest = committed
        /\ pc = "idle" => /\ dest = All([Json(dest) EXCEPT !.id = calls])
                         /\ raw = Cardinality(Json(dest).created)

\* The producer report counts pass 1 or the trio that was last validated,
\* never an export that was refused or rolled back (refresh_decompiled_and_update).
CountersAreHonest ==
    raw # 0 => committed # Nothing /\ raw = Cardinality(Json(committed).created)

\* From one committed trio to the next no function is lost or changed, and
\* every addition is a creation that the project owns (retained_ghidra_record_delta,
\* validate_terminal_creation_functions).
InventoryGrows ==
    [][committed # Nothing /\ committed' # committed =>
        /\ Json(committed').base = Json(committed).base
        /\ Json(committed).created \subseteq Json(committed').created
        /\ Json(committed').created \subseteq owned]_vars
=============================================================================
