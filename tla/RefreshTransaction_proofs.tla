---------------------- MODULE RefreshTransaction_proofs ----------------------
(***************************************************************************)
(* Proofs about RefreshTransaction for every set of candidates and every   *)
(* number of exports: whatever fails and wherever the program dies, no     *)
(* validated file is lost, a half-replaced destination is marked, an error *)
(* restores, and inventories only grow.                                    *)
(***************************************************************************)
EXTENDS RefreshTransaction, FiniteSetTheorems, TLAPS

\* The three owned files are three.
LEMMA OwnedFiles ==
    /\ \A i \in 1..3 : OWNED[i] \in Files
    /\ \A f \in Files : \E i \in 1..3 : f = OWNED[i]
    /\ \A i, j \in 1..3 : OWNED[i] = OWNED[j] => i = j
    /\ OWNED[3] = "functions.json"
  BY DEF OWNED, Files

\* Which undo comes next.
LEMMA Undone ==
    ASSUME undo \in [installed : 0..3, backedUp : 0..3]
    PROVE  /\ NextUndo = "installed" <=> undo.installed \in 1..3
           /\ NextUndo = "backedUp" <=>
                undo.installed = 0 /\ undo.backedUp \in 1..3
           /\ NextUndo = "directory" <=>
                undo.installed = 0 /\ undo.backedUp = 0
  <1>1. CASE undo.installed > 0
    <2>1. NextUndo = "installed" BY <1>1 DEF NextUndo
    <2> QED BY <1>1, <2>1
  <1>2. CASE undo.installed = 0 /\ undo.backedUp > 0
    <2>1. NextUndo = "backedUp" BY <1>2 DEF NextUndo
    <2> QED BY <1>2, <2>1
  <1>3. CASE undo.installed = 0 /\ undo.backedUp = 0
    <2>1. NextUndo = "directory" BY <1>3 DEF NextUndo
    <2> QED BY <1>3, <2>1
  <1> QED BY <1>1, <1>2, <1>3

-----------------------------------------------------------------------------
(* Types, one group of variables at a time.                                *)

FileTypeOK ==
    /\ dest \in Trios /\ export \in Trios /\ backup \in Trios
    /\ before \in Trios /\ committed \in Trios
    /\ retained \in Contents \cup {Absent}
    /\ owned \subseteq Candidates
    /\ calls \in 0..MaxCalls

FlagTypeOK ==
    /\ destDir \in BOOLEAN /\ exportDir \in BOOLEAN /\ backupDir \in BOOLEAN
    /\ extra \in BOOLEAN /\ rollbackFailed \in BOOLEAN

ControlTypeOK ==
    /\ k \in 1..3 /\ undo \in [installed : 0..3, backedUp : 0..3]
    /\ pc \in {"idle", "check", "baseline", "staged", "place", "placed",
               "unplace", "backupDir", "backUp", "install", "validate", "clean",
               "cleanDirs", "rollback", "return"}
    /\ result \in {"none", "ok", "err"}

\* A summary never counts more creations than were requested.
CountTypeOK ==
    /\ raw \in 0..Cardinality(Candidates)
    /\ summary \in Summaries /\ view \in Summaries
    /\ summary.created + summary.reapplied <= Cardinality(Candidates)

IType == FileTypeOK /\ FlagTypeOK /\ ControlTypeOK /\ CountTypeOK

\* What no action but the listed ones writes.
LEMMA FileFrame ==
    [Next]_vars =>
        \/ UNCHANGED <<dest, export, backup, before, committed, owned, calls>>
        \/ Export \/ Place \/ ValidatePlaced \/ Unplace \/ BackUp \/ Install
        \/ Validate \/ Clean \/ UndoInstall \/ UndoBackup
  BY DEF Next, Refresh, vars, disk, call, CheckExport, Baseline, Staged,
         CreateBackup, CleanDirs, UndoDirectory, RemoveBackup, Return, Crash

LEMMA FileTypeStep == IType /\ [Next]_vars => FileTypeOK'
  <1> SUFFICES ASSUME IType, [Next]_vars PROVE FileTypeOK'
    OBVIOUS
  <1>1. FileTypeOK /\ k \in 1..3 /\ undo \in [installed : 0..3, backedUp : 0..3]
    BY DEF IType, ControlTypeOK
  <1>2. retained' \in Contents \cup {Absent}
    <2>1. /\ Json(dest) \in Contents \cup {Absent}
          /\ Json(export) \in Contents \cup {Absent}
      BY <1>1, OwnedFiles DEF FileTypeOK, Trios, Json
    <2>2. retained' \in {retained, Absent, Json(dest), Json(export)}
      BY DEF Next, Refresh, vars, Export, CheckExport, Baseline, Staged, Place,
             ValidatePlaced, Unplace, CreateBackup, BackUp, Install, Validate,
             Clean, CleanDirs, UndoInstall, UndoBackup, UndoDirectory, Return,
             Crash, Forget
    <2> QED BY <1>1, <2>1, <2>2 DEF FileTypeOK
  <1>3. /\ dest' \in Trios /\ export' \in Trios /\ backup' \in Trios
        /\ before' \in Trios /\ committed' \in Trios
        /\ owned' \subseteq Candidates
        /\ calls' \in 0..MaxCalls
    <2> USE <1>1, RefreshAssumption, OwnedFiles DEF FileTypeOK
    <2>1. CASE UNCHANGED <<dest, export, backup, before, committed, owned, calls>>
      BY <2>1
    <2>2. CASE Export
      <3>1. PICK new \in SUBSET (Candidates \ owned), base \in BOOLEAN, named \in BOOLEAN :
              LET made == IF named THEN new ELSE {}
                  x == [id |-> calls + 1, created |-> owned \cup made, base |-> base]
              IN  /\ owned' = owned \cup made
                  /\ \/ export' = Nothing
                     \/ export' = All(x)
                     \/ \E f \in Files : export' = [All(x) EXCEPT ![f] = Absent]
        BY <2>2, Zenon DEF Export
      <3> DEFINE made == IF named THEN new ELSE {}
                 x == [id |-> calls + 1, created |-> owned \cup made, base |-> base]
      <3>2. calls < MaxCalls /\ calls' = calls + 1 BY <2>2 DEF Export
      <3>3. made \subseteq Candidates BY <3>1
      <3>4. x \in Contents BY <3>2, <3>3 DEF Contents
      <3>5. export' \in Trios
        <4>1. \/ export' = Nothing \/ export' = All(x)
              \/ \E f \in Files : export' = [All(x) EXCEPT ![f] = Absent]
          BY <3>1
        <4> HIDE DEF x
        <4> QED BY <3>4, <4>1 DEF Trios, All, Nothing
      <3>6. /\ UNCHANGED <<dest, backup, committed>> /\ before' = dest
            /\ owned' = owned \cup made
        BY <2>2, <3>1 DEF Export
      <3> QED BY <3>2, <3>3, <3>5, <3>6
    <2>3. CASE Place
      BY <2>3 DEF Place, Trios, Nothing, call
    <2>4. CASE ValidatePlaced BY <2>4 DEF ValidatePlaced, disk, call
    <2>5. CASE Unplace BY <2>5 DEF Unplace, Trios, Nothing, call
    <2>6. CASE BackUp BY <2>6 DEF BackUp, Trios, call
    <2>7. CASE Install BY <2>7 DEF Install, Trios, call
    <2>8. CASE Validate BY <2>8 DEF Validate, disk, call
    <2>9. CASE Clean BY <2>9 DEF Clean, Trios, call
    <2>10. CASE UndoInstall BY <2>10 DEF UndoInstall, NextUndo, Trios, call
    <2>11. CASE UndoBackup BY <2>11 DEF UndoBackup, NextUndo, Trios, call
    <2> QED
      BY <2>1, <2>2, <2>3, <2>4, <2>5, <2>6, <2>7, <2>8, <2>9, <2>10, <2>11,
         FileFrame
  <1> QED BY <1>2, <1>3 DEF FileTypeOK

LEMMA FlagTypeStep == IType /\ [Next]_vars => FlagTypeOK'
  <1> SUFFICES ASSUME IType, [Next]_vars PROVE FlagTypeOK'
    OBVIOUS
  <1> USE DEF FlagTypeOK
  <1>0. FlagTypeOK BY DEF IType
  <1>1. /\ destDir' \in {destDir, TRUE, FALSE}
        /\ rollbackFailed' \in {rollbackFailed, TRUE, FALSE}
        /\ extra' \in {extra, TRUE, FALSE}
    BY DEF Next, Refresh, vars, disk, call, Export, CheckExport, Baseline,
           Staged, Place, ValidatePlaced, Unplace, CreateBackup, BackUp,
           Install, Validate, Clean, CleanDirs, UndoInstall, UndoBackup,
           UndoDirectory, RemoveBackup, Return, Crash, Forget
  <1>2. exportDir' \in {exportDir, TRUE, FALSE, ~Empty(export) \/ extra}
    BY DEF Next, Refresh, vars, disk, call, Export, CheckExport, Baseline,
           Staged, Place, ValidatePlaced, Unplace, CreateBackup, BackUp,
           Install, Validate, Clean, CleanDirs, UndoInstall, UndoBackup,
           UndoDirectory, Return, Crash
  <1>3. backupDir' \in {backupDir, TRUE, FALSE, ~Empty(backup)}
    BY DEF Next, Refresh, vars, disk, call, Export, CheckExport, Baseline,
           Staged, Place, ValidatePlaced, Unplace, CreateBackup, BackUp,
           Install, Validate, Clean, CleanDirs, UndoInstall, UndoBackup,
           UndoDirectory, RemoveBackup, Return, Crash
  <1>4. (~Empty(backup)) \in BOOLEAN /\ (~Empty(export) \/ extra) \in BOOLEAN
    BY <1>0, Zenon DEF Empty
  <1> QED BY <1>0, <1>1, <1>2, <1>3, <1>4

LEMMA ControlTypeStep == IType /\ [Next]_vars => ControlTypeOK'
  <1> SUFFICES ASSUME IType, [Next]_vars PROVE ControlTypeOK'
    OBVIOUS
  <1> USE DEF ControlTypeOK
  <1>0. ControlTypeOK /\ destDir \in BOOLEAN BY DEF IType, FlagTypeOK
  <1>1. CASE Export
    <2>1. UNCHANGED <<k, undo>> /\ pc' = "check" /\ result' = "none"
      BY <1>1 DEF Export
    <2> QED BY <1>0, <2>1
  <1>15. CASE Return \/ Crash
    <2>1. /\ k' = 1 /\ undo' = [installed |-> 0, backedUp |-> 0] /\ pc' = "idle"
          /\ result' \in {result, "none"}
      BY <1>15 DEF Return, Crash, Forget
    <2> QED BY <1>0, <2>1
  <1>2. CASE CheckExport BY <1>0, <1>2 DEF CheckExport, Finish
  <1>3. CASE Baseline BY <1>0, <1>3 DEF Baseline, Finish
  <1>4. CASE Staged BY <1>0, <1>4 DEF Staged, Finish
  <1>5. CASE Place \/ ValidatePlaced \/ Unplace
    BY <1>0, <1>5 DEF Place, ValidatePlaced, Unplace, Finish
  <1>6. CASE CreateBackup BY <1>0, <1>6 DEF CreateBackup, Finish
  <1>7. CASE BackUp BY <1>0, <1>7 DEF BackUp, Rollback
  <1>8. CASE Install BY <1>0, <1>8 DEF Install, Rollback
  <1>9. CASE Validate BY <1>0, <1>9 DEF Validate, Rollback
  <1>10. CASE Clean BY <1>0, <1>10 DEF Clean
  <1>11. CASE CleanDirs BY <1>0, <1>11 DEF CleanDirs, Finish
  <1>12. CASE UndoInstall \/ UndoBackup
    BY <1>0, <1>12, Undone DEF UndoInstall, UndoBackup
  <1>13. CASE UndoDirectory BY <1>0, <1>13 DEF UndoDirectory, Finish
  <1>14. CASE UNCHANGED vars BY <1>0, <1>14 DEF vars
  <1> QED
    BY <1>1, <1>2, <1>3, <1>4, <1>5, <1>6, <1>7, <1>8, <1>9, <1>10, <1>11,
       <1>12, <1>13, <1>14, <1>15 DEF Next, Refresh

\* Subsets of the candidates are finite and counted by their parts.
LEMMA Counting ==
    /\ Cardinality(Candidates) \in Nat
    /\ \A S \in SUBSET Candidates :
          IsFiniteSet(S) /\ Cardinality(S) \in 0..Cardinality(Candidates)
    /\ \A S, T \in SUBSET Candidates :
          S \cap T = {} => Cardinality(S \cup T) = Cardinality(S) + Cardinality(T)
  <1>1. Cardinality(Candidates) \in Nat
    BY RefreshAssumption, FS_CardinalityType
  <1>2. ASSUME NEW S \in SUBSET Candidates
        PROVE  IsFiniteSet(S) /\ Cardinality(S) \in 0..Cardinality(Candidates)
    <2>1. IsFiniteSet(S) /\ Cardinality(S) <= Cardinality(Candidates)
      BY RefreshAssumption, FS_Subset
    <2>2. Cardinality(S) \in Nat BY <2>1, FS_CardinalityType
    <2> QED BY <1>1, <2>1, <2>2
  <1>3. ASSUME NEW S \in SUBSET Candidates, NEW T \in SUBSET Candidates,
               S \cap T = {}
        PROVE  Cardinality(S \cup T) = Cardinality(S) + Cardinality(T)
    <2>1. IsFiniteSet(S) /\ IsFiniteSet(T) BY <1>2
    <2>2. Cardinality(S \cup T)
            = Cardinality(S) + Cardinality(T) - Cardinality(S \cap T)
      BY <2>1, FS_Union
    <2>3. Cardinality(S \cap T) = 0 BY <1>3, FS_EmptySet
    <2>4. Cardinality(S) \in Nat /\ Cardinality(T) \in Nat BY <1>2
    <2> QED BY <2>2, <2>3, <2>4
  <1> QED BY <1>1, <1>2, <1>3

\* The counters follow functions.json and the sets that the project owns.
LEMMA CountTypeStep == IType /\ [Next]_vars => CountTypeOK'
  <1> SUFFICES ASSUME IType, [Next]_vars PROVE CountTypeOK'
    OBVIOUS
  <1> USE DEF CountTypeOK
  <1>0. CountTypeOK /\ FileTypeOK BY DEF IType
  <1>1. Cardinality(Candidates) \in Nat BY Counting
  <1>2. raw' \in 0..Cardinality(Candidates)
    <2>1. raw' \in {raw, 0, Cardinality(Json(dest).created)}
      BY DEF Next, Refresh, vars, call, Export, CheckExport, Baseline, Staged,
             Place, ValidatePlaced, Unplace, CreateBackup, BackUp, Install,
             Validate, Clean, CleanDirs, UndoInstall, UndoBackup,
             UndoDirectory, Return, Update, Crash
    <2>2. Json(dest).created \in SUBSET Candidates
      BY <1>0, OwnedFiles DEF FileTypeOK, Trios, Json, Contents, Absent
    <2> QED BY <1>0, <1>1, <2>1, <2>2, Counting
  <1>3. /\ summary' \in Summaries
        /\ summary'.created + summary'.reapplied <= Cardinality(Candidates)
    <2>1. CASE UNCHANGED summary BY <1>0, <2>1
    <2>2. CASE summary' = NoSummary
      BY <1>1, <2>2 DEF NoSummary, Summaries
    <2>3. CASE Export
      <3>1. PICK new \in SUBSET (Candidates \ owned), named \in BOOLEAN :
              summary' = IF named
                         THEN Counted(Cardinality(IF named THEN new ELSE {}),
                                      Cardinality(owned))
                         ELSE NoSummary
        BY <2>3 DEF Export
      <3>2. CASE ~named BY <2>2, <3>1, <3>2
      <3>3. CASE named
        <4>1. summary' = [some |-> TRUE, created |-> Cardinality(new),
                          reapplied |-> Cardinality(owned)]
          BY <3>1, <3>3 DEF Counted
        <4>2. /\ new \in SUBSET Candidates /\ owned \in SUBSET Candidates
              /\ new \cup owned \in SUBSET Candidates /\ new \cap owned = {}
          BY <1>0 DEF FileTypeOK
        <4>3. /\ Cardinality(new) \in 0..Cardinality(Candidates)
              /\ Cardinality(owned) \in 0..Cardinality(Candidates)
              /\ Cardinality(new \cup owned) <= Cardinality(Candidates)
              /\ Cardinality(new \cup owned) = Cardinality(new) + Cardinality(owned)
          BY <1>1, <4>2, Counting
        <4> QED BY <4>1, <4>3 DEF Summaries
      <3> QED BY <3>2, <3>3
    <2>4. UNCHANGED summary \/ summary' = NoSummary \/ Export
      BY DEF Next, Refresh, vars, call, CheckExport, Baseline, Staged,
             Place, ValidatePlaced, Unplace, CreateBackup, BackUp, Install,
             Validate, Clean, CleanDirs, UndoInstall, UndoBackup,
             UndoDirectory, Return, Crash, Forget
    <2> QED BY <2>1, <2>2, <2>3, <2>4
  <1>4. view' \in Summaries
    <2>1. view' \in {view, summary, NoSummary, UnpublishedReplay(summary)}
      BY DEF Next, Refresh, vars, call, Export, CheckExport, Baseline, Staged,
             Place, ValidatePlaced, Unplace, CreateBackup, BackUp, Install,
             Validate, Clean, CleanDirs, UndoInstall, UndoBackup,
             UndoDirectory, Return, Crash, Forget
    <2>2. NoSummary \in Summaries BY <1>1 DEF NoSummary, Summaries
    <2>3. UnpublishedReplay(summary) \in Summaries
      BY <1>0, <1>1 DEF UnpublishedReplay, WithCounts, Counted, Summaries
    <2> QED BY <1>0, <2>1, <2>2, <2>3
  <1> QED BY <1>2, <1>3, <1>4

LEMMA TypeInvariant == Spec => []IType
  <1>1. ASSUME Init PROVE IType
    <2>1. Pass1 \in Contents BY RefreshAssumption DEF Pass1, Contents
    <2>2. FileTypeOK
      <3>1. dest = All(Pass1) \/ dest = Nothing BY <1>1 DEF Init
      <3>2. All(Pass1) \in Trios /\ Nothing \in Trios
        BY <2>1 DEF All, Nothing, Trios
      <3>3. /\ committed = dest /\ before = dest /\ export = Nothing
            /\ backup = Nothing /\ retained = Absent /\ owned = {} /\ calls = 0
        BY <1>1 DEF Init
      <3> QED BY <3>1, <3>2, <3>3, RefreshAssumption DEF FileTypeOK
    <2>3. FlagTypeOK BY <1>1, Zenon DEF Init, FlagTypeOK
    <2>4. ControlTypeOK BY <1>1 DEF Init, ControlTypeOK
    <2>5. CountTypeOK
      BY <1>1, Counting DEF Init, CountTypeOK, NoSummary, Summaries
    <2> QED BY <2>2, <2>3, <2>4, <2>5 DEF IType
  <1>2. IType /\ [Next]_vars => IType'
    BY FileTypeStep, FlagTypeStep, ControlTypeStep, CountTypeStep DEF IType
  <1> QED BY <1>1, <1>2, PTL DEF Spec

\* RefreshTransaction's type invariant: the undo counters never leave the three
\* owned files, and no summary, nor any view of one that the validations take,
\* counts more creations than were requested.
THEOREM TypeCorrect == Spec => []TypeOK
  <1>1. IType => TypeOK
    BY DEF IType, TypeOK, FileTypeOK, FlagTypeOK, ControlTypeOK, CountTypeOK
  <1> QED BY <1>1, TypeInvariant, PTL
-----------------------------------------------------------------------------
(* Where the files are.                                                    *)

\* The i-th owned file of a directory.
At(d, i) == d[OWNED[i]]

\* One whole export.
Whole(d) == \A i, j \in 1..3 : At(d, i) = At(d, j) /\ At(d, i) # Absent

\* The trio that the call found is whole and can still be put together.
Held == /\ Whole(before)
        /\ \A i \in 1..3 : At(before, i) \in {At(dest, i), At(backup, i)}

\* What holds of the disk at any moment, the moment of a crash included.
Safe ==
    /\ ~backupDir => backup = Nothing
    /\ ~destDir => dest = Nothing
    /\ committed = Nothing \/ Whole(committed)
    /\ committed # Nothing =>
         destDir /\ \A i \in 1..3 : At(committed, i) \in {At(dest, i), At(backup, i)}
    /\ destDir => Whole(dest) \/ (backupDir /\ backup # Nothing)

\* Up to the first rename the destination is as it was found; what will be
\* installed is one whole export.
Untouched ==
    /\ pc \in {"check", "baseline", "staged", "place", "backupDir"} => dest = before
    /\ pc = "check" /\ ExactTrio => Whole(export)
    /\ pc \in {"baseline", "staged", "place", "backupDir", "backUp"} => Whole(export)
    /\ pc \in {"baseline", "backupDir"} => destDir
    /\ pc = "place" => ~destDir

\* A first placement.
Placing ==
    pc \in {"placed", "unplace"} =>
        /\ destDir /\ Whole(dest)
        /\ committed = Nothing /\ before = Nothing

\* The two rename loops, and what the rollback still has to undo.
Replacing ==
    /\ pc \in {"backUp", "install", "validate", "rollback"} =>
         destDir /\ backupDir /\ Held /\ committed \in {Nothing, before}
    /\ pc = "backUp" => \A i \in 1..3 :
         IF i < k THEN At(backup, i) = At(before, i)
                  ELSE At(dest, i) = At(before, i) /\ At(backup, i) = Absent
    /\ pc \in {"install", "validate"} =>
         \A i \in 1..3 : At(backup, i) = At(before, i)
    /\ pc = "install" =>
         \A i, j \in 1..3 : LET new(n) == IF n < k THEN At(dest, n) ELSE At(export, n)
                            IN  new(i) = new(j) /\ new(i) # Absent
    /\ pc = "validate" => Whole(dest)
    /\ pc = "rollback" =>
         /\ undo.installed > 0 => undo.backedUp = 3
         /\ \A i \in 1..undo.backedUp : At(backup, i) = At(before, i)

\* After the commit only the backup goes.
Cleaning ==
    pc \in {"clean", "cleanDirs"} =>
        destDir /\ backupDir /\ committed = dest /\ Whole(dest)

\* An undo that did not fail put its file back.
Restoring ==
    /\ pc \notin {"rollback", "return"} => ~rollbackFailed
    /\ pc = "rollback" /\ ~rollbackFailed =>
         \A i \in 1..3 : i > undo.backedUp => At(dest, i) = At(before, i)
    /\ ErrorRestores

FileInv == Safe /\ Untouched /\ Placing /\ Replacing /\ Cleaning /\ Restoring

\* Two trios with the same three files are the same.
LEMMA SameTrio ==
    ASSUME NEW d \in Trios, NEW e \in Trios,
           \A i \in 1..3 : At(d, i) = At(e, i)
    PROVE  d = e
  <1>1. \A f \in Files : d[f] = e[f] BY OwnedFiles DEF At
  <1> QED BY <1>1 DEF Trios

LEMMA NothingIsAbsent ==
    /\ Nothing \in Trios
    /\ \A i \in 1..3 : At(Nothing, i) = Absent
    /\ \A d \in Trios : Whole(d) => d # Nothing
  BY OwnedFiles DEF Nothing, Trios, At, Whole

\* Renaming one file into or out of a directory.
LEMMA OneFile ==
    ASSUME NEW d \in Trios, NEW n \in 1..3, NEW x
    PROVE  \A i \in 1..3 : At([d EXCEPT ![OWNED[n]] = x], i)
                              = IF i = n THEN x ELSE At(d, i)
  BY OwnedFiles DEF At, Trios

\* If each file of a whole trio b is in d or in e, e is empty only if d is b.
LEMMA HeldIsMarked ==
    ASSUME NEW b \in Trios, NEW d \in Trios, NEW e \in Trios, Whole(b),
           \A i \in 1..3 : At(b, i) \in {At(d, i), At(e, i)}
    PROVE  Whole(d) \/ e # Nothing
  <1>1. SUFFICES ASSUME e = Nothing PROVE Whole(d)
    OBVIOUS
  <1>2. \A i \in 1..3 : At(b, i) = At(d, i)
    BY <1>1, NothingIsAbsent DEF Whole
  <1>3. b = d BY <1>2, SameTrio
  <1> QED BY <1>3

\* While the found trio is held, the disk is safe.
LEMMA HeldIsSafe ==
    ASSUME IType', Held', destDir', backupDir', (committed \in {Nothing, before})'
    PROVE  Safe'
  <1>1. dest' \in Trios /\ backup' \in Trios /\ before' \in Trios
    BY DEF IType, FileTypeOK
  <1>2. /\ Whole(before')
        /\ \A i \in 1..3 : At(before', i) \in {At(dest', i), At(backup', i)}
    BY DEF Held, Whole, At
  <1>3. Whole(dest') \/ backup' # Nothing BY <1>1, <1>2, HeldIsMarked
  <1> QED BY <1>2, <1>3 DEF Safe, Whole, At

-----------------------------------------------------------------------------
(* The steps that move no file.                                            *)

diskVars == <<dest, destDir, export, exportDir, extra, backup, backupDir,
              before, committed>>

LEMMA SafeKept == FileInv /\ UNCHANGED diskVars => Safe'
  BY DEF FileInv, Safe, diskVars, At, Whole

\* The call ends with an error before anything moved.
LEMMA Refused ==
    ASSUME FileInv, UNCHANGED diskVars, pc' = "return", dest = before
    PROVE  FileInv'
  <1>1. Safe' BY SafeKept
  <1>2. UNCHANGED dest /\ UNCHANGED before BY DEF diskVars
  <1> QED
    BY <1>1, <1>2 DEF FileInv, Untouched, Placing, Replacing, Cleaning,
       Restoring, ErrorRestores

LEMMA ChecksStep ==
    ASSUME IType, FileInv, CheckExport \/ Baseline \/ Staged
    PROVE  FileInv'
  <1>1. UNCHANGED diskVars /\ UNCHANGED rollbackFailed
    BY DEF CheckExport, Baseline, Staged, diskVars, disk, call
  <1>2. pc \in {"check", "baseline", "staged"} /\ dest = before /\ ~rollbackFailed
    BY DEF CheckExport, Baseline, Staged, FileInv, Untouched, Restoring
  <1>3. pc' \in {"return", "baseline", "staged", "place", "backupDir"}
    BY DEF CheckExport, Baseline, Staged, Finish
  <1>4. CASE pc' = "return" BY <1>1, <1>2, <1>4, Refused
  <1>5. CASE pc' # "return"
    <2>1. Whole(export) /\ (pc' \in {"baseline", "backupDir"} => destDir)
          /\ (pc' = "place" => ~destDir)
      BY <1>5, <1>3 DEF CheckExport, Baseline, Staged, FileInv, Untouched, Finish
    <2>2. Safe' BY <1>1, SafeKept
    <2>3. Untouched' BY <1>1, <1>2, <1>3, <1>5, <2>1 DEF Untouched, diskVars, Whole, At
    <2>4. /\ Placing' /\ Replacing' /\ Cleaning'
      BY <1>3, <1>5 DEF Placing, Replacing, Cleaning
    <2>5. Restoring'
      BY <1>1, <1>2, <1>3, <1>5 DEF Restoring, ErrorRestores
    <2> QED BY <2>2, <2>3, <2>4, <2>5 DEF FileInv
  <1> QED BY <1>4, <1>5

LEMMA IdleStep ==
    ASSUME FileInv, Return \/ Crash \/ UNCHANGED vars
    PROVE  FileInv'
  <1>1. UNCHANGED diskVars
    BY DEF Return, Crash, vars, diskVars, disk
  <1>2. Safe' BY <1>1, SafeKept
  <1>3. CASE Return \/ Crash
    <2>1. pc' = "idle" /\ ~rollbackFailed'
      BY <1>3 DEF Return, Crash, Forget
    <2> QED
      BY <1>2, <2>1 DEF FileInv, Untouched, Placing, Replacing, Cleaning,
         Restoring, ErrorRestores
  <1>4. CASE UNCHANGED vars
    <2>1. /\ UNCHANGED <<dest, destDir, export, exportDir, extra, backup, backupDir>>
          /\ UNCHANGED <<pc, k, undo, rollbackFailed, result, before, committed>>
      BY <1>4 DEF vars
    <2> QED
      BY <1>2, <2>1 DEF FileInv, Untouched, Placing, Replacing, Cleaning,
         Restoring, ErrorRestores, ExactTrio, Held, Whole, At
  <1> QED BY <1>3, <1>4

\* The export of one second pass is of one piece, or lacks a file.
LEMMA ExportStep == ASSUME IType, FileInv, Export PROVE FileInv'
  <1>1. /\ UNCHANGED <<dest, destDir, backup, backupDir, committed>>
        /\ before' = dest /\ pc' = "check" /\ result' = "none"
        /\ UNCHANGED rollbackFailed /\ ~rollbackFailed
    BY DEF Export, FileInv, Restoring
  <1>2. ExactTrio' => Whole(export)'
    <2>1. PICK x : x # Absent
                   /\ \/ export' = Nothing \/ export' = All(x)
                      \/ \E f \in Files : export' = [All(x) EXCEPT ![f] = Absent]
      <3>1. calls \in Nat BY RefreshAssumption DEF IType, FileTypeOK
      <3>2. \A c, b : [id |-> calls + 1, created |-> c, base |-> b] # Absent
        BY <3>1 DEF Absent
      <3> QED BY <3>2 DEF Export
    <2>2. SUFFICES ASSUME ExactTrio' PROVE Whole(export)'
      OBVIOUS
    <2>3. \A f \in Files : export'[f] # Absent BY <2>2 DEF ExactTrio
    <2>4. export' = All(x)
      BY <2>1, <2>3, OwnedFiles DEF Nothing, All
    <2> QED BY <2>1, <2>4, OwnedFiles DEF Whole, At, All
  <1>3. Safe' BY <1>1 DEF FileInv, Safe, Whole, At
  <1>4. Untouched' BY <1>1, <1>2 DEF Untouched
  <1> QED
    BY <1>1, <1>3, <1>4 DEF FileInv, Placing, Replacing, Cleaning, Restoring,
       ErrorRestores

-----------------------------------------------------------------------------
(* The first placement.                                                    *)

LEMMA PlaceStep == ASSUME IType, FileInv, Place PROVE FileInv'
  <1>1. /\ dest = before /\ dest = Nothing /\ ~destDir /\ Whole(export)
        /\ committed = Nothing /\ ~rollbackFailed
    BY DEF Place, FileInv, Safe, Untouched, Restoring
  <1>2. CASE dest' = export /\ pc' = "placed"
    <2>1. /\ destDir' /\ UNCHANGED <<backup, backupDir, committed, before, rollbackFailed, result>>
          /\ dest' = export /\ pc' = "placed"
      <3>1. pc' # "return" BY <1>2
      <3> QED BY <1>2, <3>1 DEF Place, Finish
    <2>2. Whole(dest)' BY <1>1, <2>1 DEF Whole, At
    <2>3. Safe' BY <1>1, <2>1, <2>2 DEF FileInv, Safe
    <2>4. Placing' BY <1>1, <2>1, <2>2 DEF Placing
    <2> QED
      BY <1>1, <2>1, <2>3, <2>4 DEF FileInv, Untouched, Replacing, Cleaning,
         Restoring, ErrorRestores
  <1>3. CASE ~(dest' = export /\ pc' = "placed")
    <2>1. UNCHANGED diskVars /\ pc' = "return"
      BY <1>3 DEF Place, Finish, diskVars
    <2> QED BY <1>1, <2>1, Refused
  <1> QED BY <1>2, <1>3

LEMMA ValidatePlacedStep == ASSUME IType, FileInv, ValidatePlaced PROVE FileInv'
  <1>1. /\ destDir /\ Whole(dest) /\ committed = Nothing /\ before = Nothing
        /\ ~rollbackFailed
    BY DEF ValidatePlaced, FileInv, Placing, Restoring
  <1>2. /\ UNCHANGED <<dest, destDir, export, exportDir, extra, backup, backupDir, before>>
        /\ committed' = committed \/ committed' = dest
        /\ UNCHANGED rollbackFailed
        /\ \/ pc' = "return" /\ result' = "ok"
           \/ pc' = "unplace" /\ committed' = committed
    BY DEF ValidatePlaced, disk, Finish
  <1>3. Safe' BY <1>1, <1>2 DEF FileInv, Safe, Whole, At
  <1>4. Placing' BY <1>1, <1>2 DEF Placing, Whole, At
  <1> QED
    BY <1>1, <1>2, <1>3, <1>4 DEF FileInv, Untouched, Replacing, Cleaning,
       Restoring, ErrorRestores

LEMMA UnplaceStep == ASSUME IType, FileInv, Unplace PROVE FileInv'
  <1>1. /\ destDir /\ Whole(dest) /\ committed = Nothing /\ before = Nothing
    BY DEF Unplace, FileInv, Placing
  <1>2. /\ UNCHANGED <<backup, backupDir, before, committed>>
        /\ pc' = "return" /\ result' = "err"
        /\ \/ dest' = Nothing /\ ~destDir'
           \/ rollbackFailed' /\ UNCHANGED <<dest, destDir>>
    BY DEF Unplace, Finish
  <1>3. Safe'
    <2>1. CASE dest' = Nothing /\ ~destDir'
      BY <1>1, <1>2, <2>1 DEF FileInv, Safe
    <2>2. CASE UNCHANGED <<dest, destDir>>
      BY <1>1, <1>2, <2>2 DEF FileInv, Safe, Whole, At
    <2> QED BY <1>2, <2>1, <2>2
  <1> QED
    BY <1>1, <1>2, <1>3 DEF FileInv, Untouched, Placing, Replacing, Cleaning,
       Restoring, ErrorRestores

-----------------------------------------------------------------------------
(* The replacement.                                                        *)

\* With a fresh backup directory the found trio is held where it is.
LEMMA CreateBackupStep == ASSUME IType, FileInv, CreateBackup PROVE FileInv'
  <1>1. /\ dest = before /\ destDir /\ Whole(export) /\ ~rollbackFailed
    BY DEF CreateBackup, FileInv, Untouched, Restoring
  <1>2. CASE UNCHANGED diskVars /\ pc' = "return" BY <1>1, <1>2, Refused
  <1>3. CASE ~(UNCHANGED diskVars /\ pc' = "return")
    <2>1. /\ ~backupDir /\ backupDir' /\ pc' = "backUp" /\ k' = 1
          /\ UNCHANGED <<dest, destDir, export, exportDir, extra, backup, before,
                         committed, rollbackFailed, undo, result>>
      <3>1. \/ FreeForBackup /\ backupDir' = TRUE /\ pc' = "backUp" /\ k' = 1
               /\ UNCHANGED result
            \/ Finish("err") /\ UNCHANGED <<backupDir, k>>
        BY DEF CreateBackup
      <3>2. UNCHANGED <<dest, destDir, export, exportDir, extra, backup, before,
                       committed, rollbackFailed, undo>>
        BY DEF CreateBackup
      <3> QED BY <1>3, <3>1, <3>2 DEF FreeForBackup, Finish, diskVars
    <2>2. backup = Nothing /\ Whole(dest)
      BY <1>1, <2>1 DEF FileInv, Safe
    <2>3. committed \in {Nothing, before}
      <3>1. SUFFICES ASSUME committed # Nothing PROVE committed = before
        OBVIOUS
      <3>2. \A i \in 1..3 : At(committed, i) = At(dest, i)
        BY <2>2, <3>1, NothingIsAbsent DEF FileInv, Safe, Whole
      <3> QED BY <1>1, <3>2, SameTrio DEF IType, FileTypeOK
    <2>4. Replacing'
      BY <1>1, <2>1, <2>2, <2>3, NothingIsAbsent DEF Replacing, Held, Whole, At
    <2>5. Safe' BY <2>1, <2>2 DEF FileInv, Safe, Whole, At
    <2>6. Untouched' BY <1>1, <2>1 DEF Untouched, Whole, At
    <2> QED
      BY <1>1, <2>1, <2>4, <2>5, <2>6 DEF FileInv, Placing, Cleaning,
         Restoring, ErrorRestores
  <1> QED BY <1>2, <1>3

\* A rollback that starts from a held trio.
LEMMA RollbackStarts ==
    ASSUME IType, IType', FileInv, pc \in {"backUp", "install", "validate"},
           UNCHANGED <<dest, destDir, backup, backupDir, before, committed,
                       rollbackFailed>>,
           NEW n \in 0..3, NEW b \in 0..3, Rollback(n, b),
           n > 0 => b = 3,
           \A i \in 1..b : At(backup, i) = At(before, i),
           \A i \in 1..3 : i > b => At(dest, i) = At(before, i)
    PROVE  FileInv'
  <1>1. pc' = "rollback" /\ undo'.installed = n /\ undo'.backedUp = b
    BY DEF Rollback
  <1>2. destDir /\ backupDir /\ Held /\ committed \in {Nothing, before}
        /\ ~rollbackFailed
    BY DEF FileInv, Replacing, Restoring
  <1>3. Replacing'
    BY <1>1, <1>2 DEF Replacing, Held, Whole, At
  <1>4. Safe' BY DEF FileInv, Safe, Whole, At
  <1>5. Restoring'
    BY <1>1, <1>2 DEF Restoring, ErrorRestores, At
  <1> QED
    BY <1>1, <1>3, <1>4, <1>5 DEF FileInv, Untouched, Placing, Cleaning

LEMMA BackUpStep == ASSUME IType, IType', FileInv, BackUp PROVE FileInv'
  <1>1. /\ k \in 1..3 /\ dest \in Trios /\ backup \in Trios /\ before \in Trios
    BY DEF IType, ControlTypeOK, FileTypeOK
  <1>2. /\ pc = "backUp" /\ destDir /\ backupDir /\ Held
        /\ committed \in {Nothing, before} /\ Whole(export) /\ ~rollbackFailed
    BY DEF BackUp, FileInv, Replacing, Untouched, Restoring
  <1>3. \A i \in 1..3 :
          IF i < k THEN At(backup, i) = At(before, i)
                   ELSE At(dest, i) = At(before, i) /\ At(backup, i) = Absent
    BY <1>2 DEF FileInv, Replacing
  <1>4. CASE /\ UNCHANGED <<dest, backup>> /\ Rollback(0, k - 1)
    <2>1. /\ UNCHANGED <<dest, destDir, backup, backupDir, before, committed,
                          rollbackFailed>>
      BY <1>4 DEF BackUp
    <2>2. k - 1 \in 0..3 /\ 0 \in 0..3 BY <1>1
    <2> QED BY <1>1, <1>2, <1>3, <1>4, <2>1, <2>2, RollbackStarts
  <1>5. CASE /\ dest[OWNED[k]] # Absent
             /\ backup' = [backup EXCEPT ![OWNED[k]] = dest[OWNED[k]]]
             /\ dest' = [dest EXCEPT ![OWNED[k]] = Absent]
             /\ IF k = 3 THEN pc' = "install" /\ k' = 1
                         ELSE pc' = pc /\ k' = k + 1
    <2>1. /\ UNCHANGED <<destDir, export, exportDir, extra, backupDir, before,
                          committed, rollbackFailed, result>>
      BY DEF BackUp
    <2>2. \A i \in 1..3 :
            /\ At(dest', i) = IF i = k THEN Absent ELSE At(dest, i)
            /\ At(backup', i) = IF i = k THEN At(before, i) ELSE At(backup, i)
      BY <1>1, <1>3, <1>5, OneFile DEF At
    <2>3. Held'
      <3>1. \A i \in 1..3 : At(before, i) \in {At(dest', i), At(backup', i)}
        BY <1>1, <1>2, <2>2 DEF Held
      <3> QED BY <1>2, <2>1, <3>1 DEF Held, Whole, At
    <2>4. Safe' BY <1>2, <2>1, <2>3, HeldIsSafe
    <2>5. CASE k = 3
      <3>1. pc' = "install" /\ k' = 1 BY <1>5, <2>5
      <3>2. \A i \in 1..3 : At(backup', i) = At(before, i)
        BY <1>1, <1>3, <2>2, <2>5
      <3>3. Replacing'
        BY <1>2, <2>1, <2>3, <3>1, <3>2 DEF Replacing, Whole, At
      <3> QED
        BY <1>2, <2>1, <2>4, <3>1, <3>3 DEF FileInv, Untouched, Placing,
           Cleaning, Restoring, ErrorRestores
    <2>6. CASE k # 3
      <3>1. pc' = "backUp" /\ k' = k + 1 BY <1>2, <1>5, <2>6
      <3>2. \A i \in 1..3 :
              IF i < k' THEN At(backup', i) = At(before, i)
              ELSE At(dest', i) = At(before, i) /\ At(backup', i) = Absent
        BY <1>1, <1>3, <2>2, <3>1
      <3>3. Replacing'
        BY <1>2, <2>1, <2>3, <3>1, <3>2 DEF Replacing, At
      <3>4. Untouched' BY <1>2, <2>1, <3>1 DEF Untouched, Whole, At
      <3> QED
        BY <1>2, <2>1, <2>4, <3>1, <3>3, <3>4 DEF FileInv, Placing, Cleaning,
           Restoring, ErrorRestores
    <2> QED BY <2>5, <2>6
  <1> QED BY <1>4, <1>5 DEF BackUp

LEMMA InstallStep == ASSUME IType, IType', FileInv, Install PROVE FileInv'
  <1>1. /\ k \in 1..3 /\ dest \in Trios /\ export \in Trios /\ before \in Trios
    BY DEF IType, ControlTypeOK, FileTypeOK
  <1>2. /\ pc = "install" /\ destDir /\ backupDir /\ Held
        /\ committed \in {Nothing, before} /\ ~rollbackFailed
        /\ \A i \in 1..3 : At(backup, i) = At(before, i)
    BY DEF Install, FileInv, Replacing, Restoring
  <1> DEFINE new(i) == IF i < k THEN At(dest, i) ELSE At(export, i)
  <1>3. \A i, j \in 1..3 : new(i) = new(j) /\ new(i) # Absent
    BY <1>2 DEF FileInv, Replacing
  <1>4. UNCHANGED <<destDir, backup, backupDir, before, committed,
                    rollbackFailed, result>>
    BY DEF Install
  <1>5. CASE UNCHANGED <<dest, export, k>> /\ Rollback(k - 1, 3)
    <2>1. k - 1 \in 0..3 /\ 3 \in 0..3 BY <1>1
    <2> HIDE DEF new
    <2> QED BY <1>2, <1>4, <1>5, <2>1, RollbackStarts
  <1>6. CASE /\ export[OWNED[k]] # Absent
             /\ dest' = [dest EXCEPT ![OWNED[k]] = export[OWNED[k]]]
             /\ export' = [export EXCEPT ![OWNED[k]] = Absent]
             /\ IF k = 3 THEN pc' = "validate" /\ k' = 1
                         ELSE pc' = pc /\ k' = k + 1
    <2>1. \A i \in 1..3 :
            /\ At(dest', i) = IF i = k THEN At(export, i) ELSE At(dest, i)
            /\ At(export', i) = IF i = k THEN Absent ELSE At(export, i)
      BY <1>1, <1>6, OneFile DEF At
    <2>2. Held' BY <1>2, <1>4 DEF Held, Whole, At
    <2>3. Safe' BY <1>2, <1>4, <2>2, HeldIsSafe
    <2>4. CASE k = 3
      <3>1. pc' = "validate" BY <1>6, <2>4
      <3>2. Whole(dest') BY <1>1, <1>3, <2>1, <2>4 DEF Whole
      <3>3. Replacing' BY <1>2, <1>4, <2>2, <3>1, <3>2 DEF Replacing, Whole, At
      <3> QED
        BY <1>2, <1>4, <2>3, <3>1, <3>3 DEF FileInv, Untouched, Placing,
           Cleaning, Restoring, ErrorRestores
    <2>5. CASE k # 3
      <3>1. pc' = "install" /\ k' = k + 1 BY <1>2, <1>6, <2>5
      <3> DEFINE now(i) == IF i < k' THEN At(dest', i) ELSE At(export', i)
      <3>2. \A i \in 1..3 : now(i) = new(i) BY <1>1, <2>1, <3>1
      <3>3. \A i, j \in 1..3 : now(i) = now(j) /\ now(i) # Absent
        <4> HIDE DEF new, now
        <4> QED BY <1>3, <3>2
      <3>4. Replacing' BY <1>2, <1>4, <2>2, <3>1, <3>3 DEF Replacing, At
      <3> QED
        BY <1>2, <1>4, <2>3, <3>1, <3>4 DEF FileInv, Untouched, Placing,
           Cleaning, Restoring, ErrorRestores
    <2> QED BY <2>4, <2>5
  <1> QED BY <1>5, <1>6 DEF Install

\* The commit point: either way the trio in place is whole.
LEMMA ValidateStep == ASSUME IType, IType', FileInv, Validate PROVE FileInv'
  <1>1. /\ pc = "validate" /\ destDir /\ backupDir /\ Whole(dest)
        /\ ~rollbackFailed /\ \A i \in 1..3 : At(backup, i) = At(before, i)
    BY DEF Validate, FileInv, Replacing, Restoring
  <1>2. UNCHANGED <<dest, destDir, backup, backupDir, before, rollbackFailed, result>>
    BY DEF Validate, disk
  <1>3. CASE UNCHANGED <<committed, k>> /\ Rollback(3, 3)
    BY <1>1, <1>2, <1>3, RollbackStarts
  <1>4. CASE committed' = dest /\ pc' = "clean"
    <2>1. Safe' BY <1>1, <1>2, <1>4 DEF FileInv, Safe, Whole, At
    <2>2. Cleaning' BY <1>1, <1>2, <1>4 DEF Cleaning, Whole, At
    <2> QED
      BY <1>1, <1>2, <1>4, <2>1, <2>2 DEF FileInv, Untouched, Placing,
         Replacing, Restoring, ErrorRestores
  <1> QED BY <1>3, <1>4 DEF Validate

LEMMA CleaningSteps == ASSUME IType, FileInv, Clean \/ CleanDirs PROVE FileInv'
  <1>1. /\ pc \in {"clean", "cleanDirs"} /\ destDir /\ backupDir
        /\ committed = dest /\ Whole(dest) /\ ~rollbackFailed
    BY DEF Clean, CleanDirs, FileInv, Cleaning, Restoring
  <1>2. UNCHANGED <<dest, destDir, before, committed, rollbackFailed>>
    BY DEF Clean, CleanDirs
  <1>3. CASE Clean
    <2>1. pc' \in {"clean", "cleanDirs"} /\ UNCHANGED <<backupDir, result>>
      BY <1>3, <1>1 DEF Clean
    <2>2. Safe' BY <1>1, <1>2, <2>1 DEF FileInv, Safe, Whole, At
    <2>3. Cleaning' BY <1>1, <1>2, <2>1 DEF Cleaning, Whole, At
    <2> QED
      BY <1>1, <1>2, <2>1, <2>2, <2>3 DEF FileInv, Untouched, Placing,
         Replacing, Restoring, ErrorRestores
  <1>4. CASE CleanDirs
    <2>1. /\ pc' = "return" /\ result' = "ok" /\ UNCHANGED backup
          /\ ~backupDir' => backup = Nothing
      <3>1. backupDir' \in {backupDir, ~Empty(backup)} BY <1>4 DEF CleanDirs
      <3>2. ~backupDir' => Empty(backup) BY <1>1, <3>1, Zenon
      <3> QED BY <1>4, <3>2 DEF CleanDirs, Finish, Empty
    <2>2. Safe' BY <1>1, <1>2, <2>1 DEF FileInv, Safe, Whole, At
    <2> QED
      BY <1>1, <1>2, <2>1, <2>2 DEF FileInv, Untouched, Placing, Replacing,
         Cleaning, Restoring, ErrorRestores
  <1> QED BY <1>3, <1>4

-----------------------------------------------------------------------------
(* The rollback.                                                           *)

LEMMA UndoInstallStep == ASSUME IType, IType', FileInv, UndoInstall PROVE FileInv'
  <1>1. /\ undo \in [installed : 0..3, backedUp : 0..3]
        /\ pc = "rollback" /\ destDir /\ backupDir /\ Held
        /\ committed \in {Nothing, before}
    BY DEF UndoInstall, IType, ControlTypeOK, FileInv, Replacing
  <1>2. undo.installed \in 1..3 /\ undo.backedUp = 3
    BY <1>1, Undone DEF UndoInstall, FileInv, Replacing
  <1>3. \A i \in 1..3 : At(backup, i) = At(before, i)
    BY <1>1, <1>2 DEF FileInv, Replacing
  <1>4. /\ UNCHANGED <<destDir, backup, backupDir, pc, before, committed, result>>
        /\ undo'.backedUp = 3
    BY <1>1, <1>2 DEF UndoInstall
  <1>5. Held' BY <1>1, <1>3, <1>4 DEF Held, Whole, At
  <1>6. Safe' BY <1>1, <1>4, <1>5, HeldIsSafe
  <1>7. Replacing' BY <1>1, <1>3, <1>4, <1>5 DEF Replacing, At
  <1>8. Restoring' BY <1>1, <1>4 DEF Restoring, ErrorRestores
  <1> QED
    BY <1>1, <1>4, <1>6, <1>7, <1>8 DEF FileInv, Untouched, Placing, Cleaning

LEMMA UndoBackupStep == ASSUME IType, IType', FileInv, UndoBackup PROVE FileInv'
  <1>1. /\ undo \in [installed : 0..3, backedUp : 0..3]
        /\ pc = "rollback" /\ destDir /\ backupDir /\ Held
        /\ committed \in {Nothing, before}
        /\ dest \in Trios /\ backup \in Trios /\ before \in Trios
    BY DEF UndoBackup, IType, ControlTypeOK, FileTypeOK, FileInv, Replacing
  <1> DEFINE b == undo.backedUp
  <1>2. undo.installed = 0 /\ b \in 1..3 BY <1>1, Undone DEF UndoBackup
  <1>3. \A i \in 1..b : At(backup, i) = At(before, i)
    BY <1>1 DEF FileInv, Replacing
  <1>4. /\ UNCHANGED <<destDir, backupDir, pc, before, committed, result>>
        /\ undo'.backedUp = b - 1 /\ undo'.installed = 0
    BY <1>1, <1>2 DEF UndoBackup
  <1>5. CASE /\ dest' = [dest EXCEPT ![OWNED[b]] = backup[OWNED[b]]]
             /\ backup' = [backup EXCEPT ![OWNED[b]] = Absent]
             /\ UNCHANGED rollbackFailed
    <2>1. \A i \in 1..3 :
            /\ At(dest', i) = IF i = b THEN At(before, i) ELSE At(dest, i)
            /\ At(backup', i) = IF i = b THEN Absent ELSE At(backup, i)
      BY <1>1, <1>2, <1>3, <1>5, OneFile DEF At
    <2> HIDE DEF b
    <2>2. Held'
      <3>1. \A i \in 1..3 : At(before, i) \in {At(dest', i), At(backup', i)}
        BY <1>1, <2>1 DEF Held
      <3> QED BY <1>1, <1>4, <3>1 DEF Held, Whole, At
    <2>3. Safe' BY <1>1, <1>4, <2>2, HeldIsSafe
    <2>4. \A i \in 1..(b - 1) : At(backup', i) = At(before', i)
      BY <1>2, <1>3, <1>4, <2>1
    <2>5. Replacing'
      BY <1>1, <1>4, <2>2, <2>4 DEF Replacing, At
    <2>6. ~rollbackFailed => \A i \in 1..3 : i > b => At(dest, i) = At(before, i)
      BY <1>1 DEF FileInv, Restoring, b
    <2>7. ~rollbackFailed' =>
            \A i \in 1..3 : i > b - 1 => At(dest', i) = At(before', i)
      BY <1>2, <1>4, <1>5, <2>1, <2>6
    <2>8. Restoring' BY <1>1, <1>4, <2>7 DEF Restoring, ErrorRestores, At
    <2> QED
      BY <1>1, <1>4, <2>3, <2>5, <2>8 DEF FileInv, Untouched, Placing, Cleaning
  <1>6. CASE rollbackFailed' = TRUE /\ UNCHANGED <<dest, backup>>
    <2>1. Held' BY <1>1, <1>4, <1>6 DEF Held, Whole, At
    <2>2. Safe' BY <1>1, <1>4, <2>1, HeldIsSafe
    <2>3. Replacing' BY <1>1, <1>2, <1>3, <1>4, <1>6, <2>1 DEF Replacing, At
    <2>4. Restoring' BY <1>1, <1>4, <1>6 DEF Restoring, ErrorRestores
    <2> QED
      BY <1>1, <1>4, <2>2, <2>3, <2>4 DEF FileInv, Untouched, Placing, Cleaning
  <1> QED BY <1>5, <1>6 DEF UndoBackup

\* Without a failure everything is back when the directory's turn comes.
LEMMA UndoDirectoryStep == ASSUME IType, IType', FileInv, UndoDirectory PROVE FileInv'
  <1>1. /\ undo \in [installed : 0..3, backedUp : 0..3]
        /\ pc = "rollback" /\ destDir /\ backupDir /\ Held
        /\ committed \in {Nothing, before}
        /\ dest \in Trios /\ before \in Trios
    BY DEF UndoDirectory, IType, ControlTypeOK, FileTypeOK, FileInv, Replacing
  <1>2. undo.installed = 0 /\ undo.backedUp = 0
    BY <1>1, Undone DEF UndoDirectory
  <1>3. ~rollbackFailed => dest = before
    <2>1. SUFFICES ASSUME ~rollbackFailed PROVE dest = before
      OBVIOUS
    <2>2. \A i \in 1..3 : At(dest, i) = At(before, i)
      BY <1>1, <1>2, <2>1 DEF FileInv, Restoring
    <2> QED BY <1>1, <2>2, SameTrio
  <1>4. /\ UNCHANGED <<dest, destDir, backup, before, committed>>
        /\ pc' = "return" /\ result' = "err"
        /\ \/ backup = Nothing /\ UNCHANGED rollbackFailed
           \/ rollbackFailed' /\ UNCHANGED backupDir
    BY DEF UndoDirectory, RemoveBackup, Finish, Empty
  <1>5. Safe'
    <2>1. backup = Nothing => Whole(dest)
      BY <1>1, HeldIsMarked DEF Held, IType, FileTypeOK
    <2> QED BY <1>1, <1>4, <2>1 DEF FileInv, Safe, Held, Whole, At
  <1>6. Restoring' BY <1>3, <1>4 DEF Restoring, ErrorRestores
  <1> QED
    BY <1>4, <1>5, <1>6 DEF FileInv, Untouched, Placing, Replacing, Cleaning

-----------------------------------------------------------------------------
(* The invariant, and what follows from it.                                *)

LEMMA FileInvariant == Spec => []FileInv
  <1>1. ASSUME Init PROVE FileInv
    <2>1. \/ dest = All(Pass1) /\ destDir = TRUE
          \/ dest = Nothing /\ destDir = FALSE
      BY <1>1 DEF Init
    <2>2. Whole(All(Pass1)) BY OwnedFiles DEF Whole, At, All, Pass1, Absent
    <2>3. /\ committed = dest /\ backup = Nothing /\ pc = "idle" /\ ~rollbackFailed
      BY <1>1 DEF Init
    <2>4. Safe BY <2>1, <2>2, <2>3, NothingIsAbsent DEF Safe
    <2> QED
      BY <2>3, <2>4 DEF FileInv, Untouched, Placing, Replacing, Cleaning,
         Restoring, ErrorRestores
  <1>2. ASSUME IType, IType', FileInv, [Next]_vars PROVE FileInv'
    BY <1>2, ChecksStep, IdleStep, ExportStep, PlaceStep, ValidatePlacedStep,
       UnplaceStep, CreateBackupStep, BackUpStep, InstallStep, ValidateStep,
       CleaningSteps, UndoInstallStep, UndoBackupStep, UndoDirectoryStep
    DEF Next, Refresh
  <1> QED BY <1>1, <1>2, TypeInvariant, PTL DEF Spec

\* Whatever operation fails and wherever the program dies, each file of the
\* trio that was last validated in place is in the destination or in the
\* backup (refresh_decompiled_with, rollback_refresh).
THEOREM NothingValidatedIsLost == Spec => []Recoverable
  <1>1. FileInv => Recoverable
    <2>1. SUFFICES ASSUME FileInv, committed # Nothing, NEW f \in Files
                   PROVE  committed[f] \in {dest[f], backup[f]}
      BY DEF Recoverable
    <2>2. PICK i \in 1..3 : f = OWNED[i] BY OwnedFiles
    <2> QED BY <2>1, <2>2 DEF FileInv, Safe, At
  <1> QED BY <1>1, FileInvariant, PTL

\* A destination that is not one whole export is marked by a backup directory
\* with a file in it, on which a later refresh is refused.
THEOREM HalfReplacedIsMarked == Spec => []MixedIsMarked
  <1>1. FileInv => MixedIsMarked
    <2>1. SUFFICES ASSUME FileInv, destDir, NEW f \in Files, NEW g \in Files,
                          dest[f] # dest[g] \/ dest[f] = Absent
                   PROVE  backupDir /\ ~Empty(backup)
      BY DEF MixedIsMarked
    <2>2. PICK i \in 1..3, j \in 1..3 : f = OWNED[i] /\ g = OWNED[j]
      BY OwnedFiles
    <2>3. ~Whole(dest) BY <2>1, <2>2 DEF Whole, At
    <2> QED BY <2>1, <2>3 DEF FileInv, Safe, Empty
  <1> QED BY <1>1, FileInvariant, PTL

\* An error without a rollback failure leaves the destination as the call
\* found it, at whichever of the operations it arose.
THEOREM RollbackRestores == Spec => []ErrorRestores
  <1>1. FileInv => ErrorRestores BY DEF FileInv, Restoring
  <1> QED BY <1>1, FileInvariant, PTL

-----------------------------------------------------------------------------
(* What the files list.                                                    *)

\* Nothing is listed that the project does not own.
Contained ==
    \A i \in 1..3 : /\ At(dest, i).created \subseteq owned
                    /\ At(export, i).created \subseteq owned
                    /\ At(backup, i).created \subseteq owned

\* What the validations of a replacement compare with is the inventory that
\* the call found.
Remembered ==
    /\ pc \in {"backupDir", "backUp", "install", "validate"} => retained = Json(before)
    /\ pc = "staged" /\ destDir => retained = Json(before)

\* What is installed is this call's export.
Fresh ==
    /\ pc = "check" /\ ExactTrio => Json(export).id = calls
    /\ pc \in {"baseline", "staged", "place", "backupDir", "backUp", "install"} =>
         Json(export).id = calls
    /\ pc \in {"placed", "validate", "clean", "cleanDirs"} => Json(dest).id = calls

\* A summary that is not there counts nothing.
Bare(s) == ~s.some => s.created = 0 /\ s.reapplied = 0
Blank == Bare(summary) /\ Bare(view)

\* Success is told once, of the trio then in place.
Succeeded ==
    /\ pc \notin {"return", "idle"} => result = "none"
    /\ result = "ok" =>
         /\ dest = committed /\ Whole(dest) /\ Json(dest).id = calls
         /\ pc = "idle" => raw = Cardinality(Json(dest).created)

ListInv == Contained /\ Remembered /\ Fresh /\ Blank /\ Succeeded /\ CountersAreHonest

\* A step that exports nothing only moves files or removes them.
Found(i) == {At(dest, i), At(export, i), At(backup, i), Absent}

LEMMA FilesMove ==
    ASSUME IType, Next, ~Export
    PROVE  /\ UNCHANGED owned
           /\ \A i \in 1..3 : /\ At(dest', i) \in Found(i)
                              /\ At(export', i) \in Found(i)
                              /\ At(backup', i) \in Found(i)
  <1>1. /\ dest \in Trios /\ export \in Trios /\ backup \in Trios
        /\ k \in 1..3 /\ undo \in [installed : 0..3, backedUp : 0..3]
    BY DEF IType, FileTypeOK, ControlTypeOK
  <1>2. \A i \in 1..3 : At(Nothing, i) = Absent BY NothingIsAbsent
  <1> USE <1>1 DEF Found
  <1>3. CASE Place \/ Unplace
    <2>1. /\ UNCHANGED <<backup, owned>>
          /\ dest' \in {dest, export, Nothing} /\ export' \in {export, dest, Nothing}
      BY <1>3 DEF Place, Unplace, call
    <2> QED BY <2>1, <1>2
  <1>4. CASE BackUp
    <2>1. UNCHANGED <<export, owned>> BY <1>4 DEF BackUp
    <2>2. \A i \in 1..3 : /\ At(dest', i) \in {At(dest, i), Absent}
                          /\ At(backup', i) \in {At(backup, i), At(dest, i)}
      BY <1>4, OwnedFiles DEF BackUp, At, Trios
    <2> QED BY <2>1, <2>2
  <1>5. CASE Install
    <2>1. UNCHANGED <<backup, owned>> BY <1>5 DEF Install
    <2>2. \A i \in 1..3 : /\ At(dest', i) \in {At(dest, i), At(export, i)}
                          /\ At(export', i) \in {At(export, i), Absent}
      BY <1>5, OwnedFiles DEF Install, At, Trios
    <2> QED BY <2>1, <2>2
  <1>6. CASE Clean
    <2>1. UNCHANGED <<dest, export, owned>> BY <1>6 DEF Clean
    <2>2. \A i \in 1..3 : At(backup', i) \in {At(backup, i), Absent}
      BY <1>6, OwnedFiles DEF Clean, At, Trios
    <2> QED BY <2>1, <2>2
  <1>7. CASE UndoInstall
    <2>1. UNCHANGED <<backup, owned>> BY <1>7 DEF UndoInstall
    <2>2. PICK n \in 1..3 : n = undo.installed BY <1>7, Undone DEF UndoInstall
    <2>3. \A i \in 1..3 : /\ At(dest', i) \in {At(dest, i), Absent}
                          /\ At(export', i) \in {At(export, i), At(dest, i)}
      BY <1>7, <2>2, OwnedFiles DEF UndoInstall, At, Trios
    <2> QED BY <2>1, <2>3
  <1>8. CASE UndoBackup
    <2>1. UNCHANGED <<export, owned>> BY <1>8 DEF UndoBackup
    <2>2. PICK n \in 1..3 : n = undo.backedUp BY <1>8, Undone DEF UndoBackup
    <2>3. \A i \in 1..3 : /\ At(dest', i) \in {At(dest, i), At(backup, i)}
                          /\ At(backup', i) \in {At(backup, i), Absent}
      BY <1>8, <2>2, OwnedFiles DEF UndoBackup, At, Trios
    <2> QED BY <2>1, <2>3
  <1>9. CASE UNCHANGED <<dest, export, backup, owned>> BY <1>9
  <1> QED
    BY <1>3, <1>4, <1>5, <1>6, <1>7, <1>8, <1>9
    DEF Next, Refresh, disk, CheckExport, Baseline, Staged, ValidatePlaced,
        CreateBackup, Validate, CleanDirs, UndoDirectory, RemoveBackup, Return, Crash

LEMMA ContainedStep ==
    ASSUME IType, Contained, [Next]_vars
    PROVE  Contained'
  <1> USE DEF Contained
  <1>1. CASE Export
    <2>1. PICK made, x : /\ owned' = owned \cup made /\ x.created = owned \cup made
                         /\ \/ export' = Nothing \/ export' = All(x)
                            \/ \E f \in Files : export' = [All(x) EXCEPT ![f] = Absent]
      <3>1. PICK new \in SUBSET (Candidates \ owned), base \in BOOLEAN, named \in BOOLEAN :
              LET made == IF named THEN new ELSE {}
                  x == [id |-> calls + 1, created |-> owned \cup made, base |-> base]
              IN  /\ owned' = owned \cup made
                  /\ \/ export' = Nothing
                     \/ export' = All(x)
                     \/ \E f \in Files : export' = [All(x) EXCEPT ![f] = Absent]
        BY <1>1, Zenon DEF Export
      <3> DEFINE made == IF named THEN new ELSE {}
                 x == [id |-> calls + 1, created |-> owned \cup made, base |-> base]
      <3>2. x.created = owned \cup made OBVIOUS
      <3> HIDE DEF x, made
      <3> QED BY <3>1, <3>2 DEF x, made
    <2>2. \A i \in 1..3 : At(export', i) \in {x, Absent}
      BY <2>1, NothingIsAbsent, OwnedFiles DEF All, At
    <2>3. UNCHANGED <<dest, backup>> BY <1>1 DEF Export
    <2> QED BY <2>1, <2>2, <2>3 DEF At, Absent
  <1>2. CASE Next /\ ~Export
    <2>1. Absent.created = {} BY DEF Absent
    <2> QED BY <1>2, <2>1, FilesMove DEF Found
  <1>3. CASE UNCHANGED <<dest, export, backup, owned>> BY <1>3 DEF At
  <1> QED BY <1>1, <1>2, <1>3 DEF vars

LEMMA RememberedStep ==
    ASSUME FileInv, Remembered, [Next]_vars
    PROVE  Remembered'
  <1> USE DEF Remembered
  <1>1. CASE Export \/ Return \/ Crash
    BY <1>1 DEF Export, Return, Crash, Forget
  <1>2. CASE CheckExport
    BY <1>2 DEF CheckExport, Finish, disk
  <1>3. CASE Baseline
    <2>1. dest = before BY <1>3 DEF Baseline, FileInv, Untouched
    <2> QED BY <1>3, <2>1 DEF Baseline, Finish, disk, Json
  <1>4. CASE Staged BY <1>4 DEF Staged, Finish, disk
  <1>5. CASE Place \/ ValidatePlaced \/ Unplace
    BY <1>5 DEF Place, ValidatePlaced, Unplace, Finish
  <1>6. CASE CreateBackup BY <1>6 DEF CreateBackup, Finish
  <1>7. CASE BackUp \/ Install \/ Validate
    BY <1>7 DEF BackUp, Install, Validate, Rollback
  <1>8. CASE Clean \/ CleanDirs BY <1>8 DEF Clean, CleanDirs, Finish
  <1>9. CASE UndoInstall \/ UndoBackup \/ UndoDirectory
    BY <1>9 DEF UndoInstall, UndoBackup, UndoDirectory, Finish
  <1>10. CASE UNCHANGED vars BY <1>10 DEF vars
  <1> QED
    BY <1>1, <1>2, <1>3, <1>4, <1>5, <1>6, <1>7, <1>8, <1>9, <1>10
    DEF Next, Refresh

LEMMA BlankStep ==
    ASSUME IType, Blank, [Next]_vars
    PROVE  Blank'
  <1>1. summary \in Summaries BY DEF IType, CountTypeOK
  <1>2. Bare(NoSummary) BY DEF Bare, NoSummary
  <1>3. Bare(UnpublishedReplay(summary))
    BY DEF Blank, Bare, UnpublishedReplay, WithCounts, Counted
  <1>4. \A c, r : Bare(Counted(c, r)) BY DEF Bare, Counted
  <1>5. view' \in {view, summary, NoSummary, UnpublishedReplay(summary)}
    BY DEF Next, Refresh, vars, call, Export, CheckExport, Baseline, Staged,
           Place, ValidatePlaced, Unplace, CreateBackup, BackUp, Install,
           Validate, Clean, CleanDirs, UndoInstall, UndoBackup,
           UndoDirectory, Return, Crash, Forget
  <1>6. summary' \in {summary, NoSummary} \/ \E c, r : summary' = Counted(c, r)
    <2>1. CASE Export BY <2>1 DEF Export
    <2> QED
      BY <2>1 DEF Next, Refresh, vars, call, CheckExport, Baseline, Staged,
           Place, ValidatePlaced, Unplace, CreateBackup, BackUp, Install,
           Validate, Clean, CleanDirs, UndoInstall, UndoBackup,
           UndoDirectory, Return, Crash, Forget
  <1>7. Bare(view') /\ Bare(summary') BY <1>2, <1>3, <1>4, <1>5, <1>6 DEF Blank
  <1> QED BY <1>7 DEF Blank, Bare

LEMMA FreshStep ==
    ASSUME IType, Fresh, [Next]_vars
    PROVE  Fresh'
  <1> USE DEF Fresh
  <1>1. /\ k \in 1..3 /\ dest \in Trios /\ export \in Trios
    BY DEF IType, FileTypeOK, ControlTypeOK
  <1>2. CASE Export
    <2>1. PICK x : /\ x.id = calls + 1
                   /\ \/ export' = Nothing \/ export' = All(x)
                      \/ \E f \in Files : export' = [All(x) EXCEPT ![f] = Absent]
      <3>1. \A c, b : [id |-> calls + 1, created |-> c, base |-> b].id = calls + 1
        OBVIOUS
      <3> QED BY <1>2, <3>1 DEF Export
    <2>2. pc' = "check" /\ calls' = calls + 1 BY <1>2 DEF Export
    <2>3. SUFFICES ASSUME ExactTrio' PROVE Json(export)'.id = calls'
      BY <2>2
    <2>4. \A f \in Files : export'[f] # Absent BY <2>3 DEF ExactTrio
    <2>5. export' = All(x) BY <2>1, <2>4, OwnedFiles DEF Nothing, All
    <2> QED BY <2>1, <2>2, <2>5, OwnedFiles DEF Json, All
  <1>3. CASE CheckExport
    <2>1. UNCHANGED <<export, calls>> BY <1>3 DEF CheckExport, disk, call
    <2>2. (pc' \in {"baseline", "staged"} /\ ExactTrio) \/ pc' = "return"
      BY <1>3 DEF CheckExport, Finish
    <2> QED BY <1>3, <2>1, <2>2 DEF CheckExport, Json
  <1>4. CASE Baseline \/ Staged
    <2>1. /\ UNCHANGED <<export, calls>>
          /\ pc' \in {"staged", "place", "backupDir", "return"}
      BY <1>4 DEF Baseline, Staged, disk, call, Finish
    <2> QED BY <1>4, <2>1 DEF Baseline, Staged, Json
  <1>5. CASE Place
    <2>1. UNCHANGED calls /\ ((pc' = "placed" /\ dest' = export) \/ pc' = "return")
      BY <1>5 DEF Place, call, Finish
    <2> QED BY <1>5, <2>1 DEF Place, Json
  <1>6. CASE CreateBackup \/ BackUp
    <2>1. /\ UNCHANGED <<export, calls>>
          /\ pc' \in {"backUp", "install", "rollback", "return"}
      BY <1>6 DEF CreateBackup, BackUp, call, Finish, Rollback
    <2> QED BY <1>6, <2>1 DEF CreateBackup, BackUp, Json
  <1>7. CASE Install
    <2>1. /\ UNCHANGED calls
          /\ \/ pc' = "rollback"
             \/ /\ dest' = [dest EXCEPT ![OWNED[k]] = export[OWNED[k]]]
                /\ export' = [export EXCEPT ![OWNED[k]] = Absent]
                /\ IF k = 3 THEN pc' = "validate" ELSE pc' = "install"
      BY <1>7 DEF Install, call, Rollback
    <2>2. k = 3 <=> OWNED[k] = "functions.json" BY <1>1, OwnedFiles
    <2>3. Json(export).id = calls BY <1>7 DEF Install
    <2>4. "functions.json" \in Files BY OwnedFiles
    <2> QED BY <1>1, <2>1, <2>2, <2>3, <2>4 DEF Json, Trios
  <1>8. CASE ValidatePlaced \/ Unplace \/ CleanDirs \/ UndoDirectory
    <2>1. pc' \in {"return", "unplace"}
      BY <1>8 DEF ValidatePlaced, Unplace, CleanDirs, UndoDirectory, Finish
    <2> QED BY <2>1
  <1>9. CASE Validate \/ Clean
    <2>1. UNCHANGED <<dest, calls>> /\ pc' \in {"clean", "cleanDirs", "rollback"}
      BY <1>9 DEF Validate, Clean, disk, call, Rollback
    <2> QED BY <1>9, <2>1 DEF Validate, Clean, Json
  <1>10. CASE UndoInstall \/ UndoBackup
    <2>1. pc' = "rollback" BY <1>10 DEF UndoInstall, UndoBackup
    <2> QED BY <2>1
  <1>11. CASE Return \/ Crash BY <1>11 DEF Return, Crash, Forget
  <1>12. CASE UNCHANGED vars BY <1>12 DEF vars, Json, ExactTrio
  <1> QED
    BY <1>2, <1>3, <1>4, <1>5, <1>6, <1>7, <1>8, <1>9, <1>10, <1>11, <1>12
    DEF Next, Refresh

LEMMA SucceededStep ==
    ASSUME FileInv, Fresh, Succeeded, [Next]_vars
    PROVE  Succeeded'
  <1> USE DEF Succeeded
  <1>1. CASE Export \/ Crash
    <2>1. result' = "none" BY <1>1 DEF Export, Crash
    <2> QED BY <2>1
  <1>2. CASE CheckExport \/ Baseline \/ Staged
    <2>1. result = "none" /\ ((result' = "err" /\ pc' = "return") \/ result' = "none")
      BY <1>2 DEF CheckExport, Baseline, Staged, Finish
    <2> QED BY <2>1
  <1>3. CASE Place \/ Unplace \/ CreateBackup \/ UndoDirectory
    <2>1. result = "none" /\ ((result' = "err" /\ pc' = "return") \/ result' = "none")
      BY <1>3 DEF Place, Unplace, CreateBackup, UndoDirectory, Finish
    <2> QED BY <2>1
  <1>4. CASE BackUp \/ Install \/ Validate \/ Clean \/ UndoInstall \/ UndoBackup
    <2>1. result' = "none"
      BY <1>4 DEF BackUp, Install, Validate, Clean, UndoInstall, UndoBackup
    <2> QED BY <2>1
  <1>5. CASE ValidatePlaced
    <2>1. /\ result = "none" /\ UNCHANGED <<dest, calls>>
          /\ \/ result' = "ok" /\ pc' = "return" /\ committed' = dest
             \/ result' = "none"
      BY <1>5 DEF ValidatePlaced, Finish, disk, call
    <2>2. Whole(dest) /\ Json(dest).id = calls
      BY <1>5 DEF ValidatePlaced, FileInv, Placing, Fresh
    <2> QED BY <2>1, <2>2 DEF Whole, At, Json
  <1>6. CASE CleanDirs
    <2>1. /\ UNCHANGED <<dest, calls, committed>> /\ pc' = "return"
      BY <1>6 DEF CleanDirs, Finish, call
    <2>2. dest = committed /\ Whole(dest) /\ Json(dest).id = calls
      BY <1>6 DEF CleanDirs, FileInv, Cleaning, Fresh
    <2> QED BY <2>1, <2>2 DEF Whole, At, Json
  <1>7. CASE Return
    <2>1. UNCHANGED <<dest, calls, committed, result>> /\ pc' = "idle"
          /\ (result = "ok" => raw' = Cardinality(Json(dest).created))
      BY <1>7 DEF Return, Update, Forget, disk
    <2> QED BY <2>1 DEF Whole, At, Json
  <1>8. CASE UNCHANGED vars BY <1>8 DEF vars, Whole, At, Json
  <1> QED
    BY <1>1, <1>2, <1>3, <1>4, <1>5, <1>6, <1>7, <1>8 DEF Next, Refresh

\* A validation accepts a counted report only for the inventory it counts.
LEMMA ValidMeansCounted ==
    ASSUME NEW x, NEW v, NEW old,
           Bare(v), v.created \in Nat, v.reapplied \in Nat, Valid(x, v, old),
           raw \in Nat, x.created \in SUBSET Candidates
    PROVE  raw # 0 => raw = Cardinality(x.created)
  <1>1. raw + v.created + v.reapplied = Cardinality(x.created)
    BY DEF Valid
  <1>2. CASE ~v.some BY <1>1, <1>2 DEF Bare
  <1>3. CASE v.some
    <2>1. v.created + v.reapplied = Cardinality(x.created) BY <1>3 DEF Valid
    <2> QED BY <1>1, <2>1
  <1> QED BY <1>2, <1>3

LEMMA HonestStep ==
    ASSUME IType, FileInv, Blank, Succeeded, CountersAreHonest, [Next]_vars
    PROVE  CountersAreHonest'
  <1> USE DEF CountersAreHonest
  <1>1. /\ raw \in Nat /\ Json(dest).created \in SUBSET Candidates
        /\ summary \in Summaries /\ view \in Summaries
        /\ Cardinality(Candidates) \in Nat
    BY Counting, OwnedFiles
    DEF IType, CountTypeOK, FileTypeOK, Trios, Json, Contents, Absent
  <1>2. CASE ValidatePlaced \/ Validate
    <2>1. CASE UNCHANGED committed
      <3>1. UNCHANGED raw BY <1>2 DEF ValidatePlaced, Validate, call
      <3> QED BY <2>1, <3>1 DEF Json
    <2>2. CASE committed' # committed
      <3>1. UNCHANGED raw /\ committed' = dest
        BY <1>2, <2>2 DEF ValidatePlaced, Validate, call
      <3>2. dest # Nothing
        <4>1. Whole(dest) BY <1>2 DEF ValidatePlaced, Validate, FileInv, Placing, Replacing
        <4> QED BY <4>1, OwnedFiles DEF Whole, At, Nothing
      <3>3. \E v \in {view, CommittedView(summary)} : Valid(Json(dest), v, retained)
        BY <1>2, <2>2 DEF ValidatePlaced, Validate
      <3>4. PICK v : /\ v \in {view, CommittedView(summary)}
                     /\ Valid(Json(dest), v, retained)
        BY <3>3
      <3>5. Bare(v) /\ v.created \in Nat /\ v.reapplied \in Nat
        BY <1>1, <3>4 DEF Blank, Bare, CommittedView, WithCounts, Counted, Summaries
      <3>6. raw # 0 => raw = Cardinality(Json(dest).created)
        BY <1>1, <3>4, <3>5, ValidMeansCounted
      <3> QED BY <3>1, <3>2, <3>6 DEF Json
    <2> QED BY <2>1, <2>2
  <1>3. CASE Return
    <2>1. UNCHANGED <<dest, committed>> /\ (result = "ok" \/ UNCHANGED raw)
          /\ (result = "ok" => raw' = Cardinality(Json(dest).created))
      BY <1>3 DEF Return, Update, disk
    <2>2. result = "ok" => dest = committed /\ dest # Nothing
      BY OwnedFiles DEF Succeeded, Whole, At, Nothing
    <2> QED BY <2>1, <2>2 DEF Json
  <1>4. CASE UNCHANGED committed /\ raw' \in {raw, 0} BY <1>4 DEF Json
  <1>5. (UNCHANGED committed /\ raw' \in {raw, 0}) \/ ValidatePlaced \/ Validate \/ Return
    BY DEF Next, Refresh, vars, call, Export, CheckExport, Baseline, Staged,
           Place, Unplace, CreateBackup, BackUp, Install, Clean, CleanDirs,
           UndoInstall, UndoBackup, UndoDirectory, Crash
  <1> QED BY <1>2, <1>3, <1>4, <1>5

LEMMA ListInvariant == Spec => []ListInv
  <1>1. ASSUME Init PROVE ListInv
    <2>1. dest = All(Pass1) \/ dest = Nothing BY <1>1 DEF Init
    <2>2. /\ export = Nothing /\ backup = Nothing /\ owned = {} /\ pc = "idle"
          /\ summary = NoSummary /\ view = NoSummary /\ result = "none" /\ raw = 0
      BY <1>1 DEF Init
    <2>3. Contained
      BY <2>1, <2>2, OwnedFiles DEF Contained, At, All, Nothing, Pass1, Absent
    <2>4. Remembered /\ Fresh /\ Succeeded /\ CountersAreHonest
      BY <2>2 DEF Remembered, Fresh, Succeeded, CountersAreHonest
    <2>5. Blank BY <2>2 DEF Blank, Bare, NoSummary
    <2> QED BY <2>3, <2>4, <2>5 DEF ListInv
  <1>2. IType /\ FileInv /\ ListInv /\ [Next]_vars => ListInv'
    BY ContainedStep, RememberedStep, FreshStep, BlankStep, SucceededStep,
       HonestStep DEF ListInv
  <1> QED BY <1>1, <1>2, TypeInvariant, FileInvariant, PTL DEF Spec

\* Success publishes one whole export, the one made for this call, and the
\* producer report then counts the file in place (refresh_decompiled_and_update).
THEOREM SuccessPublishesAll == Spec => []SuccessIsWhole
  <1>1. IType /\ ListInv => SuccessIsWhole
    <2>1. SUFFICES ASSUME IType, ListInv, result = "ok" PROVE SuccessIsWhole
      BY DEF SuccessIsWhole
    <2>2. /\ dest = committed /\ Whole(dest) /\ Json(dest).id = calls
          /\ pc = "idle" => raw = Cardinality(Json(dest).created)
      BY <2>1 DEF ListInv, Succeeded
    <2>3. dest = All([Json(dest) EXCEPT !.id = calls])
      <3>1. dest \in Trios /\ "functions.json" \in Files
        BY <2>1, OwnedFiles DEF IType, FileTypeOK
      <3>2. \A f \in Files : dest[f] = Json(dest)
        BY <2>2, OwnedFiles DEF Whole, At, Json
      <3>3. Json(dest) \in Contents \cup {Absent} BY <3>1 DEF Trios, Json
      <3>4. Json(dest) = [Json(dest) EXCEPT !.id = calls]
        BY <2>2, <3>3 DEF Contents, Absent
      <3> QED BY <3>1, <3>2, <3>4 DEF Trios, All
    <2> QED BY <2>2, <2>3 DEF SuccessIsWhole
  <1> QED BY <1>1, TypeInvariant, ListInvariant, PTL

\* The producer report counts pass 1 or the trio last validated in place, never
\* an export that was refused or rolled back.
THEOREM ReportCountsPublished == Spec => []CountersAreHonest
  <1>1. ListInv => CountersAreHonest BY DEF ListInv
  <1> QED BY <1>1, ListInvariant, PTL

\* Between two committed trios no function is lost or changed, and every added
\* one is a creation that the Ghidra project owns.
THEOREM NoFunctionIsLost == Spec => InventoryGrows
  <1> DEFINE Growth == committed # Nothing /\ committed' # committed =>
                         /\ Json(committed').base = Json(committed).base
                         /\ Json(committed).created \subseteq Json(committed').created
                         /\ Json(committed').created \subseteq owned
  <1>1. FileInv /\ ListInv /\ [Next]_vars => [Growth]_vars
    <2>1. SUFFICES ASSUME FileInv, ListInv, [Next]_vars,
                          committed # Nothing, committed' # committed
                   PROVE  Growth
      OBVIOUS
    <2>2. ValidatePlaced \/ Validate
      BY <2>1 DEF Next, Refresh, vars, Export, CheckExport, Baseline, Staged,
             Place, Unplace, CreateBackup, BackUp, Install, Clean, CleanDirs,
             UndoInstall, UndoBackup, UndoDirectory, Return, Crash
    <2>3. Validate
      BY <2>1, <2>2 DEF ValidatePlaced, FileInv, Placing
    <2>4. /\ committed = before /\ retained = Json(before) /\ Held
          /\ Valid(Json(dest), view, retained) /\ committed' = dest
      BY <2>1, <2>3 DEF Validate, FileInv, Replacing, ListInv, Remembered
    <2>5. KeepsRetained(Json(dest), view, Json(committed))
      <3>1. Json(before) # Absent
        BY <2>4, OwnedFiles DEF Held, Whole, At, Json
      <3> QED BY <2>4, <3>1 DEF Valid
    <2>6. Json(dest).created \subseteq owned
      BY <2>1, OwnedFiles DEF ListInv, Contained, At, Json
    <2> QED BY <2>4, <2>5, <2>6 DEF KeepsRetained, Json
  <1> QED BY <1>1, FileInvariant, ListInvariant, PTL DEF Spec, InventoryGrows
=============================================================================
